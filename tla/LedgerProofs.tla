---------------------------- MODULE LedgerProofs ----------------------------
(***************************************************************************)
(* The two ledgers, proved about one after the other, and that either is   *)
(* the one log of LedgerLog.                                               *)
(*                                                                         *)
(* JsonlLedger, for any number of processes, any contents and any number   *)
(* of failures.  The lock is what everything rests on: a process that is   *)
(* about to write has read the file as it still is, and a process that is  *)
(* about to return has its record at the end of the file.                  *)
(*                                                                         *)
(* SqlLedger, for any number of callers, operation ids, records, attempts  *)
(* and failures: the three tables always agree.                            *)
(***************************************************************************)
EXTENDS JsonlLedger, SqlLedger, FiniteSetTheorems, SequenceTheorems,
        WellFoundedInduction, TLAPS

Exclusion ==
  \A p, q \in Process : p # q /\ Holds(p) /\ Holds(q) => Shares(p) /\ Shares(q)

(* What p has read is what p extends.                                      *)
ReadIsCurrent(p) ==
  pc[p] = "write" =>
    /\ ~ Shares(p)
    /\ Readable(file)
    /\ call[p].previous = Contents(file)
    /\ HeadExpected(p)

WrittenIsLast(p) ==
  pc[p] = "sync" =>
    /\ ~ Shares(p)
    /\ \E n \in 1..Len(file) : file[n] = NewRecord(p)

FileInv ==
  /\ FileTypeOK
  /\ AcknowledgedSurvives
  /\ Exclusion
  /\ \A p \in Process : ReadIsCurrent(p) /\ WrittenIsLast(p)
-----------------------------------------------------------------------------
LEMMA ContentsIsLog ==
  ASSUME NEW f \in Seq(Token), Readable(f)
  PROVE  Contents(f) \in Log
<1>1. Len(f) \in Nat /\ Lines(f) \in Nat
  BY DEF Lines
<1>2. \A n \in 1..Lines(f) : f[2 * n - 1].body \in Body
  BY DEF Readable, Record
<1>. QED BY <1>1, <1>2 DEF Contents, Log

LEMMA RecordIsToken ==
  ASSUME FileTypeOK, NEW p \in Process, pc[p] # "idle"
  PROVE  NewRecord(p) \in Record /\ NewRecord(p) \in Token
BY DEF FileTypeOK, NewRecord, Record, Token, FileCall

(* Adding to the file moves nothing that is in it.                         *)
LEMMA Extended ==
  ASSUME NEW f \in Seq(Token), NEW part \in Seq(Token)
  PROVE  /\ f \o part \in Seq(Token)
         /\ Len(f) <= Len(f \o part)
         /\ \A n \in 1..Len(f) : (f \o part)[n] = f[n]
OBVIOUS

(* Giving up a call: what is left to show when a process goes idle.        *)
LEMMA CloseKeeps ==
  ASSUME FileInv, NEW p \in Process, Close(p),
         \/ file' = file
         \/ Holds(p) /\ ~ Shares(p)
  PROVE  /\ pc' \in [Process -> Pc]
         /\ call' \in [Process -> FileCall \cup {NoCall}]
         /\ \A q \in Process : pc'[q] # "idle" => call'[q] \in FileCall
         /\ Exclusion'
         /\ \A q \in Process : ReadIsCurrent(q)' /\ (file' = file => WrittenIsLast(q)')
<1>1. /\ pc' \in [Process -> Pc] /\ call' \in [Process -> FileCall \cup {NoCall}]
      /\ pc'[p] = "idle"
      /\ \A q \in Process \ {p} : pc'[q] = pc[q] /\ call'[q] = call[q]
  BY DEF FileInv, FileTypeOK, Close, Pc
<1>2. \A q \in Process : pc'[q] # "idle" => call'[q] \in FileCall
  BY <1>1 DEF FileInv, FileTypeOK
<1>3. Exclusion'
  BY <1>1 DEF FileInv, Exclusion, Holds, Shares
<1>4. ASSUME NEW q \in Process
      PROVE  ReadIsCurrent(q)'
  <2>1. CASE q = p
    BY <1>1, <2>1 DEF ReadIsCurrent
  <2>2. CASE q # p /\ file' = file
    BY <1>1, <2>2 DEF FileInv, ReadIsCurrent, Shares, HeadExpected
  <2>3. CASE q # p /\ Holds(p) /\ ~ Shares(p)
    BY <1>1, <2>3 DEF FileInv, Exclusion, Holds, ReadIsCurrent
  <2>. QED BY <2>1, <2>2, <2>3
<1>5. ASSUME NEW q \in Process, file' = file
      PROVE  WrittenIsLast(q)'
  BY <1>1, <1>5 DEF FileInv, WrittenIsLast, Shares, NewRecord
<1>. QED BY <1>1, <1>2, <1>3, <1>4, <1>5
-----------------------------------------------------------------------------
(* The inductive step.                                                     *)

LEMMA FileStart == FileInit => FileInv
<1>1. SUFFICES ASSUME FileInit PROVE FileInv
  OBVIOUS
<1>2. FileTypeOK
  BY <1>1, TokenAssumption DEF FileInit, FileTypeOK, Log, Pc, Token
<1>3. AcknowledgedSurvives /\ Exclusion
  BY <1>1 DEF FileInit, AcknowledgedSurvives, Exclusion, Holds
<1>4. \A p \in Process : ReadIsCurrent(p) /\ WrittenIsLast(p)
  BY <1>1 DEF FileInit, ReadIsCurrent, WrittenIsLast
<1>. QED BY <1>2, <1>3, <1>4 DEF FileInv

LEMMA OpenStep ==
  ASSUME FileInv, NEW p \in Process, NEW op \in Op, NEW d \in Body, Open(p, op, d)
  PROVE  FileInv'
<1>1. /\ pc[p] = "idle" /\ pc' = [pc EXCEPT ![p] = "lock"]
      /\ UNCHANGED <<file, synced, view, acked, faults>>
      /\ call'[p] \in FileCall /\ call' \in [Process -> FileCall \cup {NoCall}]
      /\ \A q \in Process \ {p} : call'[q] = call[q]
  <2>1. [op |-> op, body |-> d, expected |-> view[p], previous |-> <<>>] \in FileCall
    BY DEF FileInv, FileTypeOK, FileCall, Log
  <2>. QED BY <2>1 DEF Open, FileInv, FileTypeOK
<1>2. /\ pc' \in [Process -> Pc] /\ pc'[p] = "lock"
      /\ \A q \in Process \ {p} : pc'[q] = pc[q]
  BY <1>1 DEF FileInv, FileTypeOK, Pc
<1>3. FileTypeOK'
  BY <1>1, <1>2 DEF FileInv, FileTypeOK
<1>4. AcknowledgedSurvives'
  BY <1>1 DEF FileInv, AcknowledgedSurvives
<1>5. Exclusion'
  BY <1>1, <1>2 DEF FileInv, Exclusion, Holds, Shares
<1>6. \A q \in Process : ReadIsCurrent(q)' /\ WrittenIsLast(q)'
  BY <1>1, <1>2 DEF FileInv, ReadIsCurrent, WrittenIsLast, Shares, HeadExpected, NewRecord
<1>. QED BY <1>3, <1>4, <1>5, <1>6 DEF FileInv

LEMMA LockStep ==
  ASSUME FileInv, NEW p \in Process, Lock(p)
  PROVE  FileInv'
<1>1. /\ pc[p] = "lock" /\ LockFree(p) /\ pc' \in [Process -> Pc] /\ pc'[p] = "read"
      /\ UNCHANGED <<file, synced, view, acked, faults, call>>
      /\ \A q \in Process \ {p} : pc'[q] = pc[q]
  BY DEF Lock, FileInv, FileTypeOK, Pc
<1>2. FileTypeOK'
  BY <1>1 DEF FileInv, FileTypeOK
<1>3. AcknowledgedSurvives'
  BY <1>1 DEF FileInv, AcknowledgedSurvives
<1>4. Exclusion'
  BY <1>1 DEF FileInv, Exclusion, Holds, Shares, LockFree
<1>5. \A q \in Process : ReadIsCurrent(q)' /\ WrittenIsLast(q)'
  BY <1>1 DEF FileInv, ReadIsCurrent, WrittenIsLast, Shares, HeadExpected, NewRecord
<1>. QED BY <1>2, <1>3, <1>4, <1>5 DEF FileInv

(* Entries, Raise and Crash return and leave the file and what has been    *)
(* acknowledged; SyncFails also counts a failure.                          *)
LEMMA IdleStep ==
  ASSUME FileInv, NEW p \in Process, Close(p), UNCHANGED <<file, synced, acked>>,
         view' \in [Process -> Log], faults' \in 0..MaxFaults
  PROVE  FileInv'
<1>1. /\ pc' \in [Process -> Pc] /\ call' \in [Process -> FileCall \cup {NoCall}]
      /\ \A q \in Process : pc'[q] # "idle" => call'[q] \in FileCall
      /\ Exclusion'
      /\ \A q \in Process : ReadIsCurrent(q)' /\ WrittenIsLast(q)'
  BY CloseKeeps
<1>2. FileTypeOK'
  BY <1>1 DEF FileInv, FileTypeOK
<1>3. AcknowledgedSurvives'
  BY DEF FileInv, AcknowledgedSurvives
<1>. QED BY <1>1, <1>2, <1>3 DEF FileInv

LEMMA EntriesStep ==
  ASSUME FileInv, NEW p \in Process, Entries(p)
  PROVE  FileInv'
<1>1. Contents(file) \in Log
  BY ContentsIsLog DEF FileInv, FileTypeOK, Entries
<1>2. view' \in [Process -> Log] /\ faults' \in 0..MaxFaults
  BY <1>1 DEF FileInv, FileTypeOK, Entries
<1>. QED BY <1>2, IdleStep DEF Entries

LEMMA GivingUpStep ==
  ASSUME FileInv, NEW p \in Process, Reject(p) \/ Crash(p) \/ SyncFails(p)
  PROVE  FileInv'
<1>1. /\ Close(p) /\ UNCHANGED <<file, synced, acked>> /\ view' = view
      /\ faults' = faults \/ (faults < MaxFaults /\ faults' = faults + 1)
  BY DEF Reject, Crash, SyncFails
<1>2. view' \in [Process -> Log] /\ faults' \in 0..MaxFaults
  BY <1>1, TokenAssumption DEF FileInv, FileTypeOK
<1>. QED BY <1>1, <1>2, IdleStep

LEMMA PrepareStep ==
  ASSUME FileInv, NEW p \in Process, Prepare(p)
  PROVE  FileInv'
<1>1. /\ pc[p] = "read" /\ call[p].op # "entries" /\ Readable(file) /\ HeadExpected(p)
      /\ pc' \in [Process -> Pc] /\ pc'[p] = "write"
      /\ UNCHANGED <<file, synced, view, acked, faults>>
      /\ \A q \in Process \ {p} : pc'[q] = pc[q] /\ call'[q] = call[q]
      /\ call[p] \in FileCall /\ call'[p] = [call[p] EXCEPT !.previous = Contents(file)]
      /\ call' = [call EXCEPT ![p].previous = Contents(file)]
  BY DEF Prepare, FileInv, FileTypeOK, Pc
<1>2. /\ call'[p] \in FileCall /\ call'[p].op = call[p].op
      /\ call'[p].expected = call[p].expected /\ call'[p].previous = Contents(file)
  <2>1. Contents(file) \in Log
    BY <1>1, ContentsIsLog DEF FileInv, FileTypeOK
  <2>. QED BY <1>1, <2>1 DEF FileCall
<1>3. FileTypeOK'
  <2>1. call' \in [Process -> FileCall \cup {NoCall}]
    BY <1>1, <1>2 DEF FileInv, FileTypeOK
  <2>. QED BY <1>1, <1>2, <2>1 DEF FileInv, FileTypeOK
<1>4. AcknowledgedSurvives'
  BY <1>1 DEF FileInv, AcknowledgedSurvives
<1>5. Exclusion'
  BY <1>1, <1>2 DEF FileInv, Exclusion, Holds, Shares
<1>6. ReadIsCurrent(p)' /\ WrittenIsLast(p)'
  BY <1>1, <1>2 DEF ReadIsCurrent, WrittenIsLast, Shares, HeadExpected
<1>7. \A q \in Process \ {p} : ReadIsCurrent(q)' /\ WrittenIsLast(q)'
  BY <1>1 DEF FileInv, ReadIsCurrent, WrittenIsLast, Shares, HeadExpected, NewRecord
<1>. QED BY <1>3, <1>4, <1>5, <1>6, <1>7 DEF FileInv

(* A longer file keeps what was acknowledged.                              *)
LEMMA GrownFile ==
  ASSUME FileInv, NEW part \in Seq(Token), file' = file \o part,
         UNCHANGED <<synced, acked>>
  PROVE  /\ file' \in Seq(Token) /\ synced' \in 0..Len(file')
         /\ Len(file) <= Len(file')
         /\ AcknowledgedSurvives'
<1>1. /\ file \in Seq(Token) /\ synced \in 0..Len(file) /\ Len(file) \in Nat
  BY DEF FileInv, FileTypeOK
<1>2. /\ file' \in Seq(Token) /\ Len(file) <= Len(file') /\ Len(file') \in Nat
      /\ \A n \in 1..Len(file) : file'[n] = file[n]
  BY <1>1, Extended
<1>3. \A n \in 1..synced : n \in 1..Len(file)
  BY <1>1
<1>4. AcknowledgedSurvives'
  BY <1>2, <1>3 DEF FileInv, AcknowledgedSurvives
<1>. QED BY <1>1, <1>2, <1>4

LEMMA WriteStep ==
  ASSUME FileInv, NEW p \in Process, Write(p)
  PROVE  FileInv'
<1>1. /\ pc[p] = "write" /\ pc' \in [Process -> Pc] /\ pc'[p] = "sync"
      /\ file' = file \o <<NewRecord(p), Newline>>
      /\ UNCHANGED <<synced, view, acked, faults, call>>
      /\ \A q \in Process \ {p} : pc'[q] = pc[q]
  BY DEF Write, FileInv, FileTypeOK, Pc
<1>2. <<NewRecord(p), Newline>> \in Seq(Token)
  BY <1>1, RecordIsToken DEF FileInv, Token
<1>3. /\ file' \in Seq(Token) /\ synced' \in 0..Len(file') /\ AcknowledgedSurvives'
  BY <1>1, <1>2, GrownFile
<1>4. FileTypeOK'
  BY <1>1, <1>3 DEF FileInv, FileTypeOK
<1>5. Exclusion'
  BY <1>1 DEF FileInv, Exclusion, Holds, Shares
<1>6. Holds(p) /\ ~ Shares(p)
  BY <1>1 DEF FileInv, ReadIsCurrent, Holds
<1>7. ASSUME NEW q \in Process \ {p}
      PROVE  ReadIsCurrent(q)' /\ WrittenIsLast(q)'
  <2>1. ~ Holds(q)
    BY <1>6 DEF FileInv, Exclusion
  <2>. QED BY <1>1, <2>1 DEF Holds, ReadIsCurrent, WrittenIsLast
<1>8. ReadIsCurrent(p)' /\ WrittenIsLast(p)'
  <2>1. /\ Len(file) + 1 \in 1..Len(file') /\ file'[Len(file) + 1] = NewRecord(p)
    BY <1>1, <1>2 DEF FileInv, FileTypeOK
  <2>2. NewRecord(p)' = NewRecord(p) /\ ~ Shares(p)'
    BY <1>1, <1>6 DEF NewRecord, Shares
  <2>. QED BY <1>1, <2>1, <2>2 DEF ReadIsCurrent, WrittenIsLast
<1>. QED BY <1>3, <1>4, <1>5, <1>7, <1>8 DEF FileInv

LEMMA WriteFailsStep ==
  ASSUME FileInv, NEW p \in Process, WriteFails(p)
  PROVE  FileInv'
<1>1. /\ pc[p] = "write" /\ Close(p) /\ UNCHANGED <<synced, view, acked>>
      /\ faults < MaxFaults /\ faults' = faults + 1
  BY DEF WriteFails
<1>2. PICK part \in {<<Fragment>>, <<NewRecord(p)>>, <<NewRecord(p), Newline>>} :
        file' = file \o part
  BY DEF WriteFails
<1>3. part \in Seq(Token)
  <2>1. Fragment \in Token /\ Newline \in Token
    BY DEF Token
  <2>2. NewRecord(p) \in Token
    BY <1>1, RecordIsToken DEF FileInv, Token
  <2>3. part = <<Fragment>> \/ part = <<NewRecord(p)>> \/ part = <<NewRecord(p), Newline>>
    BY <1>2
  <2>4. CASE part = <<Fragment>>
    BY <2>1, <2>4
  <2>5. CASE part = <<NewRecord(p)>>
    BY <2>2, <2>5
  <2>6. CASE part = <<NewRecord(p), Newline>>
    BY <2>1, <2>2, <2>6
  <2>. QED BY <2>3, <2>4, <2>5, <2>6
<1>4. /\ file' \in Seq(Token) /\ synced' \in 0..Len(file') /\ AcknowledgedSurvives'
  BY <1>1, <1>2, <1>3, GrownFile
<1>5. Holds(p) /\ ~ Shares(p)
  BY <1>1 DEF FileInv, ReadIsCurrent, Holds
<1>6. /\ pc' \in [Process -> Pc] /\ call' \in [Process -> FileCall \cup {NoCall}]
      /\ \A q \in Process : pc'[q] # "idle" => call'[q] \in FileCall
      /\ Exclusion' /\ \A q \in Process : ReadIsCurrent(q)'
  BY <1>1, <1>5, CloseKeeps
<1>7. \A q \in Process : WrittenIsLast(q)'
  <2>1. ASSUME NEW q \in Process, pc'[q] = "sync" PROVE FALSE
    <3>1. q # p /\ pc[q] = "sync"
      BY <1>1, <2>1 DEF Close, FileInv, FileTypeOK
    <3>. QED BY <1>5, <3>1 DEF FileInv, Exclusion, Holds
  <2>. QED BY <2>1 DEF WrittenIsLast
<1>8. FileTypeOK'
  BY <1>1, <1>4, <1>6, TokenAssumption DEF FileInv, FileTypeOK
<1>. QED BY <1>4, <1>6, <1>7, <1>8 DEF FileInv

LEMMA SyncStep ==
  ASSUME FileInv, NEW p \in Process, Sync(p)
  PROVE  FileInv'
<1>1. /\ pc[p] = "sync" /\ Close(p) /\ UNCHANGED <<file, faults>>
      /\ synced' = Len(file) /\ acked' = acked \cup {NewRecord(p)}
      /\ view' = [view EXCEPT ![p] = Append(call[p].previous, call[p].body)]
  BY DEF Sync
<1>2. /\ pc' \in [Process -> Pc] /\ call' \in [Process -> FileCall \cup {NoCall}]
      /\ \A q \in Process : pc'[q] # "idle" => call'[q] \in FileCall
      /\ Exclusion' /\ \A q \in Process : ReadIsCurrent(q)' /\ WrittenIsLast(q)'
  BY <1>1, CloseKeeps
<1>3. FileTypeOK'
  <2>1. Append(call[p].previous, call[p].body) \in Log
    BY <1>1 DEF FileInv, FileTypeOK, FileCall, Log
  <2>2. view' \in [Process -> Log]
    BY <1>1, <2>1 DEF FileInv, FileTypeOK
  <2>3. NewRecord(p) \in Record
    BY <1>1, RecordIsToken DEF FileInv
  <2>4. synced' \in 0..Len(file')
    BY <1>1 DEF FileInv, FileTypeOK
  <2>. QED BY <1>1, <1>2, <2>2, <2>3, <2>4 DEF FileInv, FileTypeOK
<1>4. AcknowledgedSurvives'
  <2>1. \E n \in 1..Len(file) : file[n] = NewRecord(p)
    BY <1>1 DEF FileInv, WrittenIsLast
  <2>2. \A r \in acked : \E n \in 1..Len(file) : file[n] = r
    BY DEF FileInv, FileTypeOK, AcknowledgedSurvives
  <2>. QED BY <1>1, <2>1, <2>2 DEF AcknowledgedSurvives
<1>. QED BY <1>2, <1>3, <1>4 DEF FileInv

LEMMA PowerLossStep == FileInv /\ PowerLoss => FileInv'
<1>1. SUFFICES ASSUME FileInv, PowerLoss PROVE FileInv'
  OBVIOUS
<1>2. /\ pc' = [p \in Process |-> "idle"] /\ call' = [p \in Process |-> NoCall]
      /\ UNCHANGED <<synced, view, acked>>
      /\ faults < MaxFaults /\ faults' = faults + 1
  BY <1>1 DEF PowerLoss
<1>3. PICK n \in synced..Len(file) :
        \/ file' = SubSeq(file, 1, n)
        \/ file' = Append(SubSeq(file, 1, n), Fragment)
  BY <1>1 DEF PowerLoss
<1>4. /\ file \in Seq(Token) /\ synced \in Nat /\ n \in Nat /\ n <= Len(file) /\ synced <= n
  BY <1>1, <1>3 DEF FileInv, FileTypeOK
<1>5. /\ SubSeq(file, 1, n) \in Seq(Token) /\ Len(SubSeq(file, 1, n)) = n
      /\ \A m \in 1..n : SubSeq(file, 1, n)[m] = file[m]
  BY <1>4
<1>6. /\ file' \in Seq(Token) /\ synced \in 0..Len(file')
      /\ \A m \in 1..synced : file'[m] = file[m]
  <2>1. CASE file' = SubSeq(file, 1, n)
    BY <1>4, <1>5, <2>1
  <2>2. CASE file' = Append(SubSeq(file, 1, n), Fragment)
    <3>. DEFINE f == SubSeq(file, 1, n)
    <3>1. f \in Seq(Token) /\ Len(f) = n /\ Fragment \in Token
      BY <1>5 DEF Token
    <3>2. \A m \in 1..n : f[m] = file[m]
      BY <1>5
    <3>3. file' = Append(f, Fragment)
      BY <2>2
    <3>. HIDE DEF f
    <3>4. /\ file' \in Seq(Token) /\ Len(file') = n + 1
          /\ \A m \in 1..n : file'[m] = f[m]
      BY <3>1, <3>3
    <3>. QED BY <1>4, <3>2, <3>4
  <2>. QED BY <1>3, <2>1, <2>2
<1>7. FileTypeOK'
  BY <1>1, <1>2, <1>6, TokenAssumption DEF FileInv, FileTypeOK, Pc
<1>8. AcknowledgedSurvives'
  BY <1>1, <1>2, <1>6 DEF FileInv, AcknowledgedSurvives
<1>9. Exclusion' /\ \A p \in Process : ReadIsCurrent(p)' /\ WrittenIsLast(p)'
  BY <1>2 DEF Exclusion, Holds, ReadIsCurrent, WrittenIsLast
<1>. QED BY <1>7, <1>8, <1>9 DEF FileInv

LEMMA FileStep == FileInv /\ [FileNext]_fileVars => FileInv'
<1>1. SUFFICES ASSUME FileInv, [FileNext]_fileVars PROVE FileInv'
  OBVIOUS
<1>2. CASE PowerLoss
  BY <1>1, <1>2, PowerLossStep
<1>3. CASE UNCHANGED fileVars
  BY <1>1, <1>3 DEF fileVars, FileInv, FileTypeOK, AcknowledgedSurvives, Exclusion, Holds,
     Shares, ReadIsCurrent, WrittenIsLast, HeadExpected, NewRecord
<1>4. ASSUME NEW p \in Process, NEW op \in Op, NEW d \in Body, Open(p, op, d)
      PROVE  FileInv'
  BY <1>1, <1>4, OpenStep
<1>5. ASSUME NEW p \in Process, Lock(p) \/ Run(p) \/ Breaks(p)
      PROVE  FileInv'
  <2>1. CASE Lock(p)
    BY <1>1, <2>1, LockStep
  <2>2. CASE Entries(p)
    BY <1>1, <2>2, EntriesStep
  <2>3. CASE Prepare(p)
    BY <1>1, <2>3, PrepareStep
  <2>4. CASE Reject(p) \/ Crash(p) \/ SyncFails(p)
    BY <1>1, <2>4, GivingUpStep
  <2>5. CASE Write(p)
    BY <1>1, <2>5, WriteStep
  <2>6. CASE WriteFails(p)
    BY <1>1, <2>6, WriteFailsStep
  <2>7. CASE Sync(p)
    BY <1>1, <2>7, SyncStep
  <2>. QED BY <1>5, <2>1, <2>2, <2>3, <2>4, <2>5, <2>6, <2>7 DEF Run, Breaks
<1>. QED BY <1>1, <1>2, <1>3, <1>4, <1>5 DEF FileNext

LEMMA FileInvariance == FileSpec => []FileInv
<1>. QED BY FileStart, FileStep, PTL DEF FileSpec

(* Every reachable state of the ledger file is well typed.                 *)
THEOREM FileTypeCorrect == FileSpec => []FileTypeOK
<1>1. FileInv => FileTypeOK
  BY DEF FileInv
<1>. QED BY <1>1, FileInvariance, PTL

(* A record whose append has returned is in the file for good, whatever    *)
(* processes die, writes and syncs fail and power losses happen later.     *)
THEOREM AcknowledgedIsDurable == FileSpec => []AcknowledgedSurvives
<1>1. FileInv => AcknowledgedSurvives
  BY DEF FileInv
<1>. QED BY <1>1, FileInvariance, PTL

(* append_if_head extends exactly the ledger its caller has seen.          *)
THEOREM AppendsAreCompared == FileSpec => CompareAndAppend
<1>1. FileInv => \A p \in Process :
        Write(p) /\ call[p].op = "append_if_head" =>
          Readable(file) /\ Contents(file) = call[p].expected
  BY DEF FileInv, ReadIsCurrent, Write, HeadExpected
<1>. QED BY <1>1, FileInvariance, PTL DEF CompareAndAppend

(* A ledger that cannot be read never grows again.                         *)
THEOREM UnreadableStays == FileSpec => CorruptionIsFinal
<1>1. FileInv /\ [FileNext]_fileVars => (~ Readable(file) => Len(file') <= Len(file))
  <2>1. SUFFICES ASSUME FileInv, [FileNext]_fileVars, ~ Readable(file)
                 PROVE  Len(file') <= Len(file)
    OBVIOUS
  <2>2. Len(file) \in Nat
    BY <2>1 DEF FileInv, FileTypeOK
  <2>3. CASE file' = file
    BY <2>2, <2>3
  <2>4. CASE PowerLoss
    <3>1. PICK n \in synced..Len(file) :
            \/ file' = SubSeq(file, 1, n)
            \/ n < Len(file) /\ file' = Append(SubSeq(file, 1, n), Fragment)
      BY <2>4 DEF PowerLoss
    <3>2. file \in Seq(Token) /\ n \in Nat /\ n <= Len(file)
      BY <2>1, <3>1 DEF FileInv, FileTypeOK
    <3>3. SubSeq(file, 1, n) \in Seq(Token) /\ Len(SubSeq(file, 1, n)) = n
      BY <3>2
    <3>. QED BY <3>1, <3>2, <3>3
  <2>5. ASSUME NEW p \in Process, Write(p) \/ WriteFails(p) PROVE FALSE
    BY <2>1, <2>5 DEF FileInv, ReadIsCurrent, Write, WriteFails
  <2>. QED BY <2>1, <2>3, <2>4, <2>5 DEF FileNext, Open, Lock, Run, Entries, Prepare,
         Reject, Sync, Breaks, SyncFails, Crash, fileVars
<1>. QED BY <1>1, FileInvariance, PTL DEF FileSpec, CorruptionIsFinal
-----------------------------------------------------------------------------
(* The file implements the log of LedgerLog.                               *)

(* The library's induction theorems take an operator.  That subsets of a   *)
(* finite set are well-founded takes none, and is enough for a greatest    *)
(* element and, with it, for induction along a set.                        *)
LEMMA GreatestOf ==
  ASSUME NEW n \in Nat, NEW T \in SUBSET (0..n), T # {}
  PROVE  \E x \in T : \A y \in T : y <= x
<1>. DEFINE above == {x..n : x \in T}
            R == StrictSubsetOrdering(0..n)
<1>1. above \subseteq SUBSET (0..n)
  OBVIOUS
<1>2. above # {}
  OBVIOUS
<1>3. IsWellFoundedOn(R, SUBSET (0..n))
  <2>1. IsFiniteSet(0..n)
    BY FS_Interval
  <2>2. FiniteSubsetsOf(0..n) = SUBSET (0..n)
    BY <2>1, FS_FiniteSubsetsOfFinite
  <2>3. IsWellFoundedOn(StrictSubsetOrdering(0..n), FiniteSubsetsOf(0..n))
    BY <2>1, FS_StrictSubsetOrderingWellFounded
  <2>. QED BY <2>2, <2>3
<1>4. PICK U \in above : \A V \in above : ~ (<<V, U>> \in R)
  <2>. HIDE DEF R, above
  <2>. QED BY <1>1, <1>2, <1>3, WFMin
<1>5. PICK x \in T : U = x..n
  OBVIOUS
<1>6. ASSUME NEW y \in T, y > x PROVE FALSE
  <2>1. y..n \in above
    OBVIOUS
  <2>2. y..n \subseteq x..n /\ x \in x..n /\ x \notin y..n
    BY <1>6
  <2>3. <<y..n, U>> \in R
    BY <1>1, <1>5, <2>1, <2>2 DEF StrictSubsetOrdering
  <2>. QED BY <1>4, <2>1, <2>3
<1>7. \A y \in T : y \in Nat
  OBVIOUS
<1>. QED BY <1>5, <1>6, <1>7

LEMMA AlongSet ==
  ASSUME NEW n \in Nat, NEW T \in SUBSET (0..n), 0 \in T,
         \A i \in T : i < n => i + 1 \in T
  PROVE  T = 0..n
<1>1. SUFFICES ASSUME NEW x \in 0..n, x \notin T PROVE FALSE
  OBVIOUS
<1>. DEFINE S == {i \in T : i < x}
<1>2. x \in Nat /\ x # 0 /\ x <= n
  BY <1>1
<1>3. 0 \in S /\ S \in SUBSET (0..n)
  <2>1. 0 < x
    BY <1>2
  <2>. QED BY <2>1
<1>4. PICK y \in S : \A z \in S : z <= y
  <2>. HIDE DEF S
  <2>. QED BY <1>3, GreatestOf
<1>5. y \in Nat /\ y < x /\ y < n /\ y + 1 \in T
  BY <1>2, <1>4
<1>6. y + 1 # x
  BY <1>1, <1>5
<1>7. y + 1 \in S
  BY <1>2, <1>5, <1>6
<1>. QED BY <1>4, <1>5, <1>7

(* What defines LogUpTo up to token n.                                     *)
IsLogUpTo(f, n, G) ==
  G = [i \in 0..n |-> IF i = 0 THEN <<>>
                      ELSE IF f[i] \in Record THEN Append(G[i - 1], f[i].body) ELSE G[i - 1]]

LEMMA LogUpToIs ==
  ASSUME NEW f \in Seq(Token)
  PROVE  IsLogUpTo(f, Len(f), LogUpTo(f))
<1>. DEFINE T == {n \in 0..Len(f) : \E G : IsLogUpTo(f, n, G)}
<1>1. Len(f) \in Nat /\ T \in SUBSET (0..Len(f))
  OBVIOUS
<1>2. 0 \in T
  <2>. DEFINE G == [i \in 0..0 |-> <<>>]
  <2>1. IsLogUpTo(f, 0, G)
    BY DEF IsLogUpTo
  <2>. QED BY <1>1, <2>1
<1>3. ASSUME NEW n \in T, n < Len(f) PROVE n + 1 \in T
  <2>1. PICK G : IsLogUpTo(f, n, G)
    BY <1>3
  <2>. DEFINE x == IF f[n + 1] \in Record THEN Append(G[n], f[n + 1].body) ELSE G[n]
              H == [i \in 0..n + 1 |-> IF i = n + 1 THEN x ELSE G[i]]
  <2>2. n \in Nat /\ n + 1 \in 0..Len(f) /\ n + 1 # 0 /\ (n + 1) - 1 = n
    BY <1>1, <1>3
  <2>3. \A i \in 0..n : H[i] = G[i]
    BY <2>2
  <2>4. \A i \in 0..n : G[i] = IF i = 0 THEN <<>>
                               ELSE IF f[i] \in Record THEN Append(G[i - 1], f[i].body)
                                    ELSE G[i - 1]
    BY <2>1, <2>2 DEF IsLogUpTo
  <2>5. H[n + 1] = x
    BY <2>2
  <2>6. DOMAIN H = 0..n + 1 /\ H = [i \in 0..n + 1 |-> H[i]]
    OBVIOUS
  <2>. HIDE DEF H
  <2>7. ASSUME NEW i \in 0..n + 1
        PROVE  H[i] = IF i = 0 THEN <<>>
                      ELSE IF f[i] \in Record THEN Append(H[i - 1], f[i].body) ELSE H[i - 1]
    <3>1. CASE i = n + 1
      BY <2>2, <2>3, <2>5, <3>1
    <3>2. CASE i # n + 1
      <4>1. i \in 0..n /\ (i # 0 => i - 1 \in 0..n)
        BY <2>2, <2>7, <3>2
      <4>. QED BY <2>3, <2>4, <4>1
    <3>. QED BY <3>1, <3>2
  <2>8. IsLogUpTo(f, n + 1, H)
    BY <2>6, <2>7 DEF IsLogUpTo
  <2>. QED BY <2>2, <2>8
<1>4. T = 0..Len(f)
  <2>. HIDE DEF T
  <2>. QED BY <1>1, <1>2, <1>3, AlongSet
<1>5. \E G : IsLogUpTo(f, Len(f), G)
  BY <1>1, <1>4
<1>. QED BY <1>5 DEF LogUpTo, IsLogUpTo

(* The log up to a token, from the log up to the one before.               *)
LEMMA LogSteps ==
  ASSUME NEW f \in Seq(Token)
  PROVE  /\ DOMAIN LogUpTo(f) = 0..Len(f) /\ LogUpTo(f)[0] = <<>>
         /\ \A i \in 1..Len(f) :
              LogUpTo(f)[i] = IF f[i] \in Record THEN Append(LogUpTo(f)[i - 1], f[i].body)
                              ELSE LogUpTo(f)[i - 1]
<1>. DEFINE G == LogUpTo(f)
<1>1. IsLogUpTo(f, Len(f), G) /\ Len(f) \in Nat
  BY LogUpToIs
<1>. HIDE DEF G
<1>2. /\ DOMAIN G = 0..Len(f) /\ G[0] = <<>>
      /\ \A i \in 1..Len(f) :
           G[i] = IF f[i] \in Record THEN Append(G[i - 1], f[i].body) ELSE G[i - 1]
  <2>1. DOMAIN G = 0..Len(f)
    BY <1>1 DEF IsLogUpTo
  <2>2. \A i \in 0..Len(f) :
          G[i] = IF i = 0 THEN <<>>
                 ELSE IF f[i] \in Record THEN Append(G[i - 1], f[i].body) ELSE G[i - 1]
    BY <1>1 DEF IsLogUpTo
  <2>3. 0 \in 0..Len(f) /\ \A i \in 1..Len(f) : i \in 0..Len(f) /\ i # 0
    BY <1>1
  <2>. QED BY <2>1, <2>2, <2>3
<1>. QED BY <1>2 DEF G

LEMMA LogTyped ==
  ASSUME NEW f \in Seq(Token)
  PROVE  \A i \in 0..Len(f) : LogUpTo(f)[i] \in Log
<1>. DEFINE T == {i \in 0..Len(f) : LogUpTo(f)[i] \in Log}
<1>1. Len(f) \in Nat /\ T \in SUBSET (0..Len(f)) /\ 0 \in T
  BY LogSteps DEF Log
<1>2. ASSUME NEW i \in T, i < Len(f) PROVE i + 1 \in T
  <2>1. i + 1 \in 1..Len(f) /\ (i + 1) - 1 = i
    BY <1>1, <1>2
  <2>2. f[i + 1] \in Record => f[i + 1].body \in Body
    BY DEF Record
  <2>. QED BY <2>1, <2>2, LogSteps DEF Log
<1>3. T = 0..Len(f)
  <2>. HIDE DEF T
  <2>. QED BY <1>1, <1>2, AlongSet
<1>. QED BY <1>3

(* Files that begin alike say the same so far.                             *)
LEMMA LogLocal ==
  ASSUME NEW f \in Seq(Token), NEW g \in Seq(Token), NEW n \in Nat,
         n <= Len(f), n <= Len(g), \A i \in 1..n : f[i] = g[i]
  PROVE  LogUpTo(f)[n] = LogUpTo(g)[n]
<1>. DEFINE T == {i \in 0..n : LogUpTo(f)[i] = LogUpTo(g)[i]}
<1>1. Len(f) \in Nat /\ Len(g) \in Nat /\ T \in SUBSET (0..n) /\ 0 \in T
  BY LogSteps
<1>2. ASSUME NEW i \in T, i < n PROVE i + 1 \in T
  <2>1. i + 1 \in 1..n /\ i + 1 \in 1..Len(f) /\ i + 1 \in 1..Len(g) /\ (i + 1) - 1 = i
    BY <1>1, <1>2
  <2>. QED BY <2>1, LogSteps
<1>3. T = 0..n
  <2>. HIDE DEF T
  <2>. QED BY <1>1, <1>2, AlongSet
<1>. QED BY <1>3

(* What a file says up to token n is the beginning of what it says later.  *)
LEMMA LogGrows ==
  ASSUME NEW f \in Seq(Token), NEW n \in 0..Len(f)
  PROVE  /\ Len(LogUpTo(f)[n]) <= Len(LogUpTo(f)[Len(f)])
         /\ LogUpTo(f)[n] = SubSeq(LogUpTo(f)[Len(f)], 1, Len(LogUpTo(f)[n]))
<1>. DEFINE G == LogUpTo(f)
            Begins(i) == i < n \/ /\ Len(G[n]) <= Len(G[i])
                                  /\ G[n] = SubSeq(G[i], 1, Len(G[n]))
            T == {i \in 0..Len(f) : Begins(i)}
<1>1. Len(f) \in Nat /\ n \in Nat /\ T \in SUBSET (0..Len(f))
  OBVIOUS
<1>2. \A i \in 0..Len(f) : G[i] \in Seq(Body)
  BY LogTyped DEF Log
<1>3. Begins(n)
  BY <1>2
<1>4. 0 \in T
  BY <1>1, <1>3
<1>5. ASSUME NEW i \in T, i < Len(f) PROVE i + 1 \in T
  <2>1. i + 1 \in 1..Len(f) /\ i + 1 \in 0..Len(f) /\ (i + 1) - 1 = i /\ i \in 0..Len(f)
    BY <1>1, <1>5
  <2>2. CASE i + 1 <= n
    BY <1>1, <1>3, <2>1, <2>2
  <2>3. CASE n <= i
    <3>1. G[i] \in Seq(Body) /\ G[n] \in Seq(Body) /\ G[i + 1] \in Seq(Body)
      BY <1>2, <2>1
    <3>2. Len(G[n]) <= Len(G[i]) /\ G[n] = SubSeq(G[i], 1, Len(G[n]))
      BY <1>1, <1>5, <2>3
    <3>3. G[i + 1] = G[i] \/ \E b \in Body : G[i + 1] = Append(G[i], b)
      <4>1. f[i + 1] \in Record => f[i + 1].body \in Body
        BY DEF Record
      <4>. QED BY <2>1, <4>1, LogSteps
    <3>. HIDE DEF G
    <3>4. ASSUME NEW b \in Body, G[i + 1] = Append(G[i], b)
          PROVE  Len(G[n]) <= Len(G[i + 1]) /\ G[n] = SubSeq(G[i + 1], 1, Len(G[n]))
      BY <3>1, <3>2, <3>4
    <3>. QED BY <2>1, <3>2, <3>3, <3>4
  <2>. QED BY <1>1, <2>1, <2>2, <2>3
<1>6. T = 0..Len(f)
  <2>. HIDE DEF T
  <2>. QED BY <1>1, <1>4, <1>5, AlongSet
<1>7. Len(f) \in T
  BY <1>1, <1>6
<1>. QED BY <1>1, <1>7

LEMMA EvenOrOdd ==
  ASSUME NEW i \in Nat
  PROVE  /\ i % 2 = 0 => \E m \in Nat : i = 2 * m
         /\ i % 2 = 1 => \E m \in Nat : i = 2 * m + 1
<1>1. i \div 2 \in Nat
  OBVIOUS
<1>2. i % 2 = 0 => i = 2 * (i \div 2)
  OBVIOUS
<1>3. i % 2 = 1 => i = 2 * (i \div 2) + 1
  OBVIOUS
<1>4. PICK m \in Nat : m = i \div 2
  BY <1>1
<1>. QED BY <1>2, <1>3, <1>4

LEMMA HalfAbove ==
  ASSUME NEW k \in Nat, NEW m \in Nat, 2 * m + 1 <= k
  PROVE  (k + 1) \div 2 \in Nat /\ m + 1 <= (k + 1) \div 2
<1>1. (k + 1) \div 2 \in Nat
  OBVIOUS
<1>2. k + 1 < 2 * ((k + 1) \div 2) + 2
  OBVIOUS
<1>3. 2 * m + 2 <= k + 1
  OBVIOUS
<1>. QED BY <1>1, <1>2, <1>3

(* A file that can be read says its contents.                              *)
LEMMA ReadableSays ==
  ASSUME NEW f \in Seq(Token), Readable(f)
  PROVE  LogUpTo(f)[Len(f)] = Contents(f)
<1>. DEFINE G == LogUpTo(f)
            C(i) == [n \in 1..((i + 1) \div 2) |-> f[2 * n - 1].body]
            T == {i \in 0..Len(f) : G[i] = C(i)}
<1>1. Len(f) \in Nat /\ T \in SUBSET (0..Len(f))
  OBVIOUS
<1>2. 0 \in T
  <2>1. G[0] = <<>>
    BY LogSteps
  <2>2. (0 + 1) \div 2 = 0
    OBVIOUS
  <2>3. C(0) = <<>>
    BY <2>2
  <2>. QED BY <1>1, <2>1, <2>3
<1>3. ASSUME NEW i \in T, i < Len(f) PROVE i + 1 \in T
  <2>1. i \in Nat /\ i + 1 \in 1..Len(f) /\ i + 1 \in 0..Len(f) /\ (i + 1) - 1 = i /\ G[i] = C(i)
    BY <1>1, <1>3
  <2>2. CASE i % 2 = 0
    <3>1. PICK m \in Nat : i = 2 * m
      BY <2>1, <2>2, EvenOrOdd
    <3>2. /\ (i + 1) \div 2 = m /\ (i + 2) \div 2 = m + 1 /\ i + 1 = 2 * (m + 1) - 1
          /\ m + 1 \in 1..Lines(f) /\ Lines(f) \in Nat /\ m <= Lines(f)
      <4>1. i + 1 = 2 * m + 1 /\ i + 2 = 2 * (m + 1) /\ i + 1 = 2 * (m + 1) - 1
        BY <3>1
      <4>2. (2 * m + 1) \div 2 = m /\ (2 * (m + 1)) \div 2 = m + 1
        BY <3>1
      <4>3. 2 * m + 1 <= Len(f)
        BY <1>1, <2>1, <4>1
      <4>4. m + 1 <= (Len(f) + 1) \div 2 /\ (Len(f) + 1) \div 2 \in Nat
        BY <1>1, <3>1, <4>3, HalfAbove
      <4>. QED BY <3>1, <4>1, <4>2, <4>4 DEF Lines
    <3>3. f[i + 1] \in Record
      BY <3>2 DEF Readable
    <3>4. G[i + 1] = Append(C(i), f[i + 1].body)
      BY <2>1, <3>3, LogSteps
    <3>5. Append([n \in 1..m |-> f[2 * n - 1].body], f[2 * (m + 1) - 1].body)
            = [n \in 1..(m + 1) |-> f[2 * n - 1].body]
      <4>. DEFINE s == [n \in 1..m |-> f[2 * n - 1].body]
                  t == [n \in 1..(m + 1) |-> f[2 * n - 1].body]
                  u == Append(s, f[2 * (m + 1) - 1].body)
      <4>1. s \in Seq(Body) /\ Len(s) = m
        <5>1. \A n \in 1..m : f[2 * n - 1].body \in Body
          <6>1. ASSUME NEW n \in 1..m PROVE f[2 * n - 1] \in Record
            <7>1. n \in 1..Lines(f)
              BY <3>1, <3>2
            <7>. QED BY <7>1 DEF Readable
          <6>. QED BY <6>1 DEF Record
        <5>. QED BY <3>1, <5>1
      <4>2. DOMAIN u = 1..(m + 1) /\ u = [n \in 1..(m + 1) |-> u[n]]
        <5>. HIDE DEF s
        <5>. QED BY <3>1, <4>1
      <4>3. ASSUME NEW n \in 1..(m + 1) PROVE u[n] = t[n]
        <5>1. CASE n = m + 1
          BY <3>1, <4>1, <5>1
        <5>2. CASE n # m + 1
          <6>1. n \in 1..m /\ s[n] = t[n]
            BY <3>1, <4>3, <5>2
          <6>2. u[n] = s[n]
            <7>. HIDE DEF s
            <7>. QED BY <3>1, <4>1, <6>1
          <6>. QED BY <6>1, <6>2
        <5>. QED BY <5>1, <5>2
      <4>. QED BY <4>2, <4>3
    <3>6. (i + 1) + 1 = i + 2
      BY <2>1
    <3>. QED BY <2>1, <3>2, <3>4, <3>5, <3>6
  <2>3. CASE i % 2 = 1
    <3>1. (i + 1) % 2 = 0 /\ (i + 1) \div 2 = (i + 2) \div 2 /\ (i + 1) + 1 = i + 2
      <4>1. PICK m \in Nat : i = 2 * m + 1
        BY <2>1, <2>3, EvenOrOdd
      <4>2. i + 1 = 2 * (m + 1) /\ i + 2 = 2 * (m + 1) + 1 /\ m + 1 \in Nat
        BY <4>1
      <4>3. \A k \in Nat : /\ (2 * k) % 2 = 0 /\ (2 * k) \div 2 = k
                           /\ (2 * k + 1) \div 2 = k
        OBVIOUS
      <4>. QED BY <2>1, <4>2, <4>3
    <3>2. f[i + 1] = Newline /\ Newline \notin Record
      BY <2>1, <3>1, TokenAssumption DEF Readable
    <3>3. G[i + 1] = G[i]
      BY <2>1, <3>2, LogSteps
    <3>4. C(i + 1) = C(i)
      BY <3>1
    <3>. QED BY <2>1, <3>3, <3>4
  <2>. QED BY <2>1, <2>2, <2>3
<1>4. T = 0..Len(f)
  <2>. HIDE DEF T
  <2>. QED BY <1>1, <1>2, <1>3, AlongSet
<1>5. G[Len(f)] = C(Len(f))
  <2>1. Len(f) \in T
    <3>. HIDE DEF T
    <3>. QED BY <1>1, <1>4
  <2>. QED BY <2>1
<1>. QED BY <1>5 DEF Contents, Lines

-----------------------------------------------------------------------------
(* A process whose record is written sees it at the end of the log, and    *)
(* the log keeps, in the part that a power loss leaves, all that has been  *)
(* acknowledged.                                                           *)
PromiseKept ==
  /\ Promised \in Nat
  /\ Promised <= Len(LogUpTo(file)[synced])
  /\ \A r \in acked : Len(r.previous) < Len(LogUpTo(file)[synced])

EndsWithMine(p) ==
  pc[p] = "sync" =>
    /\ RecordedLog = Append(call[p].previous, call[p].body)
    /\ call[p].op = "append_if_head" => call[p].previous = call[p].expected

LogInv ==
  /\ PromiseKept
  /\ \A p \in Process : EndsWithMine(p)

PortVars == <<RecordedLog, Promised, view, Asked>>

LEMMA FileParts ==
  ASSUME FileInv
  PROVE  /\ FileTypeOK /\ file \in Seq(Token) /\ Len(file) \in Nat
         /\ synced \in Nat /\ synced \in 0..Len(file)
         /\ RecordedLog \in Seq(Body) /\ LogUpTo(file)[synced] \in Seq(Body)
         /\ Len(LogUpTo(file)[synced]) <= Len(RecordedLog)
<1>1. FileTypeOK /\ file \in Seq(Token) /\ Len(file) \in Nat /\ synced \in 0..Len(file)
  BY DEF FileInv, FileTypeOK
<1>2. Len(file) \in 0..Len(file) /\ synced \in Nat
  BY <1>1
<1>. QED BY <1>1, <1>2, LogTyped, LogGrows DEF RecordedLog, Log

(* What is written behind the file is added to the log and moves nothing   *)
(* that was there.                                                         *)
LEMMA LogOfPart ==
  ASSUME NEW f \in Seq(Token), NEW part \in Seq(Token)
  PROVE  /\ \A n \in 0..Len(f) : LogUpTo(f \o part)[n] = LogUpTo(f)[n]
         /\ Len(part) = 1 =>
              LogUpTo(f \o part)[Len(f \o part)] =
                IF part[1] \in Record THEN Append(LogUpTo(f)[Len(f)], part[1].body)
                ELSE LogUpTo(f)[Len(f)]
         /\ Len(part) = 2 /\ part[2] \notin Record =>
              LogUpTo(f \o part)[Len(f \o part)] =
                IF part[1] \in Record THEN Append(LogUpTo(f)[Len(f)], part[1].body)
                ELSE LogUpTo(f)[Len(f)]
<1>. DEFINE g == f \o part
<1>1. /\ g \in Seq(Token) /\ Len(g) = Len(f) + Len(part) /\ Len(f) \in Nat /\ Len(part) \in Nat
      /\ \A i \in 1..Len(f) : g[i] = f[i]
      /\ \A i \in 1..Len(part) : g[Len(f) + i] = part[i]
  OBVIOUS
<1>. HIDE DEF g
<1>2. ASSUME NEW n \in 0..Len(f) PROVE LogUpTo(g)[n] = LogUpTo(f)[n]
  <2>1. n \in Nat /\ n <= Len(f) /\ n <= Len(g)
    BY <1>1
  <2>2. \A i \in 1..n : i \in 1..Len(f)
    BY <1>1, <2>1
  <2>. QED BY <1>1, <2>1, <2>2, LogLocal
<1>3. LogUpTo(g)[Len(f)] = LogUpTo(f)[Len(f)]
  BY <1>1, <1>2
<1>4. ASSUME Len(part) # 0
      PROVE  LogUpTo(g)[Len(f) + 1] = IF part[1] \in Record
                                      THEN Append(LogUpTo(f)[Len(f)], part[1].body)
                                      ELSE LogUpTo(f)[Len(f)]
  <2>1. Len(f) + 1 \in 1..Len(g) /\ (Len(f) + 1) - 1 = Len(f) /\ g[Len(f) + 1] = part[1]
    BY <1>1, <1>4
  <2>. QED BY <1>1, <1>3, <2>1, LogSteps
<1>5. ASSUME Len(part) = 2, part[2] \notin Record
      PROVE  LogUpTo(g)[Len(f) + 2] = LogUpTo(g)[Len(f) + 1]
  <2>1. Len(f) + 2 \in 1..Len(g) /\ (Len(f) + 2) - 1 = Len(f) + 1 /\ g[Len(f) + 2] = part[2]
    BY <1>1, <1>5
  <2>. QED BY <1>1, <1>5, <2>1, LogSteps
<1>6. \A n \in 0..Len(f) : LogUpTo(g)[n] = LogUpTo(f)[n]
  BY <1>2
<1>7. Len(part) = 1 => Len(g) = Len(f) + 1
  BY <1>1
<1>8. Len(part) = 2 => Len(g) = Len(f) + 2
  BY <1>1
<1>. QED BY <1>4, <1>5, <1>6, <1>7, <1>8 DEF g

(* Nothing is acknowledged and nothing that was synchronised is touched.   *)
LEMMA PromiseStays ==
  ASSUME FileInv, LogInv, acked' = acked, synced' = synced,
         LogUpTo(file)'[synced] = LogUpTo(file)[synced]
  PROVE  PromiseKept' /\ Promised' = Promised
BY DEF LogInv, PromiseKept, Promised

(* While p holds the lock to write, no other process is about to return.   *)
LEMMA OthersWait ==
  ASSUME FileInv, NEW p \in Process, pc[p] \in {"write", "sync"}, NEW q \in Process, q # p
  PROVE  pc[q] # "sync"
<1>1. ~ Shares(p) /\ Holds(p)
  BY DEF FileInv, ReadIsCurrent, WrittenIsLast, Holds
<1>. QED BY <1>1 DEF FileInv, Exclusion, Holds

(* A record is written, in full, in part or without its newline.           *)
LEMMA WritingSays ==
  ASSUME FileInv, LogInv, NEW p \in Process, pc[p] = "write",
         NEW part \in {<<Fragment>>, <<NewRecord(p)>>, <<NewRecord(p), Newline>>},
         file' = file \o part, acked' = acked, synced' = synced
  PROVE  /\ PromiseKept' /\ Promised' = Promised
         /\ part = <<Fragment>> => RecordedLog' = RecordedLog
         /\ part # <<Fragment>> =>
              /\ RecordedLog' = Append(RecordedLog, call[p].body)
              /\ RecordedLog' = Append(call[p].previous, call[p].body)
              /\ call[p].body \in Body
<1>1. file \in Seq(Token) /\ synced \in 0..Len(file) /\ FileTypeOK
  BY FileParts
<1>2. NewRecord(p) \in Record /\ NewRecord(p) \in Token /\ NewRecord(p).body = call[p].body
  BY <1>1, RecordIsToken DEF NewRecord
<1>3. Fragment \in Token /\ Newline \in Token /\ Fragment \notin Record /\ Newline \notin Record
  BY TokenAssumption DEF Token
<1>4. part \in Seq(Token) /\ (part[1] \in Record <=> part # <<Fragment>>)
      /\ (Len(part) = 1 \/ (Len(part) = 2 /\ part[2] \notin Record))
      /\ (part # <<Fragment>> => part[1].body = call[p].body)
  <2>1. CASE part = <<Fragment>>
    BY <1>3, <2>1
  <2>2. CASE part = <<NewRecord(p)>>
    BY <1>2, <1>3, <2>2
  <2>3. CASE part = <<NewRecord(p), Newline>>
    BY <1>2, <1>3, <2>3
  <2>. QED BY <2>1, <2>2, <2>3
<1>5. LogUpTo(file)'[synced] = LogUpTo(file)[synced]
  BY <1>1, <1>4, LogOfPart
<1>6. RecordedLog' = IF part[1] \in Record THEN Append(RecordedLog, part[1].body)
                     ELSE RecordedLog
  BY <1>1, <1>4, LogOfPart DEF RecordedLog
<1>7. RecordedLog = call[p].previous
  BY <1>1, ReadableSays DEF FileInv, ReadIsCurrent, RecordedLog
<1>8. call[p].body \in Body
  BY <1>1 DEF FileTypeOK, FileCall
<1>. QED BY <1>4, <1>5, <1>6, <1>7, <1>8, PromiseStays

(* Neither the file nor what is acknowledged of it changes.                *)
LEMMA QuietLog ==
  ASSUME FileInv, LogInv, UNCHANGED <<file, synced, acked>>,
         \A p \in Process : pc'[p] = "sync" => pc[p] = "sync" /\ call'[p] = call[p]
  PROVE  LogInv' /\ RecordedLog' = RecordedLog /\ Promised' = Promised
<1>1. RecordedLog' = RecordedLog
  BY DEF RecordedLog
<1>2. PromiseKept' /\ Promised' = Promised
  BY PromiseStays
<1>3. \A p \in Process : EndsWithMine(p)'
  BY <1>1 DEF LogInv, EndsWithMine
<1>. QED BY <1>1, <1>2, <1>3 DEF LogInv

LEMMA ClosedCall ==
  ASSUME FileTypeOK, NEW p \in Process, Close(p)
  PROVE  \A q \in Process : pc'[q] # "idle" => q # p /\ pc'[q] = pc[q] /\ call'[q] = call[q]
BY DEF FileTypeOK, Close

(* What others ask for does not change with a call of p.                   *)
LEMMA AskedMoves ==
  ASSUME FileTypeOK, NEW p \in Process,
         \A q \in Process \ {p} : pc'[q] = pc[q] /\ call'[q] = call[q]
  PROVE  Asked' = [Asked EXCEPT ![p] = Asked'[p]]
BY DEF Asked

LEMMA AskedStays ==
  ASSUME FileTypeOK, NEW p \in Process, pc[p] # "idle", pc'[p] # "idle",
         \A q \in Process \ {p} : pc'[q] = pc[q] /\ call'[q] = call[q],
         call'[p].op = call[p].op, call'[p].body = call[p].body,
         call'[p].expected = call[p].expected
  PROVE  Asked' = Asked
<1>1. ASSUME NEW q \in Process PROVE Asked'[q] = Asked[q]
  BY <1>1 DEF Asked
<1>. QED BY <1>1 DEF Asked

LEMMA ClosedAsksNothing ==
  ASSUME FileTypeOK, NEW p \in Process, Close(p)
  PROVE  Asked' = [Asked EXCEPT ![p] = {}]
<1>1. pc'[p] = "idle" /\ \A q \in Process \ {p} : pc'[q] = pc[q] /\ call'[q] = call[q]
  BY DEF Close, FileTypeOK
<1>2. Asked'[p] = {}
  BY <1>1 DEF Asked
<1>. QED BY <1>1, <1>2, AskedMoves

LEMMA QuietSteps ==
  ASSUME FileInv, LogInv, NEW p \in Process,
         \/ \E op \in Op, d \in Body : Open(p, op, d)
         \/ Lock(p) \/ Prepare(p) \/ Reject(p) \/ SyncFails(p) \/ Crash(p)
  PROVE  LogInv' /\ (Port!Next \/ UNCHANGED PortVars)
<1>1. FileTypeOK /\ UNCHANGED <<file, synced, acked, view>>
  BY FileParts DEF Open, Lock, Prepare, Reject, SyncFails, Crash
<1>2. ASSUME NEW q \in Process, pc'[q] = "sync" PROVE pc[q] = "sync" /\ call'[q] = call[q]
  <2>1. CASE \/ \E op \in Op, d \in Body : Open(p, op, d)
             \/ Lock(p) \/ Prepare(p)
    BY <1>1, <1>2, <2>1 DEF Open, Lock, Prepare, FileTypeOK
  <2>2. CASE Close(p)
    BY <1>1, <1>2, <2>2, ClosedCall
  <2>. QED BY <2>1, <2>2 DEF Reject, SyncFails, Crash
<1>3. LogInv' /\ UNCHANGED <<RecordedLog, Promised, view>>
  BY <1>1, <1>2, QuietLog
<1>4. ASSUME NEW op \in Op, NEW d \in Body, Open(p, op, d)
      PROVE  Port!Ask(p) \/ Asked' = Asked
  <2>. DEFINE heads == IF op = "append_if_head" THEN {view[p]} ELSE {}
  <2>1. /\ pc[p] = "idle" /\ pc'[p] = "lock"
        /\ call'[p] = [op |-> op, body |-> d, expected |-> view[p], previous |-> <<>>]
        /\ \A q \in Process \ {p} : pc'[q] = pc[q] /\ call'[q] = call[q]
    BY <1>1, <1>4 DEF Open, FileTypeOK
  <2>2. Asked' = [Asked EXCEPT ![p] = Asked'[p]]
    BY <1>1, <2>1, AskedMoves
  <2>3. CASE op = "entries"
    <3>1. Asked'[p] = {} /\ Asked[p] = {}
      BY <2>1, <2>3 DEF Asked
    <3>2. Asked' = Asked
      BY <2>2, <3>1 DEF Asked
    <3>. QED BY <3>2
  <2>4. CASE op # "entries"
    <3>1. Asked'[p] = {[draft |-> d, expected |-> heads]}
      BY <2>1, <2>4 DEF Asked
    <3>2. heads \in {{}, {view[p]}}
      OBVIOUS
    <3>. HIDE DEF heads
    <3>3. Asked' = [Asked EXCEPT ![p] = {[draft |-> d, expected |-> heads]}]
      BY <2>2, <3>1
    <3>. QED BY <1>3, <3>2, <3>3 DEF Port!Ask
  <2>. QED BY <2>3, <2>4
<1>5. ASSUME Lock(p) \/ Prepare(p) PROVE Asked' = Asked
  <2>1. /\ pc[p] # "idle" /\ pc'[p] # "idle"
        /\ \A q \in Process \ {p} : pc'[q] = pc[q] /\ call'[q] = call[q]
    BY <1>1, <1>5 DEF Lock, Prepare, FileTypeOK
  <2>2. call[p] \in FileCall
    BY <1>1, <2>1 DEF FileTypeOK
  <2>3. /\ call'[p].op = call[p].op /\ call'[p].body = call[p].body
        /\ call'[p].expected = call[p].expected
    <3>1. call' = call \/ call' = [call EXCEPT ![p].previous = Contents(file)]
      BY <1>5 DEF Lock, Prepare
    <3>. QED BY <1>1, <2>2, <3>1 DEF FileTypeOK, FileCall
  <2>. QED BY <1>1, <2>1, <2>3, AskedStays
<1>6. ASSUME Reject(p) \/ SyncFails(p) \/ Crash(p) PROVE Port!Drop(p)
  <2>1. Close(p)
    BY <1>6 DEF Reject, SyncFails, Crash
  <2>. QED BY <1>1, <1>3, <2>1, ClosedAsksNothing DEF Port!Drop
<1>. QED BY <1>3, <1>4, <1>5, <1>6 DEF PortVars, Port!Next

LEMMA EntriesLooks ==
  ASSUME FileInv, LogInv, NEW p \in Process, Entries(p)
  PROVE  LogInv' /\ Port!Look(p)
<1>1. FileTypeOK /\ file \in Seq(Token)
  BY FileParts
<1>2. \A q \in Process : pc'[q] = "sync" => pc[q] = "sync" /\ call'[q] = call[q]
  BY <1>1, ClosedCall DEF Entries
<1>3. LogInv' /\ RecordedLog' = RecordedLog /\ Promised' = Promised
  BY <1>2, QuietLog DEF Entries
<1>4. view' = [view EXCEPT ![p] = RecordedLog]
  BY <1>1, ReadableSays DEF Entries, RecordedLog
<1>5. Asked' = Asked
  <2>1. Asked' = [Asked EXCEPT ![p] = {}]
    BY <1>1, ClosedAsksNothing DEF Entries
  <2>2. Asked[p] = {}
    BY DEF Entries, Asked
  <2>. QED BY <2>1, <2>2 DEF Asked
<1>. QED BY <1>3, <1>4, <1>5 DEF Port!Look

(* The append of a process that is about to write takes effect as it does. *)
LEMMA WritingTakesEffect ==
  ASSUME FileInv, LogInv, NEW p \in Process, pc[p] = "write",
         RecordedLog' = Append(RecordedLog, call[p].body)
  PROVE  \E a \in Asked[p] : Port!TakesEffect(a)
<1>1. FileTypeOK /\ file \in Seq(Token)
  BY FileParts
<1>2. ~ Shares(p) /\ Readable(file) /\ HeadExpected(p)
  BY DEF FileInv, ReadIsCurrent
<1>3. RecordedLog = Contents(file)
  BY <1>1, <1>2, ReadableSays DEF RecordedLog
<1>. DEFINE heads == IF call[p].op = "append_if_head" THEN {call[p].expected} ELSE {}
            a == [draft |-> call[p].body, expected |-> heads]
<1>4. Asked[p] = {a}
  BY <1>2 DEF Asked, Shares
<1>5. heads \subseteq {RecordedLog}
  BY <1>2, <1>3 DEF HeadExpected
<1>6. a.draft = call[p].body /\ a.expected = heads
  OBVIOUS
<1>. HIDE DEF a, heads
<1>7. Port!TakesEffect(a)
  BY <1>5, <1>6 DEF Port!TakesEffect
<1>. QED BY <1>4, <1>7

LEMMA WriteRecords ==
  ASSUME FileInv, LogInv, NEW p \in Process, Write(p)
  PROVE  LogInv' /\ Port!Record(p)
<1>1. FileTypeOK /\ pc[p] = "write"
  BY FileParts DEF Write
<1>2. PICK part \in {<<Fragment>>, <<NewRecord(p)>>, <<NewRecord(p), Newline>>} :
        part = <<NewRecord(p), Newline>>
  OBVIOUS
<1>3. /\ PromiseKept' /\ Promised' = Promised
      /\ RecordedLog' = Append(RecordedLog, call[p].body)
      /\ RecordedLog' = Append(call[p].previous, call[p].body)
      /\ call[p].body \in Body
  <2>1. part # <<Fragment>>
    BY <1>2
  <2>. QED BY <1>1, <1>2, <2>1, WritingSays DEF Write
<1>4. ASSUME NEW q \in Process PROVE EndsWithMine(q)'
  <2>1. CASE q = p
    <3>1. call[p].op = "append_if_head" => call[p].previous = call[p].expected
      BY <1>1 DEF FileInv, ReadIsCurrent, HeadExpected
    <3>. QED BY <1>3, <2>1, <3>1 DEF EndsWithMine, Write
  <2>2. CASE q # p
    <3>1. pc[q] # "sync"
      BY <1>1, <2>2, OthersWait
    <3>. QED BY <1>1, <2>2, <3>1 DEF EndsWithMine, Write, FileTypeOK
  <2>. QED BY <2>1, <2>2
<1>5. Asked' = Asked
  BY <1>1, AskedStays DEF Write, FileTypeOK
<1>6. \E a \in Asked[p] : Port!TakesEffect(a)
  BY <1>1, <1>3, WritingTakesEffect
<1>. QED BY <1>3, <1>4, <1>5, <1>6 DEF LogInv, Port!Record, Write

LEMMA WriteFailsRecords ==
  ASSUME FileInv, LogInv, NEW p \in Process, WriteFails(p)
  PROVE  LogInv' /\ (Port!Record(p) \/ Port!Drop(p))
<1>1. FileTypeOK /\ pc[p] = "write"
  BY FileParts DEF WriteFails
<1>2. PICK part \in {<<Fragment>>, <<NewRecord(p)>>, <<NewRecord(p), Newline>>} :
        file' = file \o part
  BY DEF WriteFails
<1>3. /\ PromiseKept' /\ Promised' = Promised
      /\ \/ RecordedLog' = RecordedLog
         \/ call[p].body \in Body /\ RecordedLog' = Append(RecordedLog, call[p].body)
  BY <1>1, <1>2, WritingSays DEF WriteFails
<1>4. ASSUME NEW q \in Process PROVE EndsWithMine(q)'
  <2>1. CASE pc'[q] = "idle"
    BY <2>1 DEF EndsWithMine
  <2>2. CASE pc'[q] # "idle"
    <3>1. q # p /\ pc'[q] = pc[q]
      BY <1>1, <2>2, ClosedCall DEF WriteFails
    <3>2. pc[q] # "sync"
      BY <1>1, <3>1, OthersWait
    <3>. QED BY <3>1, <3>2 DEF EndsWithMine
  <2>. QED BY <2>1, <2>2
<1>5. Asked' = [Asked EXCEPT ![p] = {}]
  BY <1>1, ClosedAsksNothing DEF WriteFails
<1>6. CASE RecordedLog' = RecordedLog
  BY <1>3, <1>4, <1>5, <1>6 DEF LogInv, Port!Drop, WriteFails
<1>7. CASE RecordedLog' = Append(RecordedLog, call[p].body)
  <2>1. \E a \in Asked[p] : Port!TakesEffect(a)
    BY <1>1, <1>7, WritingTakesEffect
  <2>. QED BY <1>3, <1>4, <1>5, <2>1 DEF LogInv, Port!Record, WriteFails
<1>. QED BY <1>3, <1>6, <1>7

LEMMA SyncAcknowledges ==
  ASSUME FileInv, LogInv, NEW p \in Process, Sync(p)
  PROVE  LogInv' /\ Port!Acknowledge(p)
<1>1. /\ FileTypeOK /\ pc[p] = "sync" /\ file' = file /\ synced' = Len(file)
      /\ acked' = acked \cup {NewRecord(p)} /\ RecordedLog \in Seq(Body)
      /\ Len(LogUpTo(file)[synced]) <= Len(RecordedLog) /\ LogUpTo(file)[synced] \in Seq(Body)
  BY FileParts DEF Sync
<1>2. RecordedLog = Append(call[p].previous, call[p].body) /\ RecordedLog' = RecordedLog
  BY <1>1 DEF LogInv, EndsWithMine, RecordedLog
<1>3. call[p].previous \in Seq(Body) /\ call[p].body \in Body
  BY <1>1 DEF FileTypeOK, FileCall, Log
<1>4. LogUpTo(file)'[synced'] = RecordedLog
  BY <1>1 DEF RecordedLog
<1>. DEFINE l == Len(call[p].previous)
<1>5. l \in Nat /\ Len(RecordedLog) = l + 1 /\ NewRecord(p).previous = call[p].previous
  BY <1>2, <1>3 DEF NewRecord
<1>6. \A r \in acked' : Len(r.previous) \in Nat /\ Len(r.previous) <= l
  <2>1. ASSUME NEW r \in acked PROVE Len(r.previous) \in Nat /\ Len(r.previous) <= l
    <3>1. Len(r.previous) < Len(LogUpTo(file)[synced])
      BY DEF LogInv, PromiseKept
    <3>2. Len(r.previous) \in Nat
      BY <1>1 DEF FileTypeOK, Record, Log
    <3>. QED BY <1>1, <1>5, <3>1, <3>2
  <2>. QED BY <1>1, <1>5, <2>1
<1>7. Promised' = l + 1
  <2>. DEFINE N == {Len(r.previous) : r \in acked'}
  <2>1. l \in N /\ \A n \in N : n \in Nat /\ n <= l
    BY <1>1, <1>5, <1>6
  <2>2. \A n \in N : (\A r \in acked' : Len(r.previous) <= n) => n = l
    BY <1>1, <1>5, <2>1
  <2>. DEFINE last == CHOOSE n \in N : \A r \in acked' : Len(r.previous) <= n
  <2>3. last = l
    BY <1>6, <2>1, <2>2
  <2>4. acked' # {}
    BY <1>1
  <2>5. Promised' = IF acked' = {} THEN 0 ELSE 1 + last
    BY DEF Promised
  <2>. HIDE DEF N, last, l
  <2>. QED BY <2>3, <2>4, <2>5, <1>5
<1>8. PromiseKept'
  <2>1. \A r \in acked' : Len(r.previous) < l + 1
    BY <1>5, <1>6
  <2>. QED BY <1>4, <1>5, <1>7, <2>1 DEF PromiseKept
<1>9. ASSUME NEW q \in Process PROVE EndsWithMine(q)'
  <2>1. CASE pc'[q] = "idle"
    BY <2>1 DEF EndsWithMine
  <2>2. CASE pc'[q] # "idle"
    <3>1. q # p /\ pc'[q] = pc[q]
      BY <1>1, <2>2, ClosedCall DEF Sync
    <3>2. pc[q] # "sync"
      BY <1>1, <3>1, OthersWait
    <3>. QED BY <3>1, <3>2 DEF EndsWithMine
  <2>. QED BY <2>1, <2>2
<1>10. Asked' = [Asked EXCEPT ![p] = {}]
  BY <1>1, ClosedAsksNothing DEF Sync
<1>11. /\ ~ Shares(p)
       /\ call[p].op = "append_if_head" => call[p].previous = call[p].expected
  BY <1>1 DEF FileInv, WrittenIsLast, LogInv, EndsWithMine
<1>. DEFINE heads == IF call[p].op = "append_if_head" THEN {call[p].expected} ELSE {}
            a == [draft |-> call[p].body, expected |-> heads]
            n == l + 1
<1>12. Asked[p] = {a}
  BY <1>1, <1>11 DEF Asked, Shares
<1>13. /\ n \in DOMAIN RecordedLog' /\ RecordedLog'[n] = a.draft
       /\ SubSeq(RecordedLog', 1, n - 1) = call[p].previous
       /\ SubSeq(RecordedLog', 1, n) = RecordedLog
  <2>. DEFINE s == Append(call[p].previous, call[p].body)
  <2>1. n \in 1..n /\ n - 1 = l /\ n \in Nat /\ DOMAIN s = 1..n /\ s[n] = call[p].body
    BY <1>3, <1>5
  <2>2. SubSeq(s, 1, l) = call[p].previous
    BY <1>3
  <2>3. SubSeq(s, 1, n) = s
    BY <1>2, <1>3, <1>5
  <2>4. RecordedLog' = s /\ RecordedLog = s
    BY <1>2
  <2>. HIDE DEF s, n, l
  <2>. QED BY <2>1, <2>2, <2>3, <2>4
<1>14. a.expected \subseteq {SubSeq(RecordedLog', 1, n - 1)}
  BY <1>11, <1>13
<1>15. view' = [view EXCEPT ![p] = SubSeq(RecordedLog', 1, n)]
  BY <1>2, <1>13 DEF Sync
<1>16. Promised' = IF n > Promised THEN n ELSE Promised
  <2>1. Promised \in Nat /\ Promised <= n
    BY <1>1, <1>5 DEF LogInv, PromiseKept
  <2>. QED BY <1>5, <1>7, <2>1
<1>17. Port!Acknowledge(p)
  <2>. HIDE DEF a, n, l
  <2>. QED BY <1>2, <1>10, <1>12, <1>13, <1>14, <1>15, <1>16 DEF Port!Acknowledge
<1>. QED BY <1>8, <1>9, <1>17 DEF LogInv

LEMMA PowerLossLoses ==
  ASSUME FileInv, LogInv, PowerLoss
  PROVE  LogInv' /\ Port!Lose
<1>1. /\ FileTypeOK /\ file \in Seq(Token) /\ Len(file) \in Nat /\ synced \in Nat
      /\ synced \in 0..Len(file) /\ RecordedLog \in Seq(Body)
      /\ UNCHANGED <<synced, view, acked>> /\ \A p \in Process : pc'[p] = "idle"
  BY FileParts DEF PowerLoss
<1>2. PICK n \in synced..Len(file) :
        \/ file' = SubSeq(file, 1, n)
        \/ file' = Append(SubSeq(file, 1, n), Fragment)
  BY DEF PowerLoss
<1>. DEFINE cut == SubSeq(file, 1, n)
            kept == LogUpTo(file)[n]
<1>3. n \in Nat /\ n \in 0..Len(file) /\ synced <= n /\ n <= Len(file)
  BY <1>1, <1>2
<1>4. cut \in Seq(Token) /\ Len(cut) = n /\ \A i \in 1..n : cut[i] = file[i]
  BY <1>1, <1>3
<1>5. \A m \in Nat : m <= n => LogUpTo(cut)[m] = LogUpTo(file)[m]
  <2>. HIDE DEF cut
  <2>1. ASSUME NEW m \in Nat, m <= n PROVE LogUpTo(cut)[m] = LogUpTo(file)[m]
    <3>1. m <= Len(file) /\ m <= Len(cut) /\ \A i \in 1..m : i \in 1..n
      BY <1>1, <1>3, <1>4, <2>1
    <3>. QED BY <1>1, <1>4, <3>1, LogLocal
  <2>. QED BY <2>1
<1>6. RecordedLog' = kept /\ LogUpTo(file)'[synced] = LogUpTo(file)[synced]
  <2>1. LogUpTo(cut)[Len(cut)] = kept /\ LogUpTo(cut)[synced] = LogUpTo(file)[synced]
    BY <1>1, <1>3, <1>4, <1>5
  <2>2. CASE file' = cut
    BY <2>1, <2>2 DEF RecordedLog
  <2>3. CASE file' = Append(cut, Fragment)
    <3>. DEFINE part == <<Fragment>>
    <3>1. part \in Seq(Token) /\ Len(part) = 1 /\ part[1] \notin Record
      BY TokenAssumption DEF Token
    <3>2. file' = cut \o part
      <4>. HIDE DEF cut
      <4>. QED BY <1>4, <2>3, TokenAssumption DEF Token
    <3>3. synced \in 0..Len(cut)
      BY <1>1, <1>3, <1>4
    <3>. HIDE DEF cut, part
    <3>. QED BY <1>4, <2>1, <3>1, <3>2, <3>3, LogOfPart DEF RecordedLog
  <2>. QED BY <1>2, <2>2, <2>3
<1>7. PromiseKept' /\ Promised' = Promised
  BY <1>1, <1>6, PromiseStays
<1>8. \A p \in Process : EndsWithMine(p)'
  BY <1>1 DEF EndsWithMine
<1>9. /\ Len(kept) \in Nat /\ Len(kept) <= Len(RecordedLog)
      /\ kept = SubSeq(RecordedLog, 1, Len(kept))
  <2>1. kept \in Seq(Body)
    BY <1>1, <1>3, LogTyped DEF Log
  <2>2. Len(kept) \in Nat
    BY <2>1
  <2>3. Len(file) \in 0..Len(file)
    BY <1>1
  <2>4. /\ Len(LogUpTo(file)[n]) <= Len(LogUpTo(file)[Len(file)])
        /\ LogUpTo(file)[n] = SubSeq(LogUpTo(file)[Len(file)], 1, Len(LogUpTo(file)[n]))
    BY <1>1, <1>3, LogGrows
  <2>. QED BY <2>2, <2>4 DEF RecordedLog
<1>10. Promised <= Len(kept)
  <2>1. LogUpTo(cut)[n] = kept /\ LogUpTo(cut)[synced] = LogUpTo(file)[synced]
    BY <1>1, <1>3, <1>5
  <2>2. synced \in 0..Len(cut)
    BY <1>1, <1>3, <1>4
  <2>3. /\ Len(LogUpTo(cut)[synced]) <= Len(LogUpTo(cut)[Len(cut)])
        /\ LogUpTo(cut)[synced] \in Seq(Body)
    <3>. HIDE DEF cut
    <3>. QED BY <1>4, <2>2, LogGrows, LogTyped DEF Log
  <2>4. Promised <= Len(LogUpTo(file)[synced]) /\ Promised \in Nat
    BY DEF LogInv, PromiseKept
  <2>5. Len(LogUpTo(file)[synced]) <= Len(kept) /\ Len(LogUpTo(file)[synced]) \in Nat
    BY <1>4, <2>1, <2>3
  <2>. QED BY <1>9, <2>4, <2>5
<1>11. Len(kept) \in Promised..Len(RecordedLog)
  <2>1. Promised \in Nat /\ Len(RecordedLog) \in Nat
    BY <1>1 DEF LogInv, PromiseKept
  <2>. QED BY <1>9, <1>10, <2>1
<1>12. Asked' = [p \in Process |-> {}]
  BY <1>1 DEF Asked
<1>. QED BY <1>1, <1>6, <1>7, <1>8, <1>9, <1>11, <1>12 DEF LogInv, Port!Lose

(* The hash-chained file with its lock, its crashes, its failing writes    *)
(* and its power losses is one log for all processes: reads and appends    *)
(* take effect one after another, and what an append has reported as       *)
(* recorded is never lost.                                                 *)
THEOREM FileIsALog == FileSpec => ImplementsLedgerPort
<1>1. FileInit => LogInv /\ Port!Init
  <2>1. SUFFICES ASSUME FileInit PROVE LogInv /\ Port!Init
    OBVIOUS
  <2>2. file = <<>> /\ file \in Seq(Token) /\ Len(file) = 0 /\ synced = 0 /\ acked = {}
    BY <2>1 DEF FileInit
  <2>3. LogUpTo(file)[0] = <<>>
    BY <2>2, LogSteps
  <2>4. RecordedLog = <<>> /\ Promised = 0 /\ Len(LogUpTo(file)[synced]) = 0
    BY <2>2, <2>3 DEF RecordedLog, Promised
  <2>5. \A p \in Process : EndsWithMine(p)
    BY <2>1 DEF FileInit, EndsWithMine
  <2>6. Asked = [p \in Process |-> {}]
    BY <2>1 DEF FileInit, Asked
  <2>. QED BY <2>1, <2>2, <2>4, <2>5, <2>6 DEF LogInv, PromiseKept, Port!Init, FileInit
<1>2. FileInv /\ LogInv /\ [FileNext]_fileVars
        => LogInv' /\ [Port!Next]_<<RecordedLog, Promised, view, Asked>>
  <2>1. SUFFICES ASSUME FileInv, LogInv, [FileNext]_fileVars
                 PROVE  LogInv' /\ (Port!Next \/ UNCHANGED PortVars)
    BY DEF PortVars
  <2>2. CASE UNCHANGED fileVars
    <3>1. Asked' = Asked
      BY <2>2 DEF Asked, fileVars
    <3>. QED BY <2>1, <2>2, <3>1, QuietLog DEF fileVars, PortVars
  <2>3. CASE PowerLoss
    BY <2>1, <2>3, PowerLossLoses DEF Port!Next
  <2>4. ASSUME NEW p \in Process,
               \/ \E op \in Op, d \in Body : Open(p, op, d)
               \/ Lock(p) \/ Run(p) \/ Breaks(p)
        PROVE  LogInv' /\ (Port!Next \/ UNCHANGED PortVars)
    BY <2>1, <2>4, QuietSteps, EntriesLooks, WriteRecords, WriteFailsRecords,
       SyncAcknowledges DEF Run, Breaks, Port!Next
  <2>. QED BY <2>1, <2>2, <2>3, <2>4 DEF FileNext
<1>. QED BY <1>1, <1>2, FileInvariance, PTL DEF FileSpec, ImplementsLedgerPort, Port!Spec


-----------------------------------------------------------------------------
(* The receipt that entry i must have.                                     *)
ReceiptOf(i) ==
  [op |-> entries[i].op, request |-> entries[i].request, sequence |-> i]

(* The tables are three views of the entries, and no operation is recorded *)
(* twice.  An entry that expected a head follows that head.                *)
Tables ==
  /\ head = DigestAt(Len(entries))
  /\ receipts = {ReceiptOf(i) : i \in DOMAIN entries}
  /\ \A i \in DOMAIN entries :
       /\ entries[i].op = entries[i].request.op
       /\ entries[i].draft = entries[i].request.draft
       /\ entries[i].request.expected \subseteq {DigestAt(i - 1)}
  /\ \A i, j \in DOMAIN entries : entries[i].op = entries[j].op => i = j

(* Every answer is backed by the entry it names.                           *)
Backed ==
  \A a \in answers : /\ a.sequence \in DOMAIN entries
                     /\ entries[a.sequence].request = a.request

(* Where a call stands in the log: what it compiled against is the log up  *)
(* to some entry, which is what it expected if it expected anything, and   *)
(* each attempt it lost was lost to an entry since it began.               *)
Placed(c) ==
  /\ Reading(c) => calls[c].began + calls[c].tries <= Len(entries)
  /\ Writing(c) =>
       /\ Len(calls[c].seen) <= Len(entries)
       /\ calls[c].seen = DigestAt(Len(calls[c].seen))
       /\ calls[c].began + calls[c].tries <= Len(calls[c].seen)
       /\ calls[c].request.expected \subseteq {calls[c].seen}
  /\ "lost" \in DOMAIN calls[c] => calls[c].began + calls[c].lost <= Len(entries)

(* The pages of a caller are the log up to its cursor; a cursor of 0 ends  *)
(* a listing, and the next page starts anew.                               *)
Paged(c) ==
  LET list == pages[c].records IN
  /\ Len(list) <= Len(entries)
  /\ \A i \in DOMAIN list : list[i] = entries[i]
  /\ pages[c].cursor \in {0, Len(list)}

IInv ==
  /\ TypeOK
  /\ Tables
  /\ Backed
  /\ \A c \in Caller : Placed(c)
  /\ \A c \in Caller : Paged(c)

-----------------------------------------------------------------------------
LEMMA InitInvariant == Init => IInv
  <1> SUFFICES ASSUME Init PROVE IInv
    OBVIOUS
  <1> USE DEF Init
  <1>1. TypeOK
    BY SqlLedgerAssumption DEF TypeOK, Call, Idle
  <1>2. Tables
    BY DEF Tables, DigestAt, ReceiptOf
  <1>3. Backed
    BY DEF Backed
  <1>4. \A c \in Caller : Placed(c)
    BY DEF Placed, Reading, Writing, Idle
  <1>5. \A c \in Caller : Paged(c)
    BY DEF Paged
  <1> QED BY <1>1, <1>2, <1>3, <1>4, <1>5 DEF IInv

-----------------------------------------------------------------------------
(* The log only grows.                                                     *)
Grows ==
  /\ Len(entries) <= Len(entries')
  /\ \A i \in DOMAIN entries : entries'[i] = entries[i]

LEMMA GrowsDomain ==
  ASSUME TypeOK, TypeOK', Grows
  PROVE  /\ DOMAIN entries \subseteq DOMAIN entries'
         /\ Len(entries) \in Nat /\ Len(entries') \in Nat
  BY DEF TypeOK, Grows

(* The digest behind an entry stays what it was.                           *)
LEMMA DigestStays ==
  ASSUME TypeOK, TypeOK', Grows, NEW n \in Nat, n <= Len(entries)
  PROVE  DigestAt(n)' = DigestAt(n)
  <1>1. \A i \in 1..n : i \in DOMAIN entries /\ entries'[i] = entries[i]
    BY DEF TypeOK, Grows
  <1> QED BY <1>1 DEF DigestAt

(* Only a call that lost its last race has a field of that name.           *)
LEMMA LostCall ==
  ASSUME NEW r \in Call, "lost" \in DOMAIN r
  PROVE  r.at = "idle" /\ r.began \in Nat /\ r.lost \in Nat
  <1>1. CASE r \in [at : {"idle"}]
    BY <1>1
  <1>2. CASE r \in [at : {"idle"}, error : {"conflict", "head_changed", "storage"},
                    request : Recorded]
    BY <1>2
  <1>3. CASE r \in [at : {"idle"}, error : {"head_changed"}, request : Recorded,
                    lost : Nat, began : Nat]
    BY <1>3
  <1>4. CASE r \in [at : {"read"}, request : Recorded, tries : Nat, began : Nat]
    BY <1>4
  <1>5. CASE r \in [at : {"write"}, request : Recorded, tries : Nat, began : Nat,
                    seen : Seq(Draft)]
    BY <1>5
  <1> QED BY <1>1, <1>2, <1>3, <1>4, <1>5 DEF Call

(* A call that raised remembers its request.                               *)
LEMMA FailedCall ==
  ASSUME NEW r \in Call, "error" \in DOMAIN r
  PROVE  r.request \in Recorded
  <1>1. CASE r \in [at : {"idle"}]
    BY <1>1
  <1>2. CASE r \in Call \ [at : {"idle"}]
    BY <1>2 DEF Call
  <1> QED BY <1>1, <1>2

(* Where a call stands, and what it has paged through, is not disturbed by *)
(* a longer log.                                                           *)
LEMMA PlacedStays ==
  ASSUME TypeOK, TypeOK', Grows, NEW c \in Caller, Placed(c), calls'[c] = calls[c]
  PROVE  Placed(c)'
  <1>1. Len(entries) \in Nat /\ Len(entries') \in Nat /\ Len(entries) <= Len(entries')
    BY GrowsDomain DEF Grows
  <1>2. Reading(c)' => (calls[c].began + calls[c].tries <= Len(entries))'
    <2>1. SUFFICES ASSUME Reading(c)
                   PROVE  calls[c].began + calls[c].tries <= Len(entries')
      BY DEF Reading
    <2>2. calls[c].began \in Nat /\ calls[c].tries \in Nat
      BY <2>1 DEF TypeOK, Call, Reading
    <2> QED BY <1>1, <2>1, <2>2 DEF Placed
  <1>3. Writing(c)' => (/\ Len(calls[c].seen) <= Len(entries)
                        /\ calls[c].seen = DigestAt(Len(calls[c].seen))
                        /\ calls[c].began + calls[c].tries <= Len(calls[c].seen)
                        /\ calls[c].request.expected \subseteq {calls[c].seen})'
    <2>1. SUFFICES ASSUME Writing(c)
                   PROVE  /\ Len(calls[c].seen) <= Len(entries')
                          /\ calls[c].seen = DigestAt(Len(calls[c].seen))'
      BY DEF Writing, Placed
    <2>2. calls[c].seen \in Seq(Draft)
      BY <2>1 DEF TypeOK, Call, Writing
    <2>3. Len(calls[c].seen) \in Nat /\ Len(calls[c].seen) <= Len(entries)
      BY <2>1, <2>2 DEF Placed
    <2> QED BY <1>1, <2>1, <2>3, DigestStays DEF Placed
  <1>4. ("lost" \in DOMAIN calls[c] => calls[c].began + calls[c].lost <= Len(entries))'
    <2>1. SUFFICES ASSUME "lost" \in DOMAIN calls[c]
                   PROVE  calls[c].began + calls[c].lost <= Len(entries')
      OBVIOUS
    <2>2. calls[c].began \in Nat /\ calls[c].lost \in Nat
      BY <2>1, LostCall DEF TypeOK
    <2> QED BY <1>1, <2>1, <2>2 DEF Placed
  <1> QED BY <1>2, <1>3, <1>4 DEF Placed

LEMMA PagedStays ==
  ASSUME TypeOK, TypeOK', Grows, NEW c \in Caller, Paged(c), pages'[c] = pages[c]
  PROVE  Paged(c)'
  <1>1. /\ Len(entries) \in Nat /\ Len(entries') \in Nat
        /\ Len(entries) <= Len(entries') /\ DOMAIN entries = 1..Len(entries)
    BY GrowsDomain DEF Grows, TypeOK
  <1>2. pages[c].records \in Seq(Entry)
    BY DEF TypeOK
  <1> QED BY <1>1, <1>2 DEF Paged, Grows

-----------------------------------------------------------------------------
(* What the execution of a batch does to the tables: nothing, or one entry *)
(* with its receipt and head is recorded after the head it was compiled    *)
(* against.                                                                *)
LEMMA Executed ==
  ASSUME IInv, NEW c \in Caller, Writing(c), Execute(c)
  PROVE  /\ entries' \in Seq(Entry)
         /\ receipts' \subseteq [op : Ids, request : Recorded, sequence : Nat]
         /\ head' \in Seq(Draft)
         /\ Grows
         /\ Tables'
         /\ ~ Inserts(c) => UNCHANGED store
  <1> DEFINE q == calls[c].request
             n == Len(entries)
  <1>1. /\ q \in Recorded /\ q.op \in Ids /\ q.draft \in Draft
        /\ calls[c].seen \in Seq(Draft)
    BY DEF IInv, TypeOK, Call, Writing, Recorded
  <1>2. entries \in Seq(Entry) /\ n \in Nat /\ DOMAIN entries = 1..n
    BY DEF IInv, TypeOK
  <1>3. CASE ~ Inserts(c)
    <2>1. UNCHANGED store
      BY <1>3 DEF Execute
    <2>2. \A i : DigestAt(i)' = DigestAt(i)
      BY <2>1 DEF DigestAt, store
    <2>3. Tables'
      BY <2>1, <2>2 DEF IInv, Tables, ReceiptOf, store
    <2>4. Grows
      BY <1>2, <2>1 DEF Grows, store
    <2> QED BY <2>1, <2>3, <2>4 DEF IInv, TypeOK, store
  <1>4. CASE Inserts(c)
    <2>1. /\ entries' = Append(entries, Row(q))
          /\ receipts' = receipts \cup {[op |-> q.op, request |-> q, sequence |-> n + 1]}
          /\ head' = Append(head, q.draft)
      BY <1>4 DEF Execute
    <2>2. Row(q) \in Entry
      BY <1>1 DEF Row, Entry
    <2>3. /\ entries' \in Seq(Entry) /\ Len(entries') = n + 1
          /\ DOMAIN entries' = 1..(n + 1) /\ DOMAIN entries' = DOMAIN entries \cup {n + 1}
          /\ entries'[n + 1] = Row(q)
          /\ \A i \in DOMAIN entries : entries'[i] = entries[i]
      BY <1>2, <2>1, <2>2
    <2>4. receipts' \subseteq [op : Ids, request : Recorded, sequence : Nat]
      BY <1>1, <1>2, <2>1 DEF IInv, TypeOK
    <2>5. head \in Seq(Draft) /\ head' \in Seq(Draft)
      BY <1>1, <2>1 DEF IInv, TypeOK
    <2>6. Grows
      BY <1>2, <2>3 DEF Grows
    <2>7. \A i \in 0..n : DigestAt(i)' = DigestAt(i)
      <3> TAKE i \in 0..n
      <3>1. \A j \in 1..i : entries'[j].draft = entries[j].draft
        BY <1>2, <2>3
      <3> QED BY <3>1 DEF DigestAt
    <2>8. head = DigestAt(n)
      BY DEF IInv, Tables
    <2>9. (head = DigestAt(Len(entries)))'
      <3>1. Len(head) = n /\ \A i \in 1..n : head[i] = entries[i].draft
        BY <1>2, <2>5, <2>8 DEF DigestAt
      <3>2. /\ Len(head') = n + 1 /\ DOMAIN head' = 1..(n + 1)
            /\ head'[n + 1] = q.draft
            /\ \A i \in 1..n : head'[i] = head[i]
        BY <1>1, <1>2, <2>1, <2>5, <3>1
      <3>3. \A i \in 1..(n + 1) : head'[i] = entries'[i].draft
        BY <1>2, <2>3, <3>1, <3>2 DEF Row
      <3>4. head' = [i \in 1..(n + 1) |-> head'[i]]
        BY <2>5, <3>2
      <3>5. DigestAt(Len(entries))' = [i \in 1..(n + 1) |-> entries'[i].draft]
        BY <2>3 DEF DigestAt
      <3> QED BY <3>3, <3>4, <3>5
    <2>10. (receipts = {ReceiptOf(i) : i \in DOMAIN entries})'
      <3>1. \A i \in DOMAIN entries : ReceiptOf(i)' = ReceiptOf(i)
        BY <2>3 DEF ReceiptOf
      <3>2. \A i : i = n + 1 =>
              ReceiptOf(i)' = [op |-> q.op, request |-> q, sequence |-> n + 1]
        BY <2>3 DEF ReceiptOf, Row
      <3>3. receipts = {ReceiptOf(i) : i \in DOMAIN entries}
        BY DEF IInv, Tables
      <3> QED BY <2>1, <2>3, <3>1, <3>2, <3>3
    <2>11. \A i \in DOMAIN entries' :
             /\ entries'[i].op = entries'[i].request.op
             /\ entries'[i].draft = entries'[i].request.draft
             /\ entries'[i].request.expected \subseteq {DigestAt(i - 1)'}
      <3> TAKE i \in DOMAIN entries'
      <3>1. CASE i \in DOMAIN entries
        <4>1. i - 1 \in 0..n
          BY <1>2, <3>1
        <4> QED BY <2>3, <2>7, <3>1, <4>1 DEF IInv, Tables
      <3>2. CASE i = n + 1
        <4>1. q.expected \subseteq {head}
          BY <1>4 DEF IInv, Placed, Inserts
        <4>2. i - 1 = n /\ n \in 0..n
          BY <1>2, <3>2
        <4> QED BY <2>3, <2>7, <2>8, <3>2, <4>1, <4>2 DEF Row
      <3> QED BY <2>3, <3>1, <3>2
    <2>12. \A i, j \in DOMAIN entries' : entries'[i].op = entries'[j].op => i = j
      <3>1. \A i \in DOMAIN entries : entries[i].op # q.op
        BY <1>4 DEF Inserts, OnRecord
      <3>2. entries'[n + 1].op = q.op
        BY <2>3 DEF Row
      <3> QED BY <2>3, <3>1, <3>2 DEF IInv, Tables
    <2> QED BY <1>4, <2>3, <2>4, <2>5, <2>6, <2>9, <2>10, <2>11, <2>12 DEF Tables
  <1> QED BY <1>3, <1>4

-----------------------------------------------------------------------------
(* The parts of the invariant that a step leaves alone.                    *)
LEMMA StoreStays ==
  ASSUME IInv, UNCHANGED store
  PROVE  Tables' /\ Grows
  <1>1. \A i : DigestAt(i)' = DigestAt(i) /\ ReceiptOf(i)' = ReceiptOf(i)
    BY DEF DigestAt, ReceiptOf, store
  <1>2. Tables'
    BY <1>1 DEF IInv, Tables, store
  <1>3. Grows
    BY DEF IInv, TypeOK, Grows, store
  <1> QED BY <1>2, <1>3

LEMMA AnswersStay ==
  ASSUME IInv, TypeOK', Grows, UNCHANGED answers
  PROVE  Backed'
  BY GrowsDomain DEF IInv, Backed, Grows

LEMMA PagesStay ==
  ASSUME IInv, TypeOK', Grows, UNCHANGED pages
  PROVE  \A c \in Caller : Paged(c)'
  BY PagedStays DEF IInv

LEMMA CallsStay ==
  ASSUME IInv, TypeOK', Grows, UNCHANGED calls
  PROVE  \A c \in Caller : Placed(c)'
  BY PlacedStays DEF IInv

LEMMA OneCall ==
  ASSUME IInv, TypeOK', Grows, NEW c \in Caller, NEW work, Becomes(c, work), Placed(c)'
  PROVE  \A d \in Caller : Placed(d)'
  <1> SUFFICES ASSUME NEW d \in Caller, d # c
               PROVE  Placed(d)'
    OBVIOUS
  <1>1. calls'[d] = calls[d]
    BY DEF Becomes, IInv, TypeOK
  <1> QED BY <1>1, PlacedStays DEF IInv

(* A call that is over, without having lost its last race, stands nowhere. *)
LEMMA OverIsPlaced ==
  ASSUME NEW c \in Caller,
         \/ calls'[c] = Idle
         \/ \E e, q : calls'[c] = [at |-> "idle", error |-> e, request |-> q]
  PROVE  Placed(c)'
  <1>1. calls'[c].at = "idle" /\ "lost" \notin DOMAIN calls'[c]
    <2>1. CASE calls'[c] = Idle
      BY <2>1 DEF Idle
    <2>2. ASSUME NEW e, NEW q, calls'[c] = [at |-> "idle", error |-> e, request |-> q]
          PROVE  calls'[c].at = "idle" /\ "lost" \notin DOMAIN calls'[c]
      BY <2>2
    <2> QED BY <2>1, <2>2
  <1> QED BY <1>1 DEF Placed, Reading, Writing

(* An entry is returned to its caller.                                     *)
LEMMA Returned ==
  ASSUME IInv, TypeOK', Grows, NEW c \in Caller, NEW q, NEW i \in DOMAIN entries',
         entries'[i].request = q, Return(c, q, i, entries')
  PROVE  Backed' /\ Placed(c)'
  <1>1. \A a \in answers : a.sequence \in DOMAIN entries' /\ entries'[a.sequence].request = a.request
    BY GrowsDomain DEF IInv, Backed, Grows
  <1>2. Backed'
    BY <1>1 DEF Backed, Return
  <1>3. calls'[c] = Idle
    BY DEF Return, Becomes, IInv, TypeOK
  <1> QED BY <1>2, <1>3, OverIsPlaced

(* What the caller of an entry then knows is the log up to it.             *)
LEMMA ReturnTypes ==
  ASSUME IInv, entries' \in Seq(Entry), NEW c \in Caller, NEW q \in Recorded,
         NEW i \in DOMAIN entries', Return(c, q, i, entries')
  PROVE  /\ calls' \in [Caller -> Call]
         /\ known' \in [Caller -> Seq(Draft)]
         /\ answers' \subseteq [request : Recorded, sequence : Nat]
  <1>1. i \in Nat /\ \A j \in 1..i : entries'[j] \in Entry
    OBVIOUS
  <1>2. [j \in 1..i |-> entries'[j].draft] \in Seq(Draft)
    BY <1>1 DEF Entry
  <1>3. Idle \in Call
    BY DEF Idle, Call
  <1> QED BY <1>1, <1>2, <1>3 DEF Return, Becomes, IInv, TypeOK

-----------------------------------------------------------------------------
LEMMA BeginStep ==
  ASSUME IInv, NEW c \in Caller, NEW op \in OperationId, NEW d \in Draft,
         NEW p \in Principal, NEW e \in BOOLEAN, Begin(c, op, d, p, e)
  PROVE  IInv'
  <1> DEFINE q == [op |-> op, draft |-> d, principal |-> p,
                   expected |-> IF e THEN {known[c]} ELSE {}]
             work == [at |-> "read", request |-> q, tries |-> 0, began |-> Len(entries)]
  <1>1. Becomes(c, work) /\ UNCHANGED <<store, known, pages, answers, failures>>
    BY DEF Begin, Enter
  <1>2. q \in Recorded
    BY DEF Recorded, Ids, IInv, TypeOK
  <1>3. work \in Call
    BY <1>2 DEF Call, IInv, TypeOK
  <1> HIDE DEF q, work
  <1>4. TypeOK'
    BY <1>1, <1>3 DEF IInv, TypeOK, Becomes, store
  <1>5. Tables' /\ Grows
    BY <1>1, StoreStays
  <1>6. Placed(c)'
    <2>1. calls'[c] = work /\ Len(entries') = Len(entries) /\ Len(entries) \in Nat
      BY <1>1 DEF Becomes, IInv, TypeOK, store
    <2> QED BY <2>1 DEF work, Placed, Reading, Writing
  <1> QED BY <1>1, <1>4, <1>5, <1>6, OneCall, AnswersStay, PagesStay DEF IInv

LEMMA RepeatStep ==
  ASSUME IInv, NEW c \in Caller, Repeat(c)
  PROVE  IInv'
  <1> DEFINE q == calls[c].request
             work == [at |-> "read", request |-> q, tries |-> 0, began |-> Len(entries)]
  <1>1. Becomes(c, work) /\ UNCHANGED <<store, known, pages, answers, failures>>
    BY DEF Repeat, Enter
  <1>2. q \in Recorded
    BY FailedCall DEF Repeat, IInv, TypeOK
  <1>3. work \in Call
    BY <1>2 DEF Call, IInv, TypeOK
  <1> HIDE DEF q, work
  <1>4. TypeOK'
    BY <1>1, <1>3 DEF IInv, TypeOK, Becomes, store
  <1>5. Tables' /\ Grows
    BY <1>1, StoreStays
  <1>6. Placed(c)'
    <2>1. calls'[c] = work /\ Len(entries') = Len(entries) /\ Len(entries) \in Nat
      BY <1>1 DEF Becomes, IInv, TypeOK, store
    <2> QED BY <2>1 DEF work, Placed, Reading, Writing
  <1> QED BY <1>1, <1>4, <1>5, <1>6, OneCall, AnswersStay, PagesStay DEF IInv

(* A call that is at work has its request and its counts.                  *)
LEMMA AtWork ==
  ASSUME TypeOK, NEW c \in Caller, ~ AtIdle(c)
  PROVE  /\ Reading(c) \/ Writing(c)
         /\ calls[c].request \in Recorded
         /\ calls[c].tries \in Nat /\ calls[c].began \in Nat
         /\ Writing(c) => calls[c].seen \in Seq(Draft)
  BY DEF TypeOK, Call, AtIdle, Reading, Writing

LEMMA Raised ==
  ASSUME IInv, NEW c \in Caller, ~ AtIdle(c),
         NEW e \in {"conflict", "head_changed", "storage"}, Raise(c, e, calls[c].request)
  PROVE  calls' \in [Caller -> Call] /\ Placed(c)'
  <1> DEFINE work == [at |-> "idle", error |-> e, request |-> calls[c].request]
  <1>1. work \in Call
    BY AtWork DEF IInv, Call
  <1>2. calls' = [calls EXCEPT ![c] = work]
    BY DEF Raise, Becomes
  <1>3. calls'[c] = work
    BY <1>2 DEF IInv, TypeOK
  <1> QED BY <1>1, <1>2, <1>3, OverIsPlaced DEF IInv, TypeOK

LEMMA RecogniseStep ==
  ASSUME IInv, NEW c \in Caller, Recognise(c)
  PROVE  IInv'
  <1> DEFINE q == calls[c].request
  <1>1. UNCHANGED <<store, pages, failures>> /\ ~ AtIdle(c)
    BY DEF Recognise, Reading, AtIdle
  <1>2. q \in Recorded
    BY <1>1, AtWork DEF IInv
  <1>3. PICK i \in OnRecord(q) :
          IF entries[i].request = q
          THEN Return(c, q, i, entries)
          ELSE Raise(c, "conflict", q) /\ UNCHANGED <<known, answers>>
    BY DEF Recognise
  <1>4. entries' = entries /\ i \in DOMAIN entries
    BY <1>1 DEF OnRecord, store
  <1>5. Tables' /\ Grows
    BY <1>1, StoreStays
  <1>6. CASE entries[i].request = q
    <2>1. Return(c, q, i, entries')
      BY <1>3, <1>4, <1>6
    <2>2. TypeOK'
      BY <1>1, <1>2, <1>4, <2>1, ReturnTypes DEF IInv, TypeOK, store
    <2>3. Backed' /\ Placed(c)'
      BY <1>4, <1>5, <1>6, <2>1, <2>2, Returned
    <2>4. Becomes(c, Idle)
      BY <2>1 DEF Return
    <2> QED BY <1>1, <1>5, <2>2, <2>3, <2>4, OneCall, PagesStay DEF IInv
  <1>7. CASE entries[i].request # q
    <2>1. Raise(c, "conflict", q) /\ UNCHANGED <<known, answers>>
      BY <1>3, <1>7
    <2>2. calls' \in [Caller -> Call] /\ Placed(c)'
      BY <1>1, <2>1, Raised
    <2>3. TypeOK'
      BY <1>1, <2>1, <2>2 DEF IInv, TypeOK, store
    <2> QED BY <1>1, <1>5, <2>1, <2>2, <2>3, OneCall, AnswersStay, PagesStay DEF IInv, Raise
  <1> QED BY <1>6, <1>7

LEMMA HeadMovedStep ==
  ASSUME IInv, NEW c \in Caller, HeadMoved(c)
  PROVE  IInv'
  <1>1. /\ UNCHANGED <<store, known, pages, answers, failures>> /\ ~ AtIdle(c)
        /\ Raise(c, "head_changed", calls[c].request)
    BY DEF HeadMoved, Reading, AtIdle
  <1>2. Tables' /\ Grows
    BY <1>1, StoreStays
  <1>3. calls' \in [Caller -> Call] /\ Placed(c)'
    BY <1>1, Raised
  <1>4. TypeOK'
    BY <1>1, <1>3 DEF IInv, TypeOK, store
  <1> QED BY <1>1, <1>2, <1>3, <1>4, OneCall, AnswersStay, PagesStay DEF IInv, Raise

LEMMA CompileStep ==
  ASSUME IInv, NEW c \in Caller, Compile(c)
  PROVE  IInv'
  <1> DEFINE work == [at |-> "write", request |-> calls[c].request, tries |-> calls[c].tries,
                      began |-> calls[c].began, seen |-> head]
  <1>1. /\ UNCHANGED <<store, known, pages, answers, failures>> /\ ~ AtIdle(c)
        /\ Reading(c) /\ Becomes(c, work)
    BY DEF Compile, Reading, AtIdle
  <1>2. Tables' /\ Grows
    BY <1>1, StoreStays
  <1>3. work \in Call
    BY <1>1, AtWork DEF IInv, Call, TypeOK
  <1>4. calls'[c] = work
    BY <1>1 DEF Becomes, IInv, TypeOK
  <1>5. TypeOK'
    BY <1>1, <1>3 DEF IInv, TypeOK, Becomes, store
  <1>6. Placed(c)'
    <2>1. Len(entries) \in Nat /\ head = DigestAt(Len(entries))
      BY DEF IInv, TypeOK, Tables
    <2>2. Len(head) = Len(entries)
      BY <2>1 DEF DigestAt
    <2>3. entries' = entries /\ \A i : DigestAt(i)' = DigestAt(i)
      BY <1>1 DEF store, DigestAt
    <2>4. calls[c].began + calls[c].tries <= Len(entries)
      BY <1>1 DEF IInv, Placed
    <2>5. calls[c].request.expected \subseteq {head}
      BY DEF Compile, ExpectedHead
    <2>6. work.at = "write" /\ "lost" \notin DOMAIN work
      OBVIOUS
    <2> QED BY <1>4, <2>1, <2>2, <2>3, <2>4, <2>5, <2>6 DEF Placed, Reading, Writing
  <1> QED BY <1>1, <1>2, <1>5, <1>6, OneCall, AnswersStay, PagesStay DEF IInv

(* The answer of a batch: the receipt of an operation is that of its only  *)
(* entry.                                                                  *)
LEMMA AcceptedStep ==
  ASSUME IInv, NEW c \in Caller, Accepted(c)
  PROVE  IInv'
  <1> DEFINE q == calls[c].request
  <1>1. Writing(c) /\ ~ AtIdle(c) /\ Execute(c) /\ UNCHANGED <<pages, failures>>
    BY DEF Accepted, Writing, AtIdle
  <1>2. /\ entries' \in Seq(Entry)
        /\ receipts' \subseteq [op : Ids, request : Recorded, sequence : Nat]
        /\ head' \in Seq(Draft) /\ Grows /\ Tables'
    BY <1>1, Executed
  <1>3. q \in Recorded
    BY <1>1, AtWork DEF IInv
  <1>4. PICK r \in receipts' : r.op = q.op /\
          IF r.request = q
          THEN Return(c, q, r.sequence, entries')
          ELSE Raise(c, "conflict", q) /\ UNCHANGED <<known, answers>>
    BY DEF Accepted
  <1>5. r.sequence \in DOMAIN entries' /\ entries'[r.sequence].request = r.request
    <2>1. receipts' = {[op |-> entries'[i].op, request |-> entries'[i].request,
                        sequence |-> i] : i \in DOMAIN entries'}
      BY <1>2 DEF Tables, ReceiptOf
    <2> QED BY <1>4, <2>1
  <1>6. CASE r.request = q
    <2>1. Return(c, q, r.sequence, entries')
      BY <1>4, <1>6
    <2>2. TypeOK'
      BY <1>1, <1>2, <1>3, <1>5, <2>1, ReturnTypes DEF IInv, TypeOK
    <2>3. Backed' /\ Placed(c)'
      BY <1>2, <1>5, <1>6, <2>1, <2>2, Returned
    <2>4. Becomes(c, Idle)
      BY <2>1 DEF Return
    <2> QED BY <1>1, <1>2, <2>2, <2>3, <2>4, OneCall, PagesStay DEF IInv
  <1>7. CASE r.request # q
    <2>1. Raise(c, "conflict", q) /\ UNCHANGED <<known, answers>>
      BY <1>4, <1>7
    <2>2. calls' \in [Caller -> Call] /\ Placed(c)'
      BY <1>1, <2>1, Raised
    <2>3. TypeOK'
      BY <1>1, <1>2, <2>1, <2>2 DEF IInv, TypeOK
    <2> QED BY <1>1, <1>2, <2>1, <2>2, <2>3, OneCall, AnswersStay, PagesStay DEF IInv, Raise
  <1> QED BY <1>6, <1>7

(* A batch that inserts nothing and finds no receipt has met a longer log  *)
(* than it was compiled against.                                           *)
LEMMA LostToAnEntry ==
  ASSUME IInv, NEW c \in Caller, LostRace(c)
  PROVE  calls[c].began + calls[c].tries + 1 <= Len(entries)
  <1> DEFINE q == calls[c].request
  <1>1. Writing(c) /\ ~ AtIdle(c) /\ ~ Inserts(c) /\ ReceiptsOf(q.op) = {}
    BY DEF LostRace, Writing, AtIdle
  <1>2. OnRecord(q) = {}
    <2>1. \A i \in DOMAIN entries : ReceiptOf(i) \in receipts /\ ReceiptOf(i).op = entries[i].op
      BY DEF IInv, Tables, ReceiptOf
    <2> QED BY <1>1, <2>1 DEF OnRecord, ReceiptsOf
  <1>3. head # calls[c].seen
    BY <1>1, <1>2 DEF Inserts
  <1>4. /\ calls[c].seen \in Seq(Draft) /\ calls[c].tries \in Nat /\ calls[c].began \in Nat
        /\ Len(entries) \in Nat /\ Len(calls[c].seen) \in Nat
    BY <1>1, AtWork DEF IInv, TypeOK
  <1>5. Len(calls[c].seen) # Len(entries)
    BY <1>1, <1>3 DEF IInv, Placed, Tables
  <1>6. /\ Len(calls[c].seen) <= Len(entries)
        /\ calls[c].began + calls[c].tries <= Len(calls[c].seen)
    BY <1>1 DEF IInv, Placed
  <1> QED BY <1>4, <1>5, <1>6

LEMMA RetryStep ==
  ASSUME IInv, NEW c \in Caller, Retry(c)
  PROVE  IInv'
  <1> DEFINE work == [at |-> "read", request |-> calls[c].request,
                      tries |-> calls[c].tries + 1, began |-> calls[c].began]
  <1>1. /\ UNCHANGED <<store, known, pages, answers, failures>> /\ ~ AtIdle(c)
        /\ LostRace(c) /\ Becomes(c, work)
    BY DEF Retry, LostRace, Writing, AtIdle
  <1>2. Tables' /\ Grows
    BY <1>1, StoreStays
  <1>3. work \in Call
    BY <1>1, AtWork DEF IInv, Call
  <1>4. calls'[c] = work
    BY <1>1 DEF Becomes, IInv, TypeOK
  <1>5. TypeOK'
    BY <1>1, <1>3 DEF IInv, TypeOK, Becomes, store
  <1>6. Placed(c)'
    <2>1. calls[c].began + calls[c].tries + 1 <= Len(entries) /\ entries' = entries
      BY <1>1, LostToAnEntry DEF store
    <2>2. calls[c].tries \in Nat /\ calls[c].began \in Nat /\ Len(entries) \in Nat
      BY <1>1, AtWork DEF IInv, TypeOK
    <2>3. work.began + work.tries <= Len(entries')
      BY <2>1, <2>2
    <2> QED BY <1>4, <2>3 DEF Placed, Reading, Writing
  <1> QED BY <1>1, <1>2, <1>5, <1>6, OneCall, AnswersStay, PagesStay DEF IInv

LEMMA GiveUpStep ==
  ASSUME IInv, NEW c \in Caller, GiveUp(c)
  PROVE  IInv'
  <1> DEFINE work == [at |-> "idle", error |-> "head_changed", request |-> calls[c].request,
                      lost |-> calls[c].tries + 1, began |-> calls[c].began]
  <1>1. /\ UNCHANGED <<store, known, pages, answers, failures>> /\ ~ AtIdle(c)
        /\ LostRace(c) /\ Becomes(c, work)
    BY DEF GiveUp, LostRace, Writing, AtIdle
  <1>2. Tables' /\ Grows
    BY <1>1, StoreStays
  <1>3. work \in Call
    BY <1>1, AtWork DEF IInv, Call
  <1>4. calls'[c] = work
    BY <1>1 DEF Becomes, IInv, TypeOK
  <1>5. TypeOK'
    BY <1>1, <1>3 DEF IInv, TypeOK, Becomes, store
  <1>6. Placed(c)'
    <2>1. calls[c].began + calls[c].tries + 1 <= Len(entries) /\ entries' = entries
      BY <1>1, LostToAnEntry DEF store
    <2>2. calls[c].tries \in Nat /\ calls[c].began \in Nat /\ Len(entries) \in Nat
      BY <1>1, AtWork DEF IInv, TypeOK
    <2>3. work.began + work.lost <= Len(entries')
      BY <2>1, <2>2
    <2> QED BY <1>4, <2>3 DEF Placed, Reading, Writing
  <1> QED BY <1>1, <1>2, <1>5, <1>6, OneCall, AnswersStay, PagesStay DEF IInv

LEMMA FailStep ==
  ASSUME IInv, NEW c \in Caller, Fail(c)
  PROVE  IInv'
  <1>1. /\ ~ AtIdle(c) /\ UNCHANGED <<known, pages, answers>>
        /\ failures < MaxFailures /\ failures' = failures + 1
        /\ UNCHANGED store \/ (Writing(c) /\ Execute(c))
        /\ Raise(c, "storage", calls[c].request)
    BY DEF Fail
  <1>2. /\ entries' \in Seq(Entry)
        /\ receipts' \subseteq [op : Ids, request : Recorded, sequence : Nat]
        /\ head' \in Seq(Draft) /\ Grows /\ Tables'
    <2>1. CASE UNCHANGED store
      BY <2>1, StoreStays DEF IInv, TypeOK, store
    <2>2. CASE Writing(c) /\ Execute(c)
      BY <2>2, Executed
    <2> QED BY <1>1, <2>1, <2>2
  <1>3. calls' \in [Caller -> Call] /\ Placed(c)'
    BY <1>1, Raised
  <1>4. TypeOK'
    BY <1>1, <1>2, <1>3, SqlLedgerAssumption DEF IInv, TypeOK
  <1> QED BY <1>1, <1>2, <1>3, <1>4, OneCall, AnswersStay, PagesStay DEF IInv, Raise

(* An import makes the tables of an empty stream, all of one file.         *)
LEMMA ImportStep ==
  ASSUME IInv, Import
  PROVE  IInv'
  <1> DEFINE n == Len(Imported)
  <1>1. n \in Nat /\ Imported \in Seq(Draft) /\ DOMAIN Imported = 1..n
    BY SqlLedgerAssumption
  <1>2. /\ entries = <<>>
        /\ entries' = [i \in 1..n |-> Row(ImportRequest(i))]
        /\ receipts' = {[op |-> ImportId(i), request |-> ImportRequest(i), sequence |-> i] :
                          i \in 1..n}
        /\ head' = Imported
        /\ UNCHANGED <<calls, known, pages, answers, failures>>
    BY <1>1 DEF Import
  <1>3. \A i \in 1..n : ImportRequest(i) \in Recorded /\ Row(ImportRequest(i)) \in Entry
    BY <1>1 DEF ImportRequest, Recorded, Row, Entry, Ids
  <1>4. entries' \in Seq(Entry) /\ Len(entries') = n /\ DOMAIN entries' = 1..n
    BY <1>1, <1>2, <1>3
  <1>5. receipts' \subseteq [op : Ids, request : Recorded, sequence : Nat]
    BY <1>1, <1>2, <1>3 DEF Ids
  <1>6. TypeOK'
    BY <1>1, <1>2, <1>4, <1>5 DEF IInv, TypeOK
  <1>7. Grows
    BY <1>1, <1>2, <1>4 DEF Grows
  <1>8. Tables'
    <2>1. (head = DigestAt(Len(entries)))'
      <3>1. DigestAt(Len(entries))' = [i \in 1..n |-> Imported[i]]
        BY <1>2, <1>4 DEF DigestAt, Row, ImportRequest
      <3> QED BY <1>1, <1>2, <3>1
    <2>2. (receipts = {ReceiptOf(i) : i \in DOMAIN entries})'
      <3>1. \A i \in 1..n : ReceiptOf(i)' =
              [op |-> ImportId(i), request |-> ImportRequest(i), sequence |-> i]
        BY <1>2 DEF ReceiptOf, Row, ImportRequest
      <3> QED BY <1>2, <1>4, <3>1
    <2>3. \A i \in 1..n :
            /\ entries'[i].op = entries'[i].request.op
            /\ entries'[i].draft = entries'[i].request.draft
            /\ entries'[i].request.expected = {}
      BY <1>2 DEF Row, ImportRequest
    <2>4. \A i, j \in 1..n : entries'[i].op = entries'[j].op => i = j
      BY <1>2 DEF Row, ImportRequest, ImportId
    <2> QED BY <1>4, <2>1, <2>2, <2>3, <2>4 DEF Tables
  <1> QED BY <1>2, <1>6, <1>7, <1>8, CallsStay, AnswersStay, PagesStay DEF IInv

LEMMA LookStep ==
  ASSUME IInv, NEW c \in Caller, Look(c)
  PROVE  IInv'
  <1>1. /\ known' = [known EXCEPT ![c] = head]
        /\ UNCHANGED <<store, calls, pages, answers, failures>>
    BY DEF Look
  <1>2. TypeOK'
    BY <1>1 DEF IInv, TypeOK, store
  <1> QED BY <1>1, <1>2, StoreStays, CallsStay, AnswersStay, PagesStay DEF IInv

(* A page continues the pages before it: it begins at the cursor, which is *)
(* where they ended, or with the first entry.                              *)
LEMMA PageStep ==
  ASSUME IInv, NEW c \in Caller, Page(c)
  PROVE  IInv'
  <1> DEFINE n == Len(entries)
             cursor == pages[c].cursor
             old == IF cursor = 0 THEN <<>> ELSE pages[c].records
             rest == After(cursor)
             page == SubSeq(rest, 1, IF Len(rest) < Limit THEN Len(rest) ELSE Limit)
             m == Len(page)
  <1>1. UNCHANGED <<store, calls, known, answers, failures>>
    BY DEF Page
  <1>2. entries \in Seq(Entry) /\ n \in Nat /\ DOMAIN entries = 1..n
    BY DEF IInv, TypeOK
  <1>3. /\ old \in Seq(Entry) /\ Len(old) = cursor /\ cursor \in Nat /\ cursor <= n
        /\ \A i \in 1..cursor : old[i] = entries[i]
    BY <1>2 DEF IInv, TypeOK, Paged
  <1>4. /\ rest \in Seq(Entry) /\ Len(rest) = n - cursor
        /\ \A i \in 1..(n - cursor) : rest[i] = entries[cursor + i]
    <2> HIDE DEF old
    <2>1. rest = SubSeq(entries, cursor + 1, n)
      BY DEF After
    <2> HIDE DEF rest, n, cursor
    <2> QED BY <1>2, <1>3, <2>1, SubSeqProperties
  <1>5. /\ page \in Seq(Entry) /\ m \in Nat /\ cursor + m <= n
        /\ \A i \in 1..m : page[i] = entries[cursor + i]
    <2> DEFINE l == IF Len(rest) < Limit THEN Len(rest) ELSE Limit
    <2> HIDE DEF old, rest, n, cursor
    <2>1. l \in Nat /\ l <= n - cursor
      BY <1>2, <1>3, <1>4, SqlLedgerAssumption
    <2> HIDE DEF l
    <2>2. page = SubSeq(rest, 1, l) /\ page \in Seq(Entry) /\ Len(page) = l
      <3>1. page = SubSeq(rest, 1, l)
        BY DEF l
      <3> HIDE DEF page
      <3> QED BY <1>2, <1>3, <1>4, <2>1, <3>1, SubSeqProperties
    <2>3. \A i \in 1..l : page[i] = rest[i]
      BY <1>2, <1>3, <1>4, <2>1, <2>2
    <2> HIDE DEF page
    <2> QED BY <1>2, <1>3, <1>4, <2>1, <2>2, <2>3
  <1>6. /\ old \o page \in Seq(Entry) /\ Len(old \o page) = cursor + m
        /\ \A i \in 1..(cursor + m) : (old \o page)[i] = entries[i]
    <2> HIDE DEF old, page, cursor, n
    <2>1. old \o page \in Seq(Entry) /\ Len(old \o page) = cursor + m
      BY <1>3, <1>5
    <2>2. ASSUME NEW i \in 1..(cursor + m)
          PROVE  (old \o page)[i] = entries[i]
      <3>1. CASE i \in 1..cursor
        BY <1>3, <1>5, <3>1
      <3>2. CASE i \in (cursor + 1)..(cursor + m)
        <4>1. i - cursor \in 1..m /\ cursor + (i - cursor) = i
          BY <1>3, <1>5, <3>2
        <4>2. (old \o page)[i] = page[i - cursor]
          BY <1>3, <1>5, <3>2, <4>1
        <4> QED BY <1>5, <4>1, <4>2
      <3> QED BY <1>3, <1>5, <3>1, <3>2
    <2> QED BY <2>1, <2>2
  <1>7. PICK k \in {0, cursor + m} :
          pages' = [pages EXCEPT ![c] = [records |-> old \o page, cursor |-> k]]
    BY DEF Page
  <1> HIDE DEF old, rest, page, cursor, m
  <1>8. k \in Nat /\ cursor \in Nat /\ m \in Nat
    BY <1>3, <1>5
  <1>9. TypeOK'
    BY <1>1, <1>6, <1>7, <1>8 DEF IInv, TypeOK, store
  <1>10. Grows /\ Tables'
    BY <1>1, StoreStays
  <1>11. \A d \in Caller : Paged(d)'
    <2> TAKE d \in Caller
    <2>1. CASE d = c
      <3>1. pages'[c] = [records |-> old \o page, cursor |-> k] /\ entries' = entries
        BY <1>1, <1>7 DEF IInv, TypeOK, store
      <3>2. DOMAIN (old \o page) = 1..(cursor + m)
        BY <1>6
      <3> QED BY <1>3, <1>5, <1>6, <2>1, <3>1, <3>2 DEF Paged
    <2>2. CASE d # c
      <3>1. pages'[d] = pages[d]
        BY <1>7, <2>2 DEF IInv, TypeOK
      <3> QED BY <1>9, <1>10, <3>1, PagedStays DEF IInv
    <2> QED BY <2>1, <2>2
  <1> QED BY <1>1, <1>9, <1>10, <1>11, CallsStay, AnswersStay DEF IInv

LEMMA StepInvariant == IInv /\ [Next]_vars => IInv'
  <1> SUFFICES ASSUME IInv, [Next]_vars PROVE IInv'
    OBVIOUS
  <1>1. CASE Import
    BY <1>1, ImportStep
  <1>2. ASSUME NEW c \in Caller,
               \E op \in OperationId, d \in Draft, p \in Principal, e \in BOOLEAN :
                 Begin(c, op, d, p, e)
        PROVE  IInv'
    BY <1>2, BeginStep
  <1>3. ASSUME NEW c \in Caller,
               \/ Repeat(c) \/ Recognise(c) \/ HeadMoved(c) \/ Compile(c)
               \/ Accepted(c) \/ Retry(c) \/ GiveUp(c) \/ Fail(c)
               \/ Look(c) \/ Page(c)
        PROVE  IInv'
    BY <1>3, RepeatStep, RecogniseStep, HeadMovedStep, CompileStep, AcceptedStep,
       RetryStep, GiveUpStep, FailStep, LookStep, PageStep
  <1>4. CASE UNCHANGED vars
    <2>1. UNCHANGED <<store, calls, known, pages, answers, failures>>
      BY <1>4 DEF vars, store
    <2>2. TypeOK'
      BY <2>1 DEF IInv, TypeOK, store
    <2> QED BY <2>1, <2>2, StoreStays, CallsStay, AnswersStay, PagesStay DEF IInv
  <1> QED BY <1>1, <1>2, <1>3, <1>4 DEF Next

LEMMA Invariant == Spec => []IInv
  <1>1. Init => IInv
    BY InitInvariant
  <1>2. IInv /\ [Next]_vars => IInv'
    BY StepInvariant
  <1> QED BY <1>1, <1>2, PTL DEF Spec

-----------------------------------------------------------------------------
(* Tables, calls and answers keep their types: a call that is at work has  *)
(* its request, and one that writes the head it has compiled against.      *)
THEOREM TypeCorrect == Spec => []TypeOK
  <1>1. IInv => TypeOK
    BY DEF IInv
  <1> QED BY <1>1, Invariant, PTL

(* As many receipts as entries: the receipt of an entry has its number.    *)
LEMMA ReceiptsCounted ==
  ASSUME TypeOK, Tables
  PROVE  Cardinality(receipts) = Len(entries)
  <1>1. Len(entries) \in Nat /\ DOMAIN entries = 1..Len(entries)
    BY DEF TypeOK
  <1> DEFINE f == [i \in 1..Len(entries) |-> ReceiptOf(i)]
  <1>2. f \in Bijection(1..Len(entries), receipts)
    BY <1>1 DEF Bijection, Injection, Surjection, IsInjective, Tables, ReceiptOf
  <1>3. IsFiniteSet(1..Len(entries)) /\ Cardinality(1..Len(entries)) = Len(entries)
    <2>1. /\ IsFiniteSet(1..Len(entries))
          /\ Cardinality(1..Len(entries)) =
               IF 1 > Len(entries) THEN 0 ELSE Len(entries) - 1 + 1
      BY <1>1, FS_Interval, SMT
    <2> QED BY <1>1, <2>1
  <1> HIDE DEF f
  <1>4. ExistsBijection(1..Len(entries), receipts)
    BY <1>2 DEF ExistsBijection
  <1> QED BY <1>3, <1>4, FS_Bijection

(* No sequence of appends, races, repetitions, lost answers, deaths and    *)
(* imports leaves stream, entries and receipts in a state that a snapshot  *)
(* refuses: nobody ever meets the storage error of SqlLedger._snapshot.    *)
THEOREM StaysReadable == Spec => []StoreStaysReadable
  <1>1. ASSUME TypeOK, Tables PROVE Verified
    <2>1. \A i \in DOMAIN entries :
            ReceiptOf(i) \in ReceiptsOf(entries[i].op) /\ ReceiptOf(i).sequence = i
            /\ ReceiptOf(i).request = entries[i].request
      <3> TAKE i \in DOMAIN entries
      <3>1. ReceiptOf(i) \in receipts
        BY <1>1 DEF Tables
      <3>2. /\ ReceiptOf(i).sequence = i
            /\ ReceiptOf(i).request = entries[i].request
            /\ ReceiptOf(i).op = entries[i].op
        BY DEF ReceiptOf
      <3>3. ReceiptOf(i) \in {r \in receipts : r.op = entries[i].op}
        BY <3>1, <3>2
      <3> QED BY <3>2, <3>3 DEF ReceiptsOf
    <2>2. \A i \in DOMAIN entries : \E r \in ReceiptsOf(entries[i].op) :
            /\ r.sequence = i
            /\ r.request = entries[i].request
            /\ r.request.draft = entries[i].draft
            /\ r.request.expected \subseteq {DigestAt(i - 1)}
      <3> TAKE i \in DOMAIN entries
      <3>1. entries[i].request.draft = entries[i].draft
            /\ entries[i].request.expected \subseteq {DigestAt(i - 1)}
        BY <1>1 DEF Tables
      <3> QED BY <2>1, <3>1
    <2> QED BY <1>1, <2>2, ReceiptsCounted DEF Verified, Tables
  <1>2. IInv => StoreStaysReadable
    BY <1>1 DEF IInv, StoreStaysReadable
  <1> QED BY <1>2, Invariant, PTL

-----------------------------------------------------------------------------
(* The tables as the log of LedgerLog.                                     *)
SqlPortVars == <<Drafts, Answered, known, Wanted>>

WantOf(q) == {[draft |-> q.draft, expected |-> q.expected]}

DraftsOK ==
  /\ Drafts \in Seq(Draft) /\ Len(Drafts) = Len(entries) /\ Len(entries) \in Nat
  /\ DOMAIN Drafts = DOMAIN entries /\ DOMAIN entries = 1..Len(entries)
  /\ \A i \in DOMAIN entries : Drafts[i] = entries[i].draft
  /\ \A n \in 0..Len(entries) : SubSeq(Drafts, 1, n) = DigestAt(n)

LEMMA DraftsAre == TypeOK => DraftsOK
  <1> SUFFICES ASSUME TypeOK PROVE DraftsOK
    OBVIOUS
  <1>1. entries \in Seq(Entry) /\ Len(entries) \in Nat /\ DOMAIN entries = 1..Len(entries)
    BY DEF TypeOK
  <1>2. ASSUME NEW i \in DOMAIN entries PROVE entries[i].draft \in Draft
    <2>1. entries[i] \in Entry
      BY <1>1
    <2> QED
      BY <2>1 DEF Entry
  <1>3. Drafts = [i \in 1..Len(entries) |-> entries[i].draft]
    BY DEF Drafts, DigestAt
  <1>4. Drafts \in Seq(Draft) /\ Len(Drafts) = Len(entries) /\ DOMAIN Drafts = 1..Len(entries)
    BY <1>1, <1>2, <1>3
  <1>5. \A i \in DOMAIN entries : Drafts[i] = entries[i].draft
    BY <1>1, <1>3
  <1>6. ASSUME NEW n \in 0..Len(entries) PROVE SubSeq(Drafts, 1, n) = DigestAt(n)
    <2>1. n \in Nat /\ n <= Len(Drafts) /\ 1..n \subseteq 1..Len(entries)
      BY <1>1, <1>4
    <2>2. SubSeq(Drafts, 1, n) = [i \in 1..n |-> Drafts[i]]
      BY <1>4, <2>1
    <2>3. \A i \in 1..n : Drafts[i] = entries[i].draft
      BY <1>1, <1>5, <2>1
    <2> QED BY <2>2, <2>3 DEF DigestAt
  <1> QED BY <1>1, <1>4, <1>5, <1>6 DEF DraftsOK

LEMMA DraftsAreHead == IInv => Drafts = head
  BY DEF IInv, Tables, Drafts

(* A caller waits for one append at most, and only its own calls change    *)
(* what it waits for.                                                      *)
LEMMA WantedMoves ==
  ASSUME TypeOK, NEW c \in Caller, NEW work, Becomes(c, work)
  PROVE  Wanted' = [Wanted EXCEPT ![c] = Wanted'[c]]
  <1>1. \A d \in Caller \ {c} : calls'[d] = calls[d]
    BY DEF TypeOK, Becomes
  <1>2. \A d \in Caller \ {c} : Wanted'[d] = Wanted[d]
    BY <1>1 DEF Wanted, InDoubt, AtIdle
  <1> QED BY <1>2 DEF Wanted

LEMMA WantedAtWork ==
  ASSUME NEW c \in Caller
  PROVE  ~ AtIdle(c) => Wanted[c] = WantOf(calls[c].request)
  BY DEF Wanted, InDoubt, WantOf

LEMMA NothingWanted ==
  ASSUME TypeOK, NEW c \in Caller,
         \/ Becomes(c, Idle)
         \/ \E e \in {"conflict", "head_changed"} : \E q : Raise(c, e, q)
         \/ \E q, l, b : Becomes(c, [at |-> "idle", error |-> "head_changed", request |-> q,
                                     lost |-> l, began |-> b])
  PROVE  Wanted' = [Wanted EXCEPT ![c] = {}]
  <1>1. PICK work : Becomes(c, work)
    BY DEF Raise
  <1>2. calls'[c].at = "idle" /\ ("error" \in DOMAIN calls'[c] => calls'[c].error # "storage")
    <2>1. CASE Becomes(c, Idle)
      <3>1. calls'[c] = Idle
        BY <2>1 DEF Becomes, TypeOK
      <3>2. DOMAIN Idle = {"at"} /\ Idle.at = "idle"
        BY DEF Idle
      <3> QED BY <3>1, <3>2
    <2>2. ASSUME NEW e \in {"conflict", "head_changed"}, NEW q, Raise(c, e, q)
          PROVE  calls'[c].at = "idle" /\ calls'[c].error # "storage"
      <3>1. calls'[c] = [at |-> "idle", error |-> e, request |-> q]
        BY <2>2 DEF Raise, Becomes, TypeOK
      <3> QED BY <3>1
    <2>3. ASSUME NEW q, NEW l, NEW b,
                 Becomes(c, [at |-> "idle", error |-> "head_changed", request |-> q,
                             lost |-> l, began |-> b])
          PROVE  calls'[c].at = "idle" /\ calls'[c].error # "storage"
      <3>1. calls'[c] = [at |-> "idle", error |-> "head_changed", request |-> q,
                         lost |-> l, began |-> b]
        BY <2>3 DEF Becomes, TypeOK
      <3> QED BY <3>1
    <2> QED BY <2>1, <2>2, <2>3
  <1>3. Wanted'[c] = {}
    BY <1>2 DEF Wanted, InDoubt, AtIdle
  <1> QED BY <1>1, <1>3, WantedMoves

(* The last entry that was answered.                                       *)
LastOf(A) ==
  IF A = {} THEN 0
  ELSE CHOOSE k \in {a.sequence : a \in A} : \A a \in A : a.sequence <= k

LEMMA LastAnswer ==
  ASSUME NEW A, NEW n \in Nat, \A a \in A : a.sequence \in 0..n
  PROVE  /\ LastOf(A) \in Nat
         /\ \A a \in A : a.sequence <= LastOf(A)
         /\ A # {} => \E a \in A : a.sequence = LastOf(A)
  <1> DEFINE N == {a.sequence : a \in A}
  <1>1. CASE A = {}
    BY <1>1 DEF LastOf
  <1>2. CASE A # {}
    <2>1. N \in SUBSET (0..n) /\ N # {}
      BY <1>2
    <2>2. PICK k \in N : \A y \in N : y <= k
      <3> HIDE DEF N
      <3> QED BY <2>1, GreatestOf
    <2>3. \E y \in N : \A a \in A : a.sequence <= y
      BY <2>2
    <2>4. LastOf(A) = CHOOSE y \in N : \A a \in A : a.sequence <= y
      BY <1>2 DEF LastOf
    <2>5. LastOf(A) \in N /\ \A a \in A : a.sequence <= LastOf(A)
      <3> HIDE DEF N
      <3> QED BY <2>3, <2>4
    <2>6. LastOf(A) \in Nat
      BY <2>1, <2>5
    <2> QED BY <2>5, <2>6
  <1> QED BY <1>1, <1>2

LEMMA NewAnswer ==
  ASSUME TypeOK, Backed, TypeOK', Backed', NEW q, NEW i \in Nat,
         answers' = answers \cup {[request |-> q, sequence |-> i]}
  PROVE  Answered' = IF i > Answered THEN i ELSE Answered
  <1> DEFINE new == [request |-> q, sequence |-> i]
  <1>1. Answered = LastOf(answers) /\ Answered' = LastOf(answers')
    BY DEF Answered, LastOf
  <1>2. /\ LastOf(answers) \in Nat
        /\ \A a \in answers : a.sequence <= LastOf(answers)
        /\ answers # {} => \E a \in answers : a.sequence = LastOf(answers)
    <2>1. Len(entries) \in Nat /\ \A a \in answers : a.sequence \in 0..Len(entries)
      BY DEF TypeOK, Backed
    <2> QED BY <2>1, LastAnswer
  <1>3. /\ LastOf(answers') \in Nat
        /\ \A a \in answers' : a.sequence <= LastOf(answers')
        /\ answers' # {} => \E a \in answers' : a.sequence = LastOf(answers')
    <2>1. Len(entries') \in Nat /\ \A a \in answers' : a.sequence \in 0..Len(entries')
      BY DEF TypeOK, Backed
    <2> QED BY <2>1, LastAnswer
  <1>4. new \in answers' /\ new.sequence = i
    OBVIOUS
  <1>5. answers = {} => LastOf(answers) = 0
    BY DEF LastOf
  <1>6. \A a \in answers' : a = new \/ a \in answers
    OBVIOUS
  <1>7. answers \subseteq answers'
    OBVIOUS
  <1> HIDE DEF new
  <1>8. i <= LastOf(answers') /\ answers' # {}
    BY <1>3, <1>4
  <1>9. LastOf(answers) <= LastOf(answers')
    <2>1. CASE answers = {}
      BY <1>3, <1>5, <2>1
    <2>2. CASE answers # {}
      BY <1>2, <1>3, <1>7, <2>2
    <2> QED BY <2>1, <2>2
  <1>10. LastOf(answers') = i \/ LastOf(answers') <= LastOf(answers)
    <2>1. PICK a \in answers' : a.sequence = LastOf(answers')
      BY <1>3, <1>8
    <2>2. CASE a = new
      BY <1>4, <2>1, <2>2
    <2>3. CASE a \in answers
      BY <1>2, <2>1, <2>3
    <2> QED BY <1>6, <2>2, <2>3
  <1>11. LastOf(answers') = IF i > LastOf(answers) THEN i ELSE LastOf(answers)
    BY <1>2, <1>3, <1>8, <1>9, <1>10
  <1> QED BY <1>1, <1>11

(* An entry is returned to its caller, recorded with the answer or before. *)
LEMMA ReturnAcknowledges ==
  ASSUME IInv, IInv', NEW c \in Caller, ~ AtIdle(c), NEW i \in DOMAIN entries',
         entries'[i].request = calls[c].request,
         Return(c, calls[c].request, i, entries'),
         \/ UNCHANGED entries
         \/ /\ calls[c].request.expected \subseteq {Drafts}
            /\ Drafts' = Append(Drafts, calls[c].request.draft)
  PROVE  SqlPort!Acknowledge(c)
  <1> DEFINE q == calls[c].request
             a == [draft |-> q.draft, expected |-> q.expected]
  <1>1. TypeOK /\ TypeOK' /\ Backed /\ Backed'
    BY DEF IInv
  <1>2. DraftsOK'
    BY <1>1, DraftsAre, PTL
  <1>3. i \in Nat /\ i \in 0..Len(entries') /\ i - 1 \in 0..Len(entries')
    <2>1. Len(entries') \in Nat /\ i \in 1..Len(entries')
      BY <1>2 DEF DraftsOK
    <2> QED BY <2>1
  <1>4. Wanted[c] = {a}
    BY WantedAtWork DEF WantOf
  <1>5. Wanted' = [Wanted EXCEPT ![c] = {}]
    BY <1>1, NothingWanted DEF Return
  <1>6. Drafts'[i] = a.draft /\ a.expected \subseteq {SubSeq(Drafts', 1, i - 1)}
    <2>1. entries'[i].draft = q.draft /\ q.expected \subseteq {DigestAt(i - 1)'}
      BY DEF IInv, Tables
    <2> QED BY <1>2, <1>3, <2>1 DEF DraftsOK
  <1>7. known' = [known EXCEPT ![c] = SubSeq(Drafts', 1, i)]
    <2>1. known' = [known EXCEPT ![c] = [j \in 1..i |-> entries'[j].draft]]
      BY DEF Return
    <2>2. DigestAt(i)' = [j \in 1..i |-> entries'[j].draft]
      BY DEF DigestAt
    <2> QED BY <1>2, <1>3, <2>1, <2>2 DEF DraftsOK
  <1>8. Answered' = IF i > Answered THEN i ELSE Answered
    BY <1>1, <1>3, NewAnswer DEF Return
  <1>9. SqlPort!TakesEffect(a) \/ UNCHANGED Drafts
    <2>1. CASE UNCHANGED entries
      BY <2>1 DEF Drafts, DigestAt
    <2>2. CASE /\ q.expected \subseteq {Drafts}
               /\ Drafts' = Append(Drafts, q.draft)
      BY <2>2 DEF SqlPort!TakesEffect
    <2> QED BY <2>1, <2>2
  <1>10. i \in DOMAIN Drafts'
    BY <1>2 DEF DraftsOK
  <1> HIDE DEF a, q
  <1> QED BY <1>4, <1>5, <1>6, <1>7, <1>8, <1>9, <1>10 DEF SqlPort!Acknowledge

(* A batch that inserts makes its append take effect.                      *)
LEMMA InsertTakesEffect ==
  ASSUME IInv, NEW c \in Caller, Writing(c), Execute(c), Inserts(c)
  PROVE  /\ calls[c].request.expected \subseteq {Drafts}
         /\ Drafts' = Append(Drafts, calls[c].request.draft)
  <1>1. Drafts = head
    BY DraftsAreHead
  <1>2. Drafts' = head'
    <2>1. Tables'
      BY Executed
    <2> QED BY <2>1 DEF Tables, Drafts
  <1>3. head' = Append(head, calls[c].request.draft)
    BY DEF Execute
  <1>4. calls[c].request.expected \subseteq {head}
    BY DEF IInv, Placed, Inserts
  <1> QED BY <1>1, <1>2, <1>3, <1>4

LEMMA BeginAsks ==
  ASSUME IInv, NEW c \in Caller, NEW op \in OperationId, NEW d \in Draft,
         NEW p \in Principal, NEW e \in BOOLEAN, Begin(c, op, d, p, e)
  PROVE  SqlPort!Ask(c)
  <1> DEFINE heads == IF e THEN {known[c]} ELSE {}
             q == [op |-> op, draft |-> d, principal |-> p, expected |-> heads]
             work == [at |-> "read", request |-> q, tries |-> 0, began |-> Len(entries)]
  <1>1. Becomes(c, work) /\ UNCHANGED <<store, known, answers>>
    BY DEF Begin, Enter
  <1>2. TypeOK
    BY DEF IInv
  <1>3. calls'[c].at = "read" /\ calls'[c].request = q
    <2>1. calls'[c] = work
      BY <1>1, <1>2 DEF Becomes, TypeOK
    <2> QED BY <2>1
  <1>4. Wanted'[c] = {[draft |-> d, expected |-> heads]}
    <2>1. q.draft = d /\ q.expected = heads
      OBVIOUS
    <2> HIDE DEF q, heads
    <2> QED BY <1>3, <2>1 DEF Wanted, InDoubt, AtIdle
  <1>5. Wanted' = [Wanted EXCEPT ![c] = {[draft |-> d, expected |-> heads]}]
    <2>1. Wanted' = [Wanted EXCEPT ![c] = Wanted'[c]]
      BY <1>1, <1>2, WantedMoves
    <2> QED BY <1>4, <2>1
  <1>6. heads \in {{}, {known[c]}}
    OBVIOUS
  <1>7. UNCHANGED <<Drafts, Answered>>
    BY <1>1 DEF Drafts, DigestAt, Answered, store
  <1> HIDE DEF heads
  <1> QED BY <1>1, <1>5, <1>6, <1>7 DEF SqlPort!Ask

(* The steps of a call that is in doubt and remains so.                    *)
LEMMA StillWanted ==
  ASSUME TypeOK, NEW c \in Caller, InDoubt(c), InDoubt(c)',
         NEW work, Becomes(c, work), work.request = calls[c].request
  PROVE  Wanted' = Wanted
  <1>1. calls'[c] = work
    BY DEF Becomes, TypeOK
  <1>2. Wanted'[c] = Wanted[c]
    BY <1>1 DEF Wanted
  <1>3. Wanted' = [Wanted EXCEPT ![c] = Wanted'[c]]
    BY WantedMoves
  <1> QED BY <1>2, <1>3 DEF Wanted

LEMMA WaitingSteps ==
  ASSUME IInv, NEW c \in Caller, Repeat(c) \/ Compile(c) \/ Retry(c)
  PROVE  UNCHANGED SqlPortVars
  <1>1. TypeOK /\ UNCHANGED <<store, known, answers>>
    BY DEF IInv, Repeat, Enter, Compile, Retry
  <1>2. InDoubt(c)
    BY DEF Repeat, Compile, Retry, LostRace, InDoubt, AtIdle, Reading, Writing
  <1>3. PICK work : /\ Becomes(c, work) /\ work.request = calls[c].request
                    /\ work.at \in {"read", "write"}
    <2>1. CASE Repeat(c)
      <3> DEFINE w == [at |-> "read", request |-> calls[c].request, tries |-> 0,
                       began |-> Len(entries)]
      <3>1. Becomes(c, w)
        BY <2>1 DEF Repeat, Enter
      <3> QED BY <3>1
    <2>2. CASE Compile(c)
      <3> DEFINE w == [at |-> "write", request |-> calls[c].request, tries |-> calls[c].tries,
                       began |-> calls[c].began, seen |-> head]
      <3>1. Becomes(c, w)
        BY <2>2 DEF Compile
      <3> QED BY <3>1
    <2>3. CASE Retry(c)
      <3> DEFINE w == [at |-> "read", request |-> calls[c].request,
                       tries |-> calls[c].tries + 1, began |-> calls[c].began]
      <3>1. Becomes(c, w)
        BY <2>3 DEF Retry
      <3> QED BY <3>1
    <2> QED BY <2>1, <2>2, <2>3
  <1>4. InDoubt(c)'
    <2>1. calls'[c] = work
      BY <1>1, <1>3 DEF Becomes, TypeOK
    <2> QED BY <1>3, <2>1 DEF InDoubt, AtIdle
  <1>5. Wanted' = Wanted
    BY <1>1, <1>2, <1>3, <1>4, StillWanted
  <1>6. UNCHANGED <<Drafts, Answered>>
    BY <1>1 DEF Drafts, DigestAt, Answered, store
  <1> QED BY <1>1, <1>5, <1>6 DEF SqlPortVars

LEMMA RefusedDrops ==
  ASSUME IInv, NEW c \in Caller, UNCHANGED <<store, known, answers>>,
         \/ \E e \in {"conflict", "head_changed"} : Raise(c, e, calls[c].request)
         \/ GiveUp(c)
  PROVE  SqlPort!Drop(c)
  <1>1. TypeOK
    BY DEF IInv
  <1>2. Wanted' = [Wanted EXCEPT ![c] = {}]
    BY <1>1, NothingWanted DEF GiveUp
  <1>3. UNCHANGED <<Drafts, Answered>>
    BY DEF Drafts, DigestAt, Answered, store
  <1> QED BY <1>2, <1>3 DEF SqlPort!Drop

LEMMA RecogniseAnswers ==
  ASSUME IInv, IInv', NEW c \in Caller, Recognise(c)
  PROVE  SqlPort!Acknowledge(c) \/ SqlPort!Drop(c)
  <1> DEFINE q == calls[c].request
  <1>1. UNCHANGED store /\ ~ AtIdle(c) /\ entries' = entries
    BY DEF Recognise, Reading, AtIdle, store
  <1>2. PICK i \in OnRecord(q) :
          IF entries[i].request = q
          THEN Return(c, q, i, entries)
          ELSE Raise(c, "conflict", q) /\ UNCHANGED <<known, answers>>
    BY DEF Recognise
  <1>3. i \in DOMAIN entries'
    BY <1>1 DEF OnRecord
  <1>4. CASE entries[i].request = q
    <2>1. Return(c, q, i, entries') /\ entries'[i].request = q
      BY <1>1, <1>2, <1>4
    <2> QED BY <1>1, <1>3, <2>1, ReturnAcknowledges
  <1>5. CASE entries[i].request # q
    <2>1. Raise(c, "conflict", q) /\ UNCHANGED <<known, answers>>
      BY <1>2, <1>5
    <2> QED BY <1>1, <2>1, RefusedDrops
  <1> QED BY <1>4, <1>5

(* A batch whose receipt is that of another request inserted nothing.      *)
LEMMA AcceptedAnswers ==
  ASSUME IInv, IInv', NEW c \in Caller, Accepted(c)
  PROVE  SqlPort!Acknowledge(c) \/ SqlPort!Drop(c)
  <1> DEFINE q == calls[c].request
  <1>1. Writing(c) /\ ~ AtIdle(c) /\ Execute(c)
    BY DEF Accepted, Writing, AtIdle
  <1>2. PICK r \in receipts' : r.op = q.op /\
          IF r.request = q
          THEN Return(c, q, r.sequence, entries')
          ELSE Raise(c, "conflict", q) /\ UNCHANGED <<known, answers>>
    BY DEF Accepted
  <1>3. /\ r.sequence \in DOMAIN entries'
        /\ entries'[r.sequence].request = r.request
        /\ entries'[r.sequence].op = r.op
    <2>1. receipts' = {[op |-> entries'[i].op, request |-> entries'[i].request,
                        sequence |-> i] : i \in DOMAIN entries'}
      BY DEF IInv, Tables, ReceiptOf
    <2> QED BY <1>2, <2>1
  <1>4. \/ UNCHANGED store
        \/ /\ Inserts(c)
           /\ q.expected \subseteq {Drafts}
           /\ Drafts' = Append(Drafts, q.draft)
    <2>1. CASE Inserts(c)
      BY <1>1, <2>1, InsertTakesEffect
    <2>2. CASE ~ Inserts(c)
      BY <1>1, <2>2 DEF Execute
    <2> QED BY <2>1, <2>2
  <1>5. CASE r.request = q
    <2>1. Return(c, q, r.sequence, entries') /\ entries'[r.sequence].request = q
      BY <1>2, <1>3, <1>5
    <2>2. UNCHANGED store => UNCHANGED entries
      BY DEF store
    <2> QED BY <1>1, <1>3, <1>4, <2>1, <2>2, ReturnAcknowledges
  <1>6. CASE r.request # q
    <2>1. Raise(c, "conflict", q) /\ UNCHANGED <<known, answers>>
      BY <1>2, <1>6
    <2>2. ~ Inserts(c)
      <3>1. ASSUME Inserts(c) PROVE FALSE
        <4> DEFINE n == Len(entries) + 1
        <4>1. /\ n \in DOMAIN entries' /\ entries'[n] = Row(q)
          <5>1. entries \in Seq(Entry) /\ entries' \in Seq(Entry)
            BY DEF IInv, TypeOK
          <5>2. entries' = Append(entries, Row(q))
            BY <1>1, <3>1 DEF Execute
          <5> QED BY <5>1, <5>2
        <4>2. entries'[n].op = q.op /\ entries'[n].request = q
          BY <4>1 DEF Row
        <4>3. r.sequence = n
          BY <1>2, <1>3, <4>1, <4>2 DEF IInv, Tables
        <4> QED BY <1>3, <1>6, <4>2, <4>3
      <3> QED BY <3>1
    <2>3. UNCHANGED store
      BY <1>1, <2>2 DEF Execute
    <2> QED BY <2>1, <2>3, RefusedDrops
  <1> QED BY <1>5, <1>6

(* A caller that is told of a failure has recorded something or nothing.   *)
LEMMA FailRecords ==
  ASSUME IInv, NEW c \in Caller, Fail(c)
  PROVE  SqlPort!Record(c) \/ UNCHANGED SqlPortVars
  <1> DEFINE q == calls[c].request
             work == [at |-> "idle", error |-> "storage", request |-> q]
  <1>1. /\ ~ AtIdle(c) /\ UNCHANGED <<known, answers>>
        /\ UNCHANGED store \/ (Writing(c) /\ Execute(c))
        /\ Becomes(c, work) /\ TypeOK
    BY DEF Fail, Raise, IInv
  <1>2. calls'[c] = work
    BY <1>1 DEF Becomes, TypeOK
  <1>3. InDoubt(c) /\ InDoubt(c)'
    <2>1. "error" \in DOMAIN work /\ work.error = "storage"
      OBVIOUS
    <2> HIDE DEF work
    <2> QED BY <1>1, <1>2, <2>1 DEF InDoubt
  <1>4. Wanted' = Wanted
    <2>1. work.request = q
      OBVIOUS
    <2> HIDE DEF work
    <2> QED BY <1>1, <1>3, <2>1, StillWanted
  <1>5. UNCHANGED Answered
    BY <1>1 DEF Answered
  <1>6. CASE UNCHANGED store
    <2>1. UNCHANGED Drafts
      BY <1>6 DEF Drafts, DigestAt, store
    <2> QED BY <1>1, <1>4, <1>5, <2>1 DEF SqlPortVars
  <1>7. CASE Writing(c) /\ Execute(c) /\ Inserts(c)
    <2> DEFINE a == [draft |-> q.draft, expected |-> q.expected]
    <2>1. Wanted[c] = {a}
      BY <1>1, WantedAtWork DEF WantOf
    <2>2. a.expected \subseteq {Drafts} /\ Drafts' = Append(Drafts, a.draft)
      BY <1>7, InsertTakesEffect
    <2> HIDE DEF a
    <2>3. SqlPort!TakesEffect(a)
      BY <2>2 DEF SqlPort!TakesEffect
    <2> QED BY <1>1, <1>4, <1>5, <2>1, <2>3 DEF SqlPort!Record
  <1>8. CASE Execute(c) /\ ~ Inserts(c)
    <2>1. UNCHANGED store
      BY <1>8 DEF Execute
    <2> QED BY <1>6, <2>1
  <1> QED BY <1>1, <1>6, <1>7, <1>8

LEMMA OthersPort ==
  ASSUME IInv, IInv', UNCHANGED <<calls, answers>>
  PROVE  /\ Import => SqlPort!Import
         /\ \A c \in Caller : Look(c) => SqlPort!Look(c)
         /\ UNCHANGED <<store, known>> => UNCHANGED SqlPortVars
  <1>1. Wanted' = Wanted
    BY DEF Wanted, InDoubt, AtIdle
  <1>2. UNCHANGED Answered
    BY DEF Answered
  <1>3. UNCHANGED store => UNCHANGED Drafts
    BY DEF store, Drafts, DigestAt
  <1>4. ASSUME Import PROVE SqlPort!Import
    <2>1. Drafts = head /\ DraftsOK'
      BY DraftsAreHead, DraftsAre, PTL DEF IInv
    <2>2. Drafts = <<>> /\ Drafts' \in Seq(Draft) /\ known' = known
      BY <1>4, <2>1 DEF Import, DraftsOK
    <2> QED BY <1>1, <1>2, <2>2 DEF SqlPort!Import
  <1>5. ASSUME NEW c \in Caller, Look(c) PROVE SqlPort!Look(c)
    <2>1. Drafts = head
      BY DraftsAreHead
    <2>2. known' = [known EXCEPT ![c] = head] /\ UNCHANGED store
      BY <1>5 DEF Look
    <2> QED BY <1>1, <1>2, <1>3, <2>1, <2>2 DEF SqlPort!Look
  <1> QED BY <1>1, <1>2, <1>3, <1>4, <1>5 DEF SqlPortVars

(* The tables behind their service are the log that LedgerLog promises to  *)
(* all callers: an append takes effect once its batch inserts, behind the  *)
(* head it named, and an answer, also one that was asked for again, names  *)
(* an entry that did.                                                      *)
THEOREM TablesAreALog == Spec => SqlPort!Spec
  <1>1. Init => SqlPort!Init
    <2>1. SUFFICES ASSUME Init PROVE SqlPort!Init
      OBVIOUS
    <2>2. entries = <<>> /\ answers = {} /\ known = [c \in Caller |-> <<>>]
          /\ calls = [c \in Caller |-> Idle]
      BY <2>1 DEF Init
    <2>3. Drafts = <<>>
      BY <2>2 DEF Drafts, DigestAt
    <2>4. Wanted = [c \in Caller |-> {}]
      <3>1. \A c \in Caller : ~ InDoubt(c)
        BY <2>2 DEF InDoubt, AtIdle, Idle
      <3> QED BY <3>1 DEF Wanted
    <2> QED BY <2>2, <2>3, <2>4 DEF SqlPort!Init, Answered
  <1>2. IInv /\ IInv' /\ [Next]_vars => [SqlPort!Next]_<<Drafts, Answered, known, Wanted>>
    <2>1. SUFFICES ASSUME IInv, IInv', [Next]_vars
                   PROVE  SqlPort!Next \/ UNCHANGED SqlPortVars
      BY DEF SqlPortVars
    <2>2. CASE Import
      BY <2>1, <2>2, OthersPort DEF Import, SqlPort!Next
    <2>3. ASSUME NEW c \in Caller,
                 \E op \in OperationId, d \in Draft, p \in Principal, e \in BOOLEAN :
                   Begin(c, op, d, p, e)
          PROVE  SqlPort!Next
      <3>1. SqlPort!Ask(c)
        BY <2>1, <2>3, BeginAsks
      <3> QED BY <3>1 DEF SqlPort!Next
    <2>4. ASSUME NEW c \in Caller, Repeat(c) \/ Compile(c) \/ Retry(c)
          PROVE  UNCHANGED SqlPortVars
      BY <2>1, <2>4, WaitingSteps
    <2>5. ASSUME NEW c \in Caller, HeadMoved(c) \/ GiveUp(c)
          PROVE  SqlPort!Next
      <3>1. UNCHANGED <<store, known, answers>>
        BY <2>5 DEF HeadMoved, GiveUp
      <3>2. SqlPort!Drop(c)
        BY <2>1, <2>5, <3>1, RefusedDrops DEF HeadMoved
      <3> QED BY <3>2 DEF SqlPort!Next
    <2>6. ASSUME NEW c \in Caller, Recognise(c) \/ Accepted(c)
          PROVE  SqlPort!Next
      <3>1. SqlPort!Acknowledge(c) \/ SqlPort!Drop(c)
        BY <2>1, <2>6, RecogniseAnswers, AcceptedAnswers
      <3> QED BY <3>1 DEF SqlPort!Next
    <2>7. ASSUME NEW c \in Caller, Fail(c)
          PROVE  SqlPort!Next \/ UNCHANGED SqlPortVars
      <3>1. SqlPort!Record(c) \/ UNCHANGED SqlPortVars
        BY <2>1, <2>7, FailRecords
      <3> QED BY <3>1 DEF SqlPort!Next
    <2>8. ASSUME NEW c \in Caller, Look(c)
          PROVE  SqlPort!Next
      <3>1. SqlPort!Look(c)
        BY <2>1, <2>8, OthersPort DEF Look
      <3> QED BY <3>1 DEF SqlPort!Next
    <2>9. ASSUME NEW c \in Caller, Page(c)
          PROVE  UNCHANGED SqlPortVars
      BY <2>1, <2>9, OthersPort DEF Page
    <2>10. CASE UNCHANGED vars
      BY <2>1, <2>10, OthersPort DEF vars, store
    <2> QED BY <2>1, <2>2, <2>3, <2>4, <2>5, <2>6, <2>7, <2>8, <2>9, <2>10 DEF Next
  <1> QED BY <1>1, <1>2, Invariant, PTL DEF Spec, SqlPort!Spec
-----------------------------------------------------------------------------
(* Exactly once: whatever is lost and repeated, answers to one operation   *)
(* id are one answer, which names the record of its own request; what a    *)
(* caller has paged through is the log from its beginning; and this log is *)
(* the one of LedgerLog.                                                   *)
THEOREM OneLog == Spec => CallersSeeOneLog
  <1>1. ASSUME IInv PROVE AnswersAgree
    <2>1. \A a \in answers : /\ a.sequence \in DOMAIN entries
                             /\ entries[a.sequence].request = a.request
      BY <1>1 DEF IInv, Backed
    <2>2. ASSUME NEW a \in answers, NEW b \in answers, a.request.op = b.request.op
          PROVE  a = b
      <3>1. entries[a.sequence].op = entries[b.sequence].op
        BY <1>1, <2>1, <2>2 DEF IInv, Tables
      <3>2. a.sequence = b.sequence
        BY <1>1, <2>1, <3>1 DEF IInv, Tables
      <3>3. a.request = b.request
        BY <2>1, <3>2
      <3>4. /\ a = [request |-> a.request, sequence |-> a.sequence]
            /\ b = [request |-> b.request, sequence |-> b.sequence]
        BY <1>1 DEF IInv, TypeOK
      <3> QED BY <3>2, <3>3, <3>4
    <2> QED BY <2>1, <2>2 DEF AnswersAgree
  <1>2. ASSUME IInv PROVE PagesAreTheLog
    <2>1. SUFFICES ASSUME NEW c \in Caller
                   PROVE  IsPrefix(pages[c].records, entries)
      BY DEF PagesAreTheLog
    <2>2. /\ pages[c].records \in Seq(Entry) /\ entries \in Seq(Entry)
          /\ Len(pages[c].records) <= Len(entries)
          /\ \A i \in DOMAIN pages[c].records : pages[c].records[i] = entries[i]
      BY <1>2 DEF IInv, TypeOK, Paged
    <2>3. SubSeq(entries, 1, Len(pages[c].records)) = pages[c].records
      BY <2>2
    <2> QED BY <2>2, <2>3 DEF IsPrefix
  <1>3. IInv => AnswersAgree /\ PagesAreTheLog
    BY <1>1, <1>2
  <1> QED BY <1>3, Invariant, TablesAreALog, PTL DEF CallersSeeOneLog

(* A call that gave up lost each of its attempts to an entry of somebody   *)
(* else that was recorded after the call had begun.                        *)
THEOREM RacesAreProgress == Spec => []LostRacesAreProgress
  <1>1. IInv => LostRacesAreProgress
    BY DEF IInv, Placed, LostRacesAreProgress
  <1> QED BY <1>1, Invariant, PTL
=============================================================================
