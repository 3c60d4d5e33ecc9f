---------------------------- MODULE JsonlLedger ----------------------------
(***************************************************************************)
(* adapters/jsonl_ledger.py: the hash-chained ledger file that processes   *)
(* share under flock.  An append opens the file, waits for the exclusive   *)
(* lock, reads and validates every line, writes one record and its         *)
(* newline, flushes, calls fsync and returns; closing the file gives up    *)
(* the lock.  A process may die and a write or fsync may fail at any of    *)
(* those steps, and the machine may lose what was not synchronised.        *)
(*                                                                         *)
(* The file is a sequence of records, newlines and fragments of records.   *)
(* The digest of a record covers its sequence number, its content and the  *)
(* digest before it, so it stands for the contents up to the record: a     *)
(* record is its content and the contents before it, and the digest of     *)
(* the head is the sequence of all contents (empty at the genesis).        *)
(***************************************************************************)
EXTENDS Naturals, Sequences, FiniteSets

CONSTANTS
  Process,            \* processes with a JsonlLedger on this path
  Body,               \* contents: kind, entity, payload and time of a record
  Newline, Fragment,
  NoCall,
  MaxRecords,         \* bound: no append begins once the file has this many
  MaxFaults           \* bound on failing writes and syncs and power losses

Log == Seq(Body)

Record == [previous : Log, body : Body]

Token == Record \cup {Newline, Fragment}

Op == {"append", "append_if_head", "entries"}

(* expected is the digest a compare-and-append asks for, previous that of  *)
(* the head an append has read.                                            *)
FileCall == [op : Op, body : Body, expected : Log, previous : Log]

Pc == {"idle", "lock", "read", "write", "sync"}

ASSUME TokenAssumption ==
  /\ Newline # Fragment
  /\ Newline \notin Record /\ Fragment \notin Record
  /\ NoCall \notin FileCall
  /\ MaxRecords \in Nat /\ MaxFaults \in Nat

VARIABLES
  file,       \* what a reader of the file sees
  synced,     \* how much of it survives a power loss
  view,       \* the digest of the head as each process last saw it
  acked,      \* the records whose append has returned
  faults,     \* failures so far
  pc, call    \* where each process is, and in which call

fileVars == <<file, synced, view, acked, faults, pc, call>>

FileInit ==
  /\ file = <<>>
  /\ synced = 0
  /\ view = [p \in Process |-> <<>>]
  /\ acked = {}
  /\ faults = 0
  /\ pc = [p \in Process |-> "idle"]
  /\ call = [p \in Process |-> NoCall]
-----------------------------------------------------------------------------
(* The lines of a file in order; a last line may lack its newline.         *)
Lines(f) == (Len(f) + 1) \div 2

(* _read_locked: every line is one record that continues the chain.        *)
Readable(f) ==
  /\ \A i \in 1..Len(f) : i % 2 = 0 => f[i] = Newline
  /\ \A n \in 1..Lines(f) :
       /\ f[2 * n - 1] \in Record
       /\ f[2 * n - 1].previous = [m \in 1..(n - 1) |-> f[2 * m - 1].body]

(* The contents of a readable file, and with them the digest of its head.  *)
Contents(f) == [n \in 1..Lines(f) |-> f[2 * n - 1].body]

Close(p) ==
  /\ pc' = [pc EXCEPT ![p] = "idle"]
  /\ call' = [call EXCEPT ![p] = NoCall]

(* Which head append_if_head expects is up to the caller: the last it saw. *)
Open(p, op, d) ==
  /\ pc[p] = "idle"
  /\ Lines(file) < MaxRecords
  /\ pc' = [pc EXCEPT ![p] = "lock"]
  /\ call' = [call EXCEPT ![p] = [op |-> op, body |-> d, expected |-> view[p],
                                previous |-> <<>>]]
  /\ UNCHANGED <<file, synced, view, acked, faults>>

Holds(p) == pc[p] \in {"read", "write", "sync"}

Shares(p) == call[p].op = "entries"

(* Mutant: the lock is advice nobody takes.                                *)
LockIgnored(p) == TRUE

(* flock: LOCK_SH goes with LOCK_SH, LOCK_EX with nothing.                 *)
LockFree(p) == \A q \in Process \ {p} : Holds(q) => Shares(p) /\ Shares(q)

Lock(p) ==
  /\ pc[p] = "lock"
  /\ LockFree(p)
  /\ pc' = [pc EXCEPT ![p] = "read"]
  /\ UNCHANGED <<file, synced, view, acked, faults, call>>

Entries(p) ==
  /\ pc[p] = "read" /\ call[p].op = "entries"
  /\ Readable(file)
  /\ view' = [view EXCEPT ![p] = Contents(file)]
  /\ Close(p)
  /\ UNCHANGED <<file, synced, acked, faults>>

(* Mutant: append_if_head does not compare.                                *)
HeadIgnored(p) == TRUE

HeadExpected(p) ==
  call[p].op = "append_if_head" => Contents(file) = call[p].expected

Prepare(p) ==
  /\ pc[p] = "read" /\ call[p].op # "entries"
  /\ Readable(file)
  /\ HeadExpected(p)
  /\ pc' = [pc EXCEPT ![p] = "write"]
  /\ call' = [call EXCEPT ![p].previous = Contents(file)]
  /\ UNCHANGED <<file, synced, view, acked, faults>>

(* Mutant: an unreadable ledger is read again and again under the lock.    *)
RejectNothing(p) ==
  /\ pc[p] = "read"
  /\ ~ (Readable(file) /\ HeadExpected(p))
  /\ UNCHANGED fileVars

(* LedgerCorruption or LedgerHeadChanged.                                  *)
Reject(p) ==
  /\ pc[p] = "read"
  /\ ~ (Readable(file) /\ HeadExpected(p))
  /\ Close(p)
  /\ UNCHANGED <<file, synced, view, acked, faults>>

NewRecord(p) == [previous |-> call[p].previous, body |-> call[p].body]

Write(p) ==
  /\ pc[p] = "write"
  /\ file' = file \o <<NewRecord(p), Newline>>
  /\ pc' = [pc EXCEPT ![p] = "sync"]
  /\ UNCHANGED <<synced, view, acked, faults, call>>

(* The process is killed in the write, or the write raises: any part of    *)
(* the line has reached the file.                                          *)
WriteFails(p) ==
  /\ pc[p] = "write"
  /\ faults < MaxFaults
  /\ \E part \in {<<Fragment>>, <<NewRecord(p)>>, <<NewRecord(p), Newline>>} :
       file' = file \o part
  /\ faults' = faults + 1
  /\ Close(p)
  /\ UNCHANGED <<synced, view, acked>>

(* Mutant: the append returns without fsync.                               *)
SyncSkipped(p) ==
  /\ pc[p] = "sync"
  /\ acked' = acked \cup {NewRecord(p)}
  /\ view' = [view EXCEPT ![p] = Append(call[p].previous, call[p].body)]
  /\ Close(p)
  /\ UNCHANGED <<file, synced, faults>>

(* fsync succeeds and the append returns the entry.                        *)
Sync(p) ==
  /\ pc[p] = "sync"
  /\ synced' = Len(file)
  /\ acked' = acked \cup {NewRecord(p)}
  /\ view' = [view EXCEPT ![p] = Append(call[p].previous, call[p].body)]
  /\ Close(p)
  /\ UNCHANGED <<file, faults>>

(* fsync raises: the record is in the file, the caller is not told.        *)
SyncFails(p) ==
  /\ pc[p] = "sync"
  /\ faults < MaxFaults
  /\ faults' = faults + 1
  /\ Close(p)
  /\ UNCHANGED <<file, synced, view, acked>>

(* The process dies elsewhere: the kernel closes its file and its lock.    *)
Crash(p) ==
  /\ pc[p] # "idle"
  /\ Close(p)
  /\ UNCHANGED <<file, synced, view, acked, faults>>

(* Every process is gone; of what was not synchronised any beginning is    *)
(* left, its last record possibly cut.                                     *)
PowerLoss ==
  /\ faults < MaxFaults
  /\ \E n \in synced..Len(file) :
       \/ file' = SubSeq(file, 1, n)
       \/ /\ n < Len(file) /\ file[n + 1] # Newline
          /\ file' = Append(SubSeq(file, 1, n), Fragment)
  /\ faults' = faults + 1
  /\ pc' = [p \in Process |-> "idle"]
  /\ call' = [p \in Process |-> NoCall]
  /\ UNCHANGED <<synced, view, acked>>

(* The next step of a call that is past its lock.                          *)
Run(p) == Entries(p) \/ Prepare(p) \/ Reject(p) \/ Write(p) \/ Sync(p)

Breaks(p) == WriteFails(p) \/ SyncFails(p) \/ Crash(p)

FileNext ==
  \/ PowerLoss
  \/ \E p \in Process : \/ \E op \in Op, d \in Body : Open(p, op, d)
                        \/ Lock(p) \/ Run(p) \/ Breaks(p)

FileSpec == FileInit /\ [][FileNext]_fileVars

(* A process that runs keeps running unless it dies, and the kernel grants *)
(* a lock that keeps becoming free to each of those that wait for it.      *)
FairFileSpec ==
  FileSpec /\ \A p \in Process : WF_fileVars(Run(p)) /\ SF_fileVars(Lock(p))
-----------------------------------------------------------------------------
(* The type of the state.                                                  *)
FileTypeOK ==
  /\ file \in Seq(Token)
  /\ synced \in 0..Len(file)
  /\ view \in [Process -> Log]
  /\ acked \subseteq Record
  /\ faults \in 0..MaxFaults
  /\ pc \in [Process -> Pc]
  /\ call \in [Process -> FileCall \cup {NoCall}]
  /\ \A p \in Process : pc[p] # "idle" => call[p] \in FileCall

(* A record whose append has returned stays in the file, through crashes,  *)
(* failed writes and power losses.                                         *)
AcknowledgedSurvives ==
  \A r \in acked : \E n \in 1..synced : file[n] = r

(* Between a caller's reading of the head and its append_if_head nobody    *)
(* has slipped in: the file that a compare-and-append extends is, as it is *)
(* written, the one the caller saw.                                        *)
CompareAndAppend ==
  [][\A p \in Process :
       Write(p) /\ call[p].op = "append_if_head" =>
         Readable(file) /\ Contents(file) = call[p].expected]_fileVars

(* Readers "fail closed": a ledger that cannot be read is never added to,  *)
(* so that nothing is recorded behind a corruption.                        *)
CorruptionIsFinal ==
  [][~ Readable(file) => Len(file') <= Len(file)]_fileVars

(* Every call comes back, for the lock is given up on every path.          *)
CallsReturn == \A p \in Process : pc[p] # "idle" ~> pc[p] = "idle"

-----------------------------------------------------------------------------
(* The file as the log of LedgerLog: what it says up to each token, to     *)
(* which every record adds its contents.                                   *)
LogUpTo(f) ==
  LET upto[i \in 0..Len(f)] ==
        IF i = 0 THEN <<>>
        ELSE IF f[i] \in Record THEN Append(upto[i - 1], f[i].body) ELSE upto[i - 1]
  IN  upto

RecordedLog == LogUpTo(file)[Len(file)]

Promised == IF acked = {} THEN 0
            ELSE 1 + CHOOSE n \in {Len(r.previous) : r \in acked} :
                       \A r \in acked : Len(r.previous) <= n

(* The append of each process that is in one.                              *)
Asked ==
  [p \in Process |->
    IF pc[p] = "idle" \/ call[p].op = "entries" THEN {}
    ELSE {[draft |-> call[p].body,
           expected |-> IF call[p].op = "append_if_head" THEN {call[p].expected} ELSE {}]}]

Port == INSTANCE LedgerLog WITH
  Draft <- Body, Caller <- Process, log <- RecordedLog, promised <- Promised,
  asked <- Asked

(* The file is one log: reads and appends of all processes take effect in  *)
(* one order, each at one moment between its call and its return, and a    *)
(* compare-and-append directly behind the head it names, whatever fails.   *)
ImplementsLedgerPort == Port!Spec
=============================================================================
