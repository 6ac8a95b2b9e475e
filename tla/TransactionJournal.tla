------------------------- MODULE TransactionJournal -------------------------
(***************************************************************************)
(* core/journal.py: the crash journal of one workspace.                    *)
(*                                                                         *)
(* record_start and record_end rewrite the journal file; update_state only *)
(* remembers the new state in memory (lazy write) until record_end or      *)
(* flush carries it to the file.  Every operation runs under the journal's *)
(* own lock, so each is one action.  A process crash loses the in-memory   *)
(* part.                                                                   *)
(***************************************************************************)
EXTENDS Naturals, FiniteSets

CONSTANT Txs      \* transaction ids

VARIABLES
  faulty,         \* reading or writing the file may fail; never changes
  disk,           \* the journal file: state recorded for each tx, or Absent
  pending         \* _pending_states: lazy updates, or Absent

journalVars == <<disk, pending>>

Absent == "ABSENT"

\* The members of TransactionState that execute_transaction writes.
States == { "WORKTREE_READY", "BASELINE_CAPTURED", "VALIDATING",
            "PATCH_APPLIED", "VALIDATED", "STAGED", "COMMITTED", "INTEGRATED",
            "STALE_BASE", "READY_TO_INTEGRATE", "FAILED", "DISCARDED" }

NoRecords == [t \in Txs |-> Absent]

JournalTypeOK ==
  /\ disk \in [Txs -> States \cup {Absent}]
  /\ pending \in [Txs -> States \cup {Absent}]

JournalInit == disk = NoRecords /\ pending = NoRecords

\* _read_records returns {} when the file cannot be read or parsed ...
Read(records) == records = disk \/ (faulty /\ records = NoRecords)

\* ... and _write_records logs and swallows every error.
Write(records) == disk' = records \/ (faulty /\ disk' = disk)

\* The records with every lazy update applied to the ones the file has.
Overlay(records, updates) ==
  [t \in Txs |-> IF records[t] # Absent /\ updates[t] # Absent
                 THEN updates[t] ELSE records[t]]

HasPending == pending # NoRecords

RecordStart(t, s) ==
  /\ \E records \in {disk, NoRecords} :
        Read(records) /\ Write([records EXCEPT ![t] = s])
  /\ pending' = [pending EXCEPT ![t] = Absent]

UpdateState(t, s) ==
  /\ \E records \in {disk, NoRecords} :
        /\ Read(records)
        /\ pending' = IF records[t] # Absent THEN [pending EXCEPT ![t] = s]
                                             ELSE pending
  /\ UNCHANGED disk

\* Mutant: the rewrite drops the lazy updates of the others.
RecordEndReverting(t) ==
  /\ pending' = NoRecords
  /\ \E records \in {disk, NoRecords} :
        Read(records) /\ Write([records EXCEPT ![t] = Absent])

\* A rewrite carries the lazy updates of the other transactions with it; with
\* nothing pending the file is rewritten only when it holds the record.
RecordEnd(t) ==
  /\ pending' = [pending EXCEPT ![t] = Absent]
  /\ \E records \in {disk, NoRecords} :
        /\ Read(records)
        /\ LET kept == [Overlay(records, pending) EXCEPT ![t] = Absent]
           IN IF HasPending \/ records[t] # Absent
              THEN Write(kept) ELSE UNCHANGED disk

Flush ==
  /\ HasPending
  /\ \E records \in {disk, NoRecords} :
        /\ Read(records)
        /\ IF \E t \in Txs : pending[t] # Absent /\ records[t] # Absent
           THEN Write(Overlay(records, pending)) ELSE UNCHANGED disk
  /\ pending' = NoRecords

\* The process dies: only the file survives.
LoseMemory == pending' = NoRecords /\ UNCHANGED disk

\* What list_active and get_orphaned report: the file under the lazy updates.
Reported(t) == Overlay(disk, pending)[t]

-----------------------------------------------------------------------------
\* The journal on its own, driven by arbitrary callers.

JournalNext ==
  \/ \E t \in Txs : RecordStart(t, "WORKTREE_READY") /\ disk[t] = Absent
  \/ \E t \in Txs, s \in {"VALIDATED", "STALE_BASE"} : UpdateState(t, s)
  \/ \E t \in Txs : RecordEnd(t)
  \/ Flush
  \/ LoseMemory

JournalSpec == /\ JournalInit /\ faulty \in BOOLEAN
               /\ [][JournalNext /\ UNCHANGED faulty]_<<journalVars, faulty>>

\* "so a full rewrite does not silently revert their lazy updates": ending or
\* starting one transaction, or flushing, never changes what the journal reports
\* for another one, as long as the file can be read and written.
RewriteKeepsOthers ==
  [][ ~faulty =>
        /\ \A t \in Txs : (RecordEnd(t) \/ RecordStart(t, "WORKTREE_READY")) =>
              \A u \in Txs \ {t} : Reported(u)' = Reported(u)
        /\ Flush => \A u \in Txs : Reported(u)' = Reported(u) ]_journalVars
=============================================================================
