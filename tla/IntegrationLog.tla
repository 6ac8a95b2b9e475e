--------------------------- MODULE IntegrationLog ---------------------------
(***************************************************************************)
(* What the workspace promises about main, whatever the threads do: main   *)
(* is an append-only log, and a transaction is appended at most once, only *)
(* on top of the very state it was opened on (a compare-and-swap).         *)
(***************************************************************************)
EXTENDS Naturals, Sequences

CONSTANTS Txs, UserCommits

VARIABLES
  log,    \* the commits of main
  snap,   \* the log each transaction was opened on
  fate    \* "new", "open", "landed" or "closed"

logVars == <<log, snap, fate>>

Fates == {"new", "open", "landed", "closed"}

LogInit ==
  /\ log = <<>>
  /\ snap = [t \in Txs |-> <<>>]
  /\ fate = [t \in Txs |-> "new"]

Open(t) ==
  /\ fate[t] = "new"
  /\ fate' = [fate EXCEPT ![t] = "open"]
  /\ snap' = [snap EXCEPT ![t] = log]
  /\ UNCHANGED log

Land(t) ==
  /\ fate[t] = "open" /\ log = snap[t]
  /\ log' = Append(log, t)
  /\ fate' = [fate EXCEPT ![t] = "landed"]
  /\ UNCHANGED snap

\* Any number of transactions give up together: a crash ends them all.
Close(lost) ==
  /\ \A t \in lost : fate[t] \in {"new", "open"}
  /\ fate' = [t \in Txs |-> IF t \in lost THEN "closed" ELSE fate[t]]
  /\ UNCHANGED <<log, snap>>

Foreign(c) ==
  /\ log' = Append(log, c)
  /\ UNCHANGED <<snap, fate>>

LogNext ==
  \/ \E t \in Txs : Open(t) \/ Land(t)
  \/ \E lost \in SUBSET Txs : Close(lost)
  \/ \E c \in UserCommits : Foreign(c)

LogSpec == LogInit /\ [][LogNext]_logVars
=============================================================================
