--------------------------- MODULE AtomicManifest ---------------------------
(***************************************************************************)
(* What apply_atomic_update (src/data_stores/manifest.rs) promises its two *)
(* callers, the rotation of the memtable and the compaction thread: every  *)
(* call takes effect at once, on top of everything committed before it,    *)
(* and returns Ok, or has no effect and returns an error.  A crash ends    *)
(* the calls in progress and keeps what was committed.                     *)
(***************************************************************************)
EXTENDS Sequences

CONSTANT Updaters  \* the threads that call apply_atomic_update

VARIABLES
    log,      \* whose changes are in the manifest, in the order of their commits
    busy,     \* the threads inside a call
    outcome   \* how the last call of each thread ended

Init ==
    /\ log = <<>>
    /\ busy = {}
    /\ outcome = [u \in Updaters |-> "none"]

Call(u) ==
    /\ u \notin busy
    /\ busy' = busy \cup {u}
    /\ outcome' = [outcome EXCEPT ![u] = "none"]
    /\ UNCHANGED log

\* The change is in the manifest, and the caller has not been told yet.
Apply(u) ==
    /\ u \in busy /\ outcome[u] = "none"
    /\ log' = Append(log, u)
    /\ outcome' = [outcome EXCEPT ![u] = "ok"]
    /\ UNCHANGED busy

Fail(u) ==
    /\ u \in busy /\ outcome[u] = "none"
    /\ outcome' = [outcome EXCEPT ![u] = "err"]
    /\ busy' = busy \ {u}
    /\ UNCHANGED log

Return(u) ==
    /\ u \in busy /\ outcome[u] = "ok"
    /\ busy' = busy \ {u}
    /\ UNCHANGED <<log, outcome>>

Crash ==
    /\ busy' = {}
    /\ outcome' = [u \in Updaters |-> "none"]
    /\ UNCHANGED log

Next ==
    \/ \E u \in Updaters : Call(u) \/ Apply(u) \/ Fail(u) \/ Return(u)
    \/ Crash

Spec == Init /\ [][Next]_<<log, busy, outcome>>
=============================================================================
