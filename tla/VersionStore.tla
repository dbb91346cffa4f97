---------------------------- MODULE VersionStore ----------------------------
(***************************************************************************)
(* What the LSM tree promises as a store of versions: a put or a delete    *)
(* adds one version of its key and nothing takes one away; a get answers   *)
(* with a version of its key, and answers with none only if the key was    *)
(* absent at a moment of the get.  Which version a get answers with is     *)
(* left open: the code does not promise the newest.                        *)
(***************************************************************************)
EXTENDS Naturals, FiniteSets

CONSTANTS Keys

VARIABLES
    versions,  \* every version ever written
    get,       \* the get that runs: its key and the number of versions at its start
    answer     \* its answer

Idle == [key |-> 0, seen |-> 0]
NoEntry == [key |-> 0, lsn |-> 0, del |-> TRUE]

Init ==
    /\ versions = {}
    /\ get = Idle /\ answer = NoEntry

Write ==
    \E k \in Keys, d \in BOOLEAN :
        /\ versions' = versions \cup {[key |-> k, lsn |-> Cardinality(versions) + 1, del |-> d]}
        /\ UNCHANGED <<get, answer>>

BeginGet ==
    \E k \in Keys :
        /\ get = Idle
        /\ get' = [key |-> k, seen |-> Cardinality(versions)]
        /\ answer' = NoEntry
        /\ UNCHANGED versions

\* At a moment since the get began the newest version of k was a tombstone, or k had
\* no version.
WasAbsent(k, seen) ==
    \E n \in seen .. Cardinality(versions) :
        LET known == {v \in versions : v.key = k /\ v.lsn <= n} IN
        \A v \in known : v.del \/ \E w \in known : w.lsn > v.lsn

EndGet ==
    /\ get # Idle
    /\ \/ answer' \in {v \in versions : v.key = get.key}
       \/ WasAbsent(get.key, get.seen) /\ answer' = NoEntry
    /\ get' = Idle
    /\ UNCHANGED versions

Next == Write \/ BeginGet \/ EndGet

Spec == Init /\ [][Next]_<<versions, get, answer>>
=============================================================================
