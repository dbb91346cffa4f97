-------------------------------- MODULE WalLog --------------------------------
(***************************************************************************)
(* The mutable WAL of easy-lsm over the lives of the process: its creation *)
(* with the first manifest (src/data_stores/manifest.rs), the appends with *)
(* their BufWriter, and how Db::new replays it and opens it again for      *)
(* append (src/data_stores/wal.rs, src/lib.rs).                            *)
(*                                                                         *)
(* It is the WAL of the first manifest, which one handle of each life of   *)
(* the process writes, or one that a rotation created: next_wal_id never   *)
(* advances, so that the later rotations of that life open it again, each  *)
(* with a BufWriter of its own.  The handle of a replaced DbVersion writes *)
(* what it has kept when it is dropped.                                    *)
(*                                                                         *)
(* An entry is the number of its write and is two pieces long, so that a   *)
(* crash or a failed write can cut the file at and between entries.  What  *)
(* the decoder makes of pieces that do not follow each other depends on    *)
(* the lengths it reads there: it runs into the end of the file, or it     *)
(* meets a wrong CRC.  (That a wrong CRC matches is left out.)             *)
(***************************************************************************)
EXTENDS Naturals, Sequences, FiniteSets, FiniteSetsExt, SequencesExt

CONSTANTS
    IoErrors,    \* may Wal::write fail in part?
    MaxWrites,   \* bound: writes
    MaxGroup,    \* bound: writes of one group
    MaxStops     \* bound: crashes and ends of the process

ASSUME WalAssumption ==
    /\ IoErrors \in BOOLEAN
    /\ {MaxWrites, MaxStops} \subseteq Nat /\ MaxGroup \in Nat \ {0}

VARIABLES
    magic,     \* the first four bytes of the WAL: "none" (no file), "empty", "part", "whole"
    mf,        \* the manifest that lists the WAL: "none", "part", "whole"
    file,      \* the pieces after the magic number, as the operating system has them
    synced,    \* how many of them are on the disk
    sharing,   \* a rotation of this life created the file: later ones open it again
    buffer,    \* what the BufWriter of db.current has still to write
    old,       \* what the BufWriters of replaced versions have kept, where it is anything
    group,     \* the writes of the group that Wal::write is writing
    process,   \* "Down", "Create" and "Persist" (a pristine start), "Up", or "Refused"
    nextLsn,
    lsn,       \* the LSN of each write
    acked,     \* the writes that returned success
    tear,      \* where bytes were first appended to a torn entry, or 0
    late,      \* where a handle that had been replaced could first write, or 0
    cutStart,  \* a pristine start was cut short
    stops

fileVars  == <<magic, mf, file, synced>>
handles   == <<sharing, buffer, old>>
writeVars == <<group, lsn, nextLsn, acked>>
history   == <<tear, late, cutStart, stops>>
vars == <<fileVars, handles, writeVars, process, history>>

Piece == (1 .. MaxWrites) \X {1, 2}

TypeOK ==
    /\ magic \in {"none", "empty", "part", "whole"} /\ mf \in {"none", "part", "whole"}
    /\ file \in Seq(Piece) /\ synced \in 0 .. Len(file)
    /\ sharing \in BOOLEAN /\ buffer \in Seq(Piece) /\ old \subseteq Seq(Piece) \ {<<>>}
    /\ process \in {"Down", "Create", "Persist", "Up", "Refused"}
    /\ lsn \in Seq(1 .. MaxWrites) /\ Len(lsn) <= MaxWrites /\ nextLsn \in 1 .. Len(lsn) + 1
    /\ group \cup acked \subseteq DOMAIN lsn
    /\ tear \in 0 .. Len(file) /\ late \in 0 .. Len(file) + 1
    /\ cutStart \in BOOLEAN /\ stops \in 0 .. MaxStops

\* An empty directory; or a rotation has just created the WAL and stored its version, and
\* the LSNs are counted from there.
Init ==
    /\ \/ magic = "none" /\ mf = "none" /\ process = "Down" /\ sharing = FALSE
       \/ magic = "whole" /\ mf = "whole" /\ process = "Up" /\ sharing = TRUE
    /\ file = <<>> /\ synced = 0 /\ buffer = <<>> /\ old = {} /\ group = {}
    /\ nextLsn = 1 /\ lsn = <<>> /\ acked = {}
    /\ tear = 0 /\ late = 0 /\ cutStart = FALSE /\ stops = 0
-----------------------------------------------------------------------------
(* WalIterator *)

\* The first i entries of f follow each other without a gap.
Whole(f, i) == \A j \in 1 .. i : f[2 * j - 1][2] = 1 /\ f[2 * j] = <<f[2 * j - 1][1], 2>>

\* What the iterator yields.
Entries(f) ==
    LET n == Max({i \in 0 .. Len(f) \div 2 : Whole(f, i)}) IN
    [i \in 1 .. n |-> f[2 * i][1]]

\* What is left behind the last entry: one piece is cut off by the end of the file,
\* more are decoded as an entry that nobody wrote.
Behind(f) == Len(f) - 2 * Len(Entries(f))
-----------------------------------------------------------------------------
(* Db::new *)

\* Manifest::prepare_pristine_start: Wal::open creates the file, or writes the magic
\* number into an empty one, and does not accept a part of it.
StartPristine ==
    /\ process = "Down" /\ mf = "none"
    /\ process' = IF magic = "part" THEN "Refused" ELSE "Create"
    /\ UNCHANGED <<fileVars, handles, writeVars, history>>

\* Wal::open has synced the magic number.
CreateWal ==
    /\ process = "Create"
    /\ magic' = "whole" /\ process' = "Persist"
    /\ UNCHANGED <<mf, file, synced, handles, writeVars, history>>

\* write_to_disk has synced 00000.mf; the WAL is replayed and empty.
PersistManifest ==
    /\ process = "Persist"
    /\ mf' = "whole" /\ process' = "Up"
    /\ UNCHANGED <<magic, file, synced, handles, writeVars, history>>

\* Mutant: the LSNs start from the number of entries.
Open_countsEntries ==
    /\ process = "Down" /\ mf # "none"
    /\ process' = "Up" /\ nextLsn' = Len(Entries(file)) + 1
    /\ UNCHANGED <<fileVars, handles, group, lsn, acked, history>>

\* Mutant: an entry that is cut off is an error.
Open_strict ==
    LET entries == Entries(file) IN
    /\ process = "Down" /\ mf # "none"
    /\ IF mf = "part" \/ Behind(file) > 0
       THEN process' = "Refused" /\ UNCHANGED nextLsn
       ELSE /\ process' = "Up"
            /\ nextLsn' = IF entries = <<>> THEN 1 ELSE lsn[Last(entries)] + 1
    /\ UNCHANGED <<fileVars, handles, group, lsn, acked, history>>

\* Manifest::try_open, replay_mutable_wal, and Wal::open, which leaves the file as it is.
Open ==
    LET entries == Entries(file) IN
    /\ process = "Down" /\ mf # "none"
    /\ \/ /\ mf = "part" \/ magic # "whole" \/ Behind(file) > 1
          /\ process' = "Refused" /\ UNCHANGED nextLsn
       \/ /\ mf = "whole" /\ magic = "whole"
          /\ process' = "Up"
          /\ nextLsn' = IF entries = <<>> THEN 1 ELSE lsn[Last(entries)] + 1
    /\ UNCHANGED <<fileVars, handles, group, lsn, acked, history>>
-----------------------------------------------------------------------------
(* Wal::write, of one leader at a time.  A leader that has loaded db.current before a   *)
(* rotation writes to the replaced handle, as if the rotation came behind its write.    *)

\* Where a tear is after the pieces of more are appended.
Tear(more) ==
    IF tear = 0 /\ file # <<>> /\ more # <<>> /\ Last(file)[2] = 1 /\ more[1][2] = 1
    THEN Len(file) ELSE tear

\* One write(2), of these pieces.
AppendFile(more) == file' = file \o more /\ tear' = Tear(more)

\* The next writes as a group with its LSNs, which are used up whatever happens.
Group(n) == Len(lsn) + 1 .. Len(lsn) + n
Encoded(n) == [i \in 1 .. 2 * n |-> <<Len(lsn) + (i + 1) \div 2, IF i % 2 = 1 THEN 1 ELSE 2>>]

\* Mutant: one LSN more is taken than the group has writes.
NewGroup_oneMore(n) ==
    /\ process = "Up" /\ group = {} /\ Len(lsn) + n <= MaxWrites
    /\ lsn' = lsn \o [i \in 1 .. n |-> nextLsn + i - 1]
    /\ nextLsn' = nextLsn + n + 1

NewGroup(n) ==
    /\ process = "Up" /\ group = {} /\ Len(lsn) + n <= MaxWrites
    /\ lsn' = lsn \o [i \in 1 .. n |-> nextLsn + i - 1]
    /\ nextLsn' = nextLsn + n

\* A group is encoded; the BufWriter has to write it behind what it has kept.
StartWrite ==
    \E n \in 1 .. MaxGroup :
        /\ NewGroup(n)
        /\ buffer' = buffer \o Encoded(n) /\ group' = Group(n)
        /\ UNCHANGED <<fileVars, sharing, old, acked, process, history>>

\* write_all and flush: one write(2) more, which may be short.
WriteOut ==
    /\ group # {}
    /\ \E cut \in 1 .. Len(buffer) :
         AppendFile(SubSeq(buffer, 1, cut)) /\ buffer' = SubSeq(buffer, cut + 1, Len(buffer))
    /\ UNCHANGED <<magic, mf, synced, sharing, old, writeVars, process, late, cutStart, stops>>

\* Mutant: success is reported before the sync.
Sync_late ==
    /\ group # {} /\ buffer = <<>>
    /\ acked' = acked \cup group /\ group' = {}
    /\ UNCHANGED <<fileVars, handles, lsn, nextLsn, process, history>>

\* sync_all, and the writers return.
Sync ==
    /\ group # {} /\ buffer = <<>>
    /\ synced' = Len(file)
    /\ acked' = acked \cup group /\ group' = {}
    /\ UNCHANGED <<magic, mf, file, handles, lsn, nextLsn, process, history>>

\* An error of write(2) or sync_all.  What is not written stays in the BufWriter, but for
\* a group too large for it, which goes past it, once what it has kept is out.
WriteFails ==
    /\ IoErrors /\ group # {} /\ group' = {}
    /\ buffer' \in {buffer, SubSeq(buffer, 1, Len(buffer) - 2 * Cardinality(group))}
    /\ UNCHANGED <<fileVars, sharing, old, lsn, nextLsn, acked, process, history>>
-----------------------------------------------------------------------------
(* The handles of other versions.  One that has kept nothing leaves no trace. *)

\* rotate_memtable stores a version with a handle of its own.
Rotate ==
    /\ process = "Up" /\ sharing /\ group = {} /\ buffer # <<>>
    /\ old' = old \cup {buffer} /\ buffer' = <<>>
    /\ UNCHANGED <<fileVars, sharing, writeVars, process, history>>

\* A flush or a compaction that has loaded db.current before a rotation stores its version
\* behind it, and with it the handle that the rotation replaced.
PutBack ==
    /\ process = "Up" /\ group = {}
    /\ \E b \in old : buffer' = b /\ old' = (old \ {b}) \cup ({buffer} \ {<<>>})
    /\ late' = IF late = 0 THEN Len(file) + 1 ELSE late
    /\ UNCHANGED <<fileVars, sharing, writeVars, process, tear, cutStart, stops>>

\* The last user of a replaced version is done: its BufWriter writes what it can.
DropHandle ==
    /\ \E b \in old : \E cut \in 0 .. Len(b) :
         /\ IoErrors \/ cut = Len(b)
         /\ AppendFile(SubSeq(b, 1, cut)) /\ old' = old \ {b}
         /\ late' = IF late = 0 /\ cut > 0 THEN Len(file) + 1 ELSE late
    /\ UNCHANGED <<magic, mf, synced, sharing, buffer, writeVars, process, cutStart, stops>>
-----------------------------------------------------------------------------
(* The end of a process. *)

Stop ==
    /\ stops < MaxStops /\ stops' = stops + 1
    /\ process' = "Down" /\ sharing' = FALSE /\ buffer' = <<>> /\ old' = {} /\ group' = {}
    /\ late' = IF late > Len(file') THEN 0 ELSE late
    /\ UNCHANGED <<lsn, nextLsn, acked>>

\* A crash keeps what is synced and any part of what follows.
Crash ==
    /\ process = "Up"
    /\ synced' \in synced .. Len(file) /\ file' = SubSeq(file, 1, synced')
    /\ tear' = IF tear >= synced' THEN 0 ELSE tear
    /\ Stop
    /\ UNCHANGED <<magic, mf, cutStart>>

\* A crash in prepare_pristine_start: a new file has any part of its contents.
CrashInStart ==
    /\ \/ /\ process = "Create"
          /\ magic' \in CASE magic = "none"  -> {"none", "empty", "part", "whole"}
                          [] magic = "empty" -> {"empty", "part", "whole"}
                          [] OTHER           -> {magic}
          /\ UNCHANGED mf
       \/ process = "Persist" /\ mf' \in {"none", "part", "whole"} /\ UNCHANGED magic
    /\ cutStart' = TRUE
    /\ UNCHANGED <<file, synced, tear>>
    /\ Stop

\* The Db is dropped, after the handles of other versions, and the BufWriter writes what
\* it can.
Drop ==
    /\ process = "Up" /\ group = {} /\ old = {}
    /\ \E cut \in 0 .. Len(buffer) :
         (IoErrors \/ cut = Len(buffer)) /\ AppendFile(SubSeq(buffer, 1, cut))
    /\ Stop
    /\ UNCHANGED <<magic, mf, synced, cutStart>>
-----------------------------------------------------------------------------
Next ==
    \/ StartPristine \/ CreateWal \/ PersistManifest \/ Open
    \/ StartWrite \/ WriteOut \/ Sync \/ WriteFails
    \/ Rotate \/ PutBack \/ DropHandle
    \/ Crash \/ CrashInStart \/ Drop

Spec == Init /\ [][Next]_vars
-----------------------------------------------------------------------------
(* Properties. *)

\* What a crash now would leave of the file.
AfterCrash == {SubSeq(file, 1, n) : n \in synced .. Len(file)}

\* An acknowledged write is replayed after a crash at any moment, unless it was appended
\* behind a torn entry, where the replay cannot reach it.
AckedReplayed ==
    \A w \in acked :
        \/ \A f \in AfterCrash : w \in ToSet(Entries(f))
        \/ tear # 0 /\ \E i \in tear + 1 .. Len(file) : file[i] = <<w, 2>>

\* The entries that a replay yields have increasing LSNs, failed writes that come back
\* included, up to where a replaced handle wrote; and the next LSN is larger than all of
\* them, if none did.
LsnsFollowFile ==
    LET entries == Entries(file) IN
    /\ \A i, j \in DOMAIN entries :
         i < j /\ (late = 0 \/ 2 * j < late) => lsn[entries[i]] < lsn[entries[j]]
    /\ process = "Up" /\ late = 0 => \A i \in DOMAIN entries : lsn[entries[i]] < nextLsn

\* Db::new refuses a directory only if a crash hit its first start, or bytes were
\* appended to a torn entry: a torn tail by itself is no reason.
RefusedOnlyIfTorn == process = "Refused" => cutStart \/ tear # 0
=============================================================================
