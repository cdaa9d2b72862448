------------------------------ MODULE EventLog ------------------------------
(***************************************************************************)
(* The JSON-lines event log of reference/python/tfws3/eventlog.py.         *)
(*                                                                         *)
(* A file is what splitting its bytes at the newlines gives: a sequence of *)
(* lines whose last element is the text after the last newline (<<>> when  *)
(* the file ends with one).  The text of an event is abstracted to two     *)
(* pieces, so that a write or a power failure can tear it.  `file' is what *)
(* every process sees; `disk' is the prefix that fsync has made durable.   *)
(*                                                                         *)
(* append_event takes no lock: between the read of the log and the write   *)
(* of the new line another process may do anything, its own append too.    *)
(***************************************************************************)
EXTENDS Naturals, Sequences, SequencesExt, FiniteSets, FiniteSetsExt

CONSTANTS
    Writers,    \* processes that call append_event
    EventId,    \* the uuid4 identities that may be drawn
    NoHash,     \* previous_event_hash of the first event (None)
    NoEvent,    \* a process that is not appending holds no event
    Faults      \* what may go wrong around the code: see FaultsAssumption

\* "io": a system call of append_event fails, or its process is killed;
\* "tear": a write may be short, and a power failure may cut a line in two;
\* "power": the machine stops, and what was not fsynced may be lost.
ASSUME FaultsAssumption == Faults \subseteq {"io", "tear", "power"}
ASSUME NoHashAssumption == NoHash \notin EventId

VARIABLES
    file,       \* the log, as every process reads it
    disk,       \* the prefix of the log that fsync has made durable
    pc,         \* where each process is in append_event
    event,      \* the event each process is appending
    landed,     \* how many of the three parts of its line are in the file
    result,     \* how the last call of each process ended
    acked,      \* events that append_event has returned to its caller
    issued,     \* identities drawn so far: uuid4 does not repeat
    audited     \* the log that the last event-verify to say "valid" read,
                \* since the machine started

vars == <<file, disk, pc, event, landed, result, acked, issued, audited>>

Event == [id : EventId, sequence : Nat,
          previous_event_hash : EventId \cup {NoHash}]
Piece == [event : Event, part : {"head", "tail"}]
File  == Seq(Seq(Piece)) \ {<<>>}

Empty == << <<>> >>

-----------------------------------------------------------------------------
(* Reading the log *)

\* The canonical JSON of an event, without its newline.
Text(e) == << [event |-> e, part |-> "head"], [event |-> e, part |-> "tail"] >>

\* SHA-256 of an event: events never share an id, so neither do hashes.
hash_event(e) == e.id

\* The lines that read_events does not skip.
NonBlank(f) == {i \in 1..Len(f) : f[i] # <<>>}

\* Mutant of Readable: a decoder that ignores what follows the first document.
ReadableFirst(f) ==
    \A i \in NonBlank(f) :
        Len(f[i]) >= 2 /\ SubSeq(f[i], 1, 2) = Text(f[i][1].event)

\* read_events returns: every line that is not blank is one JSON document.
Readable(f) == \A i \in NonBlank(f) : f[i] = Text(f[i][1].event)

EventAt(f, i) == f[i][1].event

\* The lines that hold the events before line i, and the last of their hashes.
Before(f, i) == {j \in NonBlank(f) : j < i}
HashBefore(f, i) ==
    IF Before(f, i) = {} THEN NoHash
    ELSE hash_event(EventAt(f, Max(Before(f, i))))

\* verify_chain accepts the event on line i.
Linked(f, i) ==
    /\ EventAt(f, i).sequence = Cardinality(Before(f, i))
    /\ EventAt(f, i).previous_event_hash = HashBefore(f, i)

\* read_events and then verify_chain return without raising.
Valid(f) == Readable(f) /\ \A i \in NonBlank(f) : Linked(f, i)

\* What a reader of a valid log holds: its events in order.
Events(f) ==
    [n \in 1..Cardinality(NonBlank(f)) |->
        EventAt(f, CHOOSE i \in NonBlank(f) : Cardinality(Before(f, i)) = n - 1)]

-----------------------------------------------------------------------------
(* Writing the log *)

\* Mutant of Land: the log is opened for writing, not for appending.
LandTruncating(f, e, from, to) ==
    IF from = 0 /\ to = 3 THEN <<Text(e), <<>>>> ELSE f

\* The file after parts from+1 to `to' of e's line (head, tail, newline) are
\* appended at its end, wherever that end now is (O_APPEND).
Land(f, e, from, to) ==
    LET last == f[Len(f)] \o SubSeq(Text(e), from + 1, IF to < 2 THEN to ELSE 2)
        g    == [f EXCEPT ![Len(f)] = last]
    IN  IF to = 3 THEN Append(g, <<>>) ELSE g

\* g is a prefix of f, byte by byte.
Extends(g, f) ==
    /\ Len(g) <= Len(f)
    /\ \A i \in 1..(Len(g) - 1) : f[i] = g[i]
    /\ LET n == Len(g) IN
       /\ Len(g[n]) <= Len(f[n])
       /\ g[n] = SubSeq(f[n], 1, Len(g[n]))

\* f cut inside its line k, after m pieces of that line.
Cut(f, k, m) == Append(SubSeq(f, 1, k - 1), SubSeq(f[k], 1, m))

-----------------------------------------------------------------------------

Init ==
    /\ file = Empty /\ disk = Empty
    /\ pc = [p \in Writers |-> "idle"]
    /\ event = [p \in Writers |-> NoEvent]
    /\ landed = [p \in Writers |-> 0]
    /\ result = [p \in Writers |-> "none"]
    /\ acked = {} /\ issued = {}
    /\ audited = Empty

\* What append_event does once it has read a log: it draws an identity and holds
\* the event that would follow the n events it read.
Hold(p, n, previous) ==
    /\ \E id \in EventId \ issued :
        /\ event' = [event EXCEPT ![p] =
               [id |-> id, sequence |-> n, previous_event_hash |-> previous]]
        /\ issued' = issued \cup {id}
    /\ pc' = [pc EXCEPT ![p] = "write"]
    /\ landed' = [landed EXCEPT ![p] = 0]
    /\ result' = [result EXCEPT ![p] = "none"]
    /\ UNCHANGED <<file, disk, acked, audited>>

\* Mutants of Begin: the chain is not verified; the sequence is off by one.
BeginUnverified(p) ==
    /\ pc[p] = "idle"
    /\ Hold(p, Cardinality(NonBlank(file)), HashBefore(file, Len(file) + 1))
BeginOffByOne(p) ==
    /\ pc[p] = "idle" /\ Valid(file)
    /\ Hold(p, Cardinality(NonBlank(file)) - 1, HashBefore(file, Len(file) + 1))

\* append_event reads the log, verifies its chain and builds the new line.
Begin(p) ==
    /\ pc[p] = "idle"
    /\ Valid(file)
    /\ Hold(p, Cardinality(NonBlank(file)), HashBefore(file, Len(file) + 1))

\* The log does not read or verify, or the payload has no canonical form:
\* append_event raises before it opens the log.
Refuse(p) ==
    /\ pc[p] = "idle"
    /\ \E canonical \in BOOLEAN : ~(Valid(file) /\ canonical)
    /\ result' = [result EXCEPT ![p] = "refused"]
    /\ UNCHANGED <<file, disk, pc, event, landed, acked, issued, audited>>

\* Mutant of Write: the line is written again after a write that had landed.
WriteTwice(p) ==
    /\ pc[p] = "write"
    /\ file' = Land(Land(file, event[p], 0, 3), event[p], 0, 3)
    /\ landed' = [landed EXCEPT ![p] = 3]
    /\ pc' = [pc EXCEPT ![p] = "fsync"]
    /\ UNCHANGED <<disk, event, result, acked, issued, audited>>

\* One write(2): the rest of the line or, when the write is short, some of it;
\* the buffered writer then writes again.
Write(p) ==
    /\ pc[p] = "write"
    /\ \E to \in (landed[p] + 1)..3 :
        /\ to = 3 \/ "tear" \in Faults
        /\ file' = Land(file, event[p], landed[p], to)
        /\ landed' = [landed EXCEPT ![p] = to]
        /\ pc' = [pc EXCEPT ![p] = IF to = 3 THEN "fsync" ELSE "write"]
    /\ UNCHANGED <<disk, event, result, acked, issued, audited>>

\* Mutant of Sync: flush without fsync.
SyncWithoutFsync(p) ==
    /\ pc[p] = "fsync"
    /\ acked' = acked \cup {event[p]}
    /\ pc' = [pc EXCEPT ![p] = "idle"]
    /\ event' = [event EXCEPT ![p] = NoEvent]
    /\ landed' = [landed EXCEPT ![p] = 0]
    /\ result' = [result EXCEPT ![p] = "returned"]
    /\ UNCHANGED <<file, disk, issued, audited>>

\* fsync makes the whole file durable, and append_event returns the event.
Sync(p) ==
    /\ pc[p] = "fsync"
    /\ disk' = file
    /\ acked' = acked \cup {event[p]}
    /\ pc' = [pc EXCEPT ![p] = "idle"]
    /\ event' = [event EXCEPT ![p] = NoEvent]
    /\ landed' = [landed EXCEPT ![p] = 0]
    /\ result' = [result EXCEPT ![p] = "returned"]
    /\ UNCHANGED <<file, issued, audited>>

\* open, write or fsync raises OSError, or the process is killed: nothing of
\* what already landed is taken back.
Fail(p) ==
    /\ "io" \in Faults
    /\ pc[p] # "idle"
    /\ pc' = [pc EXCEPT ![p] = "idle"]
    /\ event' = [event EXCEPT ![p] = NoEvent]
    /\ landed' = [landed EXCEPT ![p] = 0]
    /\ result' = [result EXCEPT ![p] = "failed"]
    /\ UNCHANGED <<file, disk, acked, issued, audited>>

\* event-verify reads the log and verifies its chain.
Audit ==
    /\ Valid(file)
    /\ audited' = file
    /\ UNCHANGED <<file, disk, pc, event, landed, result, acked, issued>>

\* The machine stops: some of what was not durable is lost, every process too.
PowerFailure ==
    /\ "power" \in Faults
    /\ \E k \in 1..Len(file) : \E m \in 0..Len(file[k]) :
        /\ m = 0 \/ "tear" \in Faults
        /\ Extends(disk, Cut(file, k, m))
        /\ file' = Cut(file, k, m)
        /\ disk' = Cut(file, k, m)
    /\ pc' = [p \in Writers |-> "idle"]
    /\ event' = [p \in Writers |-> NoEvent]
    /\ landed' = [p \in Writers |-> 0]
    /\ result' = [p \in Writers |-> "none"]
    /\ audited' = Empty
    /\ UNCHANGED <<acked, issued>>

Next ==
    \/ \E p \in Writers : Begin(p) \/ Refuse(p) \/ Write(p) \/ Sync(p) \/ Fail(p)
    \/ Audit
    \/ PowerFailure

Spec == Init /\ [][Next]_vars

-----------------------------------------------------------------------------
(* Properties *)

\* Type correctness of the log and of every append_event frame.
TypeOK ==
    /\ file \in File /\ disk \in File
    /\ pc \in [Writers -> {"idle", "write", "fsync"}]
    /\ event \in [Writers -> Event \cup {NoEvent}]
    /\ landed \in [Writers -> 0..3]
    /\ result \in [Writers -> {"none", "refused", "returned", "failed"}]
    /\ acked \subseteq Event
    /\ issued \subseteq EventId
    /\ audited \in File

\* Both pieces of e's line are somewhere in f.
Has(f, piece) == \E i \in 1..Len(f) : \E j \in 1..Len(f[i]) : f[i][j] = piece
Holds(f, e) == \A n \in 1..2 : Has(f, Text(e)[n])

\* An event append_event has returned is on stable storage for good, whatever
\* other writers, failed calls and power failures did (the fsync before the
\* return).
AckedDurable == \A e \in acked : Holds(disk, e)

\* What is on stable storage is never rewritten or truncated: O_APPEND holds
\* even for a writer that read the log long ago.
DiskAppendOnly == [][Extends(disk, disk') /\ Extends(disk, file')]_vars

\* While the log still verifies, every returned event is in it, at the place
\* its sequence number says: an append that was lost to another writer's fork
\* or to a torn line is never lost in silence.
AckedInPlace ==
    Valid(file) =>
        \A e \in acked : \E i \in NonBlank(file) :
            EventAt(file, i) = e /\ Cardinality(Before(file, i)) = e.sequence

\* The lines of f that a newline ends; nothing will ever be added to them.
Ended(f) == [f EXCEPT ![Len(f)] = <<>>]
Damaged(f) == ~Valid(Ended(f))

\* Nothing repairs a log: once ended lines on stable storage do not verify, they
\* never will, and no call of append_event ever gets past its first two lines.
DamageBlocksAppends ==
    [][Damaged(disk) => Damaged(disk') /\ issued' = issued]_vars

\* Each log that event-verify accepts extends the one it accepted before: an
\* auditor never sees accepted history change, unless the machine lost power.
AuditsGrow ==
    [][PowerFailure \/ IsPrefix(Events(audited), Events(audited'))]_vars

\* The log verifies at all times, half-way through an append too.
ChainIntact == Valid(file)

\* Spec invariant 7: once no append is under way, the history is hash-linked.
HashLinked == (\A p \in Writers : pc[p] = "idle") => Valid(file)

\* With one writer, append_event implements an append-only history in which
\* every returned event has a position for good.
History == INSTANCE AppendOnlyLog
    WITH history <- Events(file), promised <- acked, stable <- Len(Events(disk))
ImplementsHistory == History!ASpec

=============================================================================
