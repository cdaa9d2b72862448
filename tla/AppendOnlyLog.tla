--------------------------- MODULE AppendOnlyLog ---------------------------
(***************************************************************************)
(* What the event log promises: a history that only grows, in which every  *)
(* event carries its position and its predecessor, and from which a        *)
(* power failure takes nothing that was promised to a caller.              *)
(***************************************************************************)
EXTENDS Naturals, Sequences

CONSTANTS EventId, NoHash

VARIABLES
    history,    \* the events, in order
    promised,   \* events whose append has returned
    stable      \* how much of the history no failure can take

avars == <<history, promised, stable>>

AInit == history = <<>> /\ promised = {} /\ stable = 0

\* The only event that may follow the history under identity id.
Successor(id) ==
    [id |-> id, sequence |-> Len(history),
     previous_event_hash |->
        IF history = <<>> THEN NoHash ELSE history[Len(history)].id]

Extend ==
    /\ \E id \in EventId : history' = Append(history, Successor(id))
    /\ UNCHANGED <<promised, stable>>

\* Only an event of the history is promised, and only once it is stable.
Promise ==
    /\ stable' = Len(history)
    /\ \E i \in 1..Len(history) : promised' = promised \cup {history[i]}
    /\ UNCHANGED history

Lose ==
    /\ \E n \in stable..Len(history) :
        history' = SubSeq(history, 1, n) /\ stable' = n
    /\ UNCHANGED promised

ANext == Extend \/ Promise \/ Lose

ASpec == AInit /\ [][ANext]_avars

=============================================================================
