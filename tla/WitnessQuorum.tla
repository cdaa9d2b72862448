--------------------------- MODULE WitnessQuorum ---------------------------
(***************************************************************************)
(* Checkpoints of a log and the witnesses that sign them                   *)
(* (transparency.py): clients are shown checkpoints, collect statements    *)
(* one after another, in any order and as often as somebody sends them,    *)
(* and verify_witness_quorum judges the ones they have.                    *)
(*                                                                         *)
(* The log may show clients different trees.  An honest witness signs one  *)
(* valid root for a log and a size; the others have signed everything.  A  *)
(* timestamp is compared nowhere and left out.                             *)
(***************************************************************************)
EXTENDS FiniteSets, Integers

CONSTANTS
    CLIENTS, WITNESSES,
    FAULTY,         \* the witnesses that are not honest
    ALLOWED,        \* allowed_witnesses
    MINIMUM,        \* minimum
    LOGS, SIZES, ROOTS,
    HASHES          \* the roots that are 64 lower-case hexadecimal digits

ASSUME WitnessesAssumption ==
    /\ IsFiniteSet(ALLOWED) /\ FAULTY \subseteq WITNESSES
    /\ MINIMUM \in Int /\ HASHES \subseteq ROOTS

Checkpoint == [log_id : LOGS, tree_size : SIZES, root_hash : ROOTS]

NONE == [log_id |-> "none", tree_size |-> 0, root_hash |-> "none"]

VARIABLES
    signed,         \* what each witness has signed
    shown,          \* the checkpoint each client is to accept, or NONE
    accepted, conflicts,    \* the sets of the loop
    result          \* "collecting", "valid", or why not

wvars == <<signed, shown, accepted, conflicts, result>>

\* Checkpoint.validate: an identity, a size, and a root hash in hexadecimal.
Valid(c) == c.log_id # "" /\ c.tree_size >= 0 /\ c.root_hash \in HASHES

\* detect_incompatible_checkpoints, of two that are valid.
Incompatible(a, b) ==
    a.log_id = b.log_id /\ a.tree_size = b.tree_size /\ a.root_hash # b.root_hash

WInit ==
    /\ signed = [w \in WITNESSES |-> IF w \in FAULTY THEN Checkpoint ELSE {}]
    /\ shown = [c \in CLIENTS |-> NONE]
    /\ accepted = [c \in CLIENTS |-> {}]
    /\ conflicts = [c \in CLIENTS |-> {}]
    /\ result = [c \in CLIENTS |-> "collecting"]

-----------------------------------------------------------------------------

\* An honest witness signs a checkpoint.
Sign(w) ==
    \E checkpoint \in Checkpoint :
        /\ Valid(checkpoint) /\ checkpoint \notin signed[w]
        /\ \A other \in signed[w] : ~Incompatible(checkpoint, other)
        /\ signed' = [signed EXCEPT ![w] = @ \cup {checkpoint}]
        /\ UNCHANGED <<shown, accepted, conflicts, result>>

\* checkpoint.validate and the look at the policy, before the loop.
Show(c) ==
    /\ shown[c] = NONE
    /\ \E checkpoint \in Checkpoint :
        /\ shown' = [shown EXCEPT ![c] = checkpoint]
        /\ result' = [result EXCEPT ![c] =
              IF ~Valid(checkpoint) THEN "invalid checkpoint"
              ELSE IF MINIMUM < 1 \/ MINIMUM > Cardinality(ALLOWED) THEN "invalid policy"
              ELSE "collecting"]
    /\ UNCHANGED <<signed, accepted, conflicts>>

\* Mutant of Matches: the root hash is not compared.
MatchesInSize(a, b) == a.log_id = b.log_id /\ a.tree_size = b.tree_size

\* The candidate is the checkpoint, as far as it is compared.
Matches(a, b) ==
    a.log_id = b.log_id /\ a.tree_size = b.tree_size /\ a.root_hash = b.root_hash

\* One turn of the loop.  A statement with a valid signature is one its witness has
\* signed; one of another witness or with another signature is passed over.
Statement(c) ==
    /\ shown[c] # NONE /\ result[c] = "collecting"
    /\ \E w \in WITNESSES, valid_signature \in BOOLEAN :
       \E candidate \in (IF valid_signature THEN signed[w] ELSE Checkpoint) :
          IF w \notin ALLOWED \/ ~valid_signature
          THEN UNCHANGED <<result, accepted, conflicts>>
          ELSE IF ~Valid(candidate)
          THEN /\ result' = [result EXCEPT ![c] = "invalid checkpoint"]
               /\ UNCHANGED <<accepted, conflicts>>
          ELSE IF ~Matches(candidate, shown[c])
          THEN /\ conflicts' = [conflicts EXCEPT ![c] = @ \cup {w}]
               /\ UNCHANGED <<result, accepted>>
          ELSE /\ accepted' = [accepted EXCEPT ![c] = @ \cup {w}]
               /\ UNCHANGED <<result, conflicts>>
    /\ UNCHANGED <<signed, shown>>

\* There are no more statements.
Decide(c) ==
    /\ shown[c] # NONE /\ result[c] = "collecting"
    /\ result' = [result EXCEPT ![c] =
          IF conflicts[c] # {} THEN "split view"
          ELSE IF Cardinality(accepted[c]) < MINIMUM THEN "quorum not met"
          ELSE "valid"]
    /\ UNCHANGED <<signed, shown, accepted, conflicts>>

WNext ==
    \/ \E w \in WITNESSES \ FAULTY : Sign(w)
    \/ \E c \in CLIENTS : Show(c) \/ Statement(c) \/ Decide(c)

WSpec == WInit /\ [][WNext]_wvars

-----------------------------------------------------------------------------
(* Properties *)

\* Two quorums have an honest witness in common.
MajorityQuorum == 2 * MINIMUM > Cardinality(ALLOWED) + Cardinality(ALLOWED \cap FAULTY)

\* spec/TRANSPARENCY.md: clients require a witness quorum to detect split views.  However
\* statements reach them, no two clients hold incompatible checkpoints for valid, if the
\* minimum is large enough for that; nothing in the code makes it so.
SplitViewsExcluded ==
    MajorityQuorum =>
        \A c, d \in CLIENTS :
            result[c] = "valid" /\ result[d] = "valid"
                => ~Incompatible(shown[c], shown[d])

=============================================================================
