---------------------------- MODULE QuorumProofs ----------------------------
(***************************************************************************)
(* Theorems about the two quorums: with a majority of the witnesses no     *)
(* split view is accepted (WitnessQuorum, for any clients, witnesses, logs *)
(* and roots), and a recovery has the consent of a threshold of guardians  *)
(* (Recovery, for any guardians, threshold and requests).                  *)
(***************************************************************************)
EXTENDS WitnessQuorum, Recovery, FiniteSetTheorems, TLAPS

-----------------------------------------------------------------------------
(* Witnesses *)

WTypeOK ==
    /\ signed \in [WITNESSES -> SUBSET Checkpoint]
    /\ DOMAIN shown = CLIENTS /\ DOMAIN conflicts = CLIENTS /\ DOMAIN result = CLIENTS
    /\ accepted \in [CLIENTS -> SUBSET (ALLOWED \cap WITNESSES)]

\* An honest witness has signed no two checkpoints that contradict each other.
HonestSign ==
    \A w \in WITNESSES \ FAULTY : \A a, b \in signed[w] : ~Incompatible(a, b)

\* Whom a client counts has signed what the client was shown, and a client that holds
\* it for valid has counted the minimum.
AcceptedSigned ==
    \A c \in CLIENTS :
        /\ \A w \in accepted[c] : \E k \in signed[w] : Matches(k, shown[c])
        /\ shown[c] = NONE => accepted[c] = {}
        /\ result[c] = "valid" => Cardinality(accepted[c]) >= MINIMUM

WInv == WTypeOK /\ HonestSign /\ AcceptedSigned

\* Two quorums of the allowed witnesses have one in common that is not faulty.
LEMMA QuorumsMeet ==
    ASSUME MajorityQuorum, NEW A \in SUBSET ALLOWED, NEW B \in SUBSET ALLOWED,
           Cardinality(A) >= MINIMUM, Cardinality(B) >= MINIMUM
    PROVE  \E w \in A \cap B : w \notin FAULTY
<1> DEFINE Bad == ALLOWED \cap FAULTY
<1>1. /\ IsFiniteSet(ALLOWED) /\ IsFiniteSet(A) /\ IsFiniteSet(B) /\ IsFiniteSet(Bad)
      /\ A \cup B \in SUBSET ALLOWED
  <2>1. A \subseteq ALLOWED /\ B \subseteq ALLOWED /\ Bad \subseteq ALLOWED
    OBVIOUS
  <2> QED
    BY <2>1, FS_Subset, WitnessesAssumption
<1>2. /\ Cardinality(A \cup B) = Cardinality(A) + Cardinality(B) - Cardinality(A \cap B)
      /\ Cardinality(A \cup B) <= Cardinality(ALLOWED)
  BY <1>1, FS_Union, FS_Subset
<1>3. SUFFICES ASSUME A \cap B \subseteq Bad PROVE FALSE
  OBVIOUS
<1>4. Cardinality(A \cap B) <= Cardinality(Bad) /\ IsFiniteSet(A \cap B)
  BY <1>1, <1>3, FS_Subset
<1>5. /\ Cardinality(A) \in Nat /\ Cardinality(B) \in Nat /\ Cardinality(A \cap B) \in Nat
      /\ Cardinality(ALLOWED) \in Nat /\ Cardinality(Bad) \in Nat
  BY <1>1, <1>4, FS_CardinalityType
<1>6. 2 * MINIMUM > Cardinality(ALLOWED) + Cardinality(Bad) /\ MINIMUM \in Int
  BY WitnessesAssumption DEF MajorityQuorum
<1> QED
  BY <1>2, <1>4, <1>5, <1>6

LEMMA QuorumInit == WInit => WInv
<1> SUFFICES ASSUME WInit PROVE WInv
  OBVIOUS
<1>1. WTypeOK
  BY DEF WInit, WTypeOK
<1>2. HonestSign
  BY DEF WInit, HonestSign
<1>3. AcceptedSigned
  BY DEF WInit, AcceptedSigned
<1> QED
  BY <1>1, <1>2, <1>3 DEF WInv

LEMMA SignKeeps ==
    ASSUME WInv, NEW w \in WITNESSES \ FAULTY, Sign(w) PROVE WInv'
<1>1. PICK k \in Checkpoint :
         /\ \A other \in signed[w] : ~Incompatible(k, other)
         /\ signed' = [signed EXCEPT ![w] = @ \cup {k}]
         /\ UNCHANGED <<shown, accepted, conflicts, result>>
  BY DEF Sign
<1>2. /\ signed'[w] = signed[w] \cup {k}
      /\ \A v \in WITNESSES \ {w} : signed'[v] = signed[v]
      /\ \A v \in WITNESSES : signed[v] \subseteq signed'[v]
      /\ signed' \in [WITNESSES -> SUBSET Checkpoint]
  BY <1>1 DEF WInv, WTypeOK
<1>3. WTypeOK'
  BY <1>1, <1>2 DEF WInv, WTypeOK
<1>4. HonestSign'
  <2> SUFFICES ASSUME NEW v \in WITNESSES \ FAULTY,
                      NEW a \in signed'[v], NEW b \in signed'[v]
               PROVE  ~Incompatible(a, b)
    BY DEF HonestSign
  <2>1. CASE v # w
    BY <1>2, <2>1 DEF WInv, HonestSign
  <2>2. CASE v = w
    BY <1>1, <1>2, <2>2 DEF WInv, HonestSign, Incompatible
  <2> QED
    BY <2>1, <2>2
<1>5. AcceptedSigned'
  <2> SUFFICES ASSUME NEW c \in CLIENTS
               PROVE  /\ \A v \in accepted[c] : \E j \in signed'[v] : Matches(j, shown[c])
                      /\ shown[c] = NONE => accepted[c] = {}
                      /\ result[c] = "valid" => Cardinality(accepted[c]) >= MINIMUM
    BY <1>1 DEF AcceptedSigned
  <2>1. \A v \in accepted[c] : v \in WITNESSES
    BY DEF WInv, WTypeOK
  <2> QED
    BY <1>2, <2>1 DEF WInv, AcceptedSigned
<1> QED
  BY <1>3, <1>4, <1>5 DEF WInv

LEMMA ShowKeeps == ASSUME WInv, NEW c \in CLIENTS, Show(c) PROVE WInv'
<1>1. /\ shown[c] = NONE /\ accepted[c] = {}
      /\ UNCHANGED <<signed, accepted, conflicts>>
      /\ DOMAIN shown' = CLIENTS /\ DOMAIN result' = CLIENTS
      /\ result'[c] # "valid"
      /\ \A d \in CLIENTS \ {c} : shown'[d] = shown[d] /\ result'[d] = result[d]
  BY DEF Show, WInv, WTypeOK, AcceptedSigned
<1>2. WTypeOK' /\ HonestSign'
  BY <1>1 DEF WInv, WTypeOK, HonestSign
<1>3. AcceptedSigned'
  <2> SUFFICES ASSUME NEW d \in CLIENTS
               PROVE  /\ \A w \in accepted[d] : \E k \in signed[w] : Matches(k, shown'[d])
                      /\ shown'[d] = NONE => accepted[d] = {}
                      /\ result'[d] = "valid" => Cardinality(accepted[d]) >= MINIMUM
    BY <1>1 DEF AcceptedSigned
  <2>1. CASE d = c
    BY <1>1, <2>1
  <2>2. CASE d # c
    BY <1>1, <2>2 DEF WInv, AcceptedSigned
  <2> QED
    BY <2>1, <2>2
<1> QED
  BY <1>2, <1>3 DEF WInv

LEMMA StatementKeeps == ASSUME WInv, NEW c \in CLIENTS, Statement(c) PROVE WInv'
<1>1. /\ shown[c] # NONE /\ result[c] = "collecting" /\ UNCHANGED <<signed, shown>>
  BY DEF Statement
<1>2. PICK w \in WITNESSES, valid \in BOOLEAN :
      \E k \in (IF valid THEN signed[w] ELSE Checkpoint) :
         IF w \notin ALLOWED \/ ~valid
         THEN UNCHANGED <<result, accepted, conflicts>>
         ELSE IF ~Valid(k)
         THEN /\ result' = [result EXCEPT ![c] = "invalid checkpoint"]
              /\ UNCHANGED <<accepted, conflicts>>
         ELSE IF ~Matches(k, shown[c])
         THEN /\ conflicts' = [conflicts EXCEPT ![c] = @ \cup {w}]
              /\ UNCHANGED <<result, accepted>>
         ELSE /\ accepted' = [accepted EXCEPT ![c] = @ \cup {w}]
              /\ UNCHANGED <<result, conflicts>>
  BY DEF Statement
<1>3. CASE accepted' = accepted
  <2>1. /\ DOMAIN result' = CLIENTS /\ DOMAIN conflicts' = CLIENTS
        /\ \A d \in CLIENTS : result'[d] = "valid" => result[d] = "valid"
    BY <1>2, <1>3 DEF WInv, WTypeOK
  <2>2. WTypeOK' /\ HonestSign'
    BY <1>1, <1>3, <2>1 DEF WInv, WTypeOK, HonestSign
  <2>3. AcceptedSigned'
    BY <1>1, <1>3, <2>1 DEF WInv, AcceptedSigned
  <2> QED
    BY <2>2, <2>3 DEF WInv
<1>4. CASE /\ w \in ALLOWED /\ \E k \in signed[w] : Matches(k, shown[c])
           /\ accepted' = [accepted EXCEPT ![c] = @ \cup {w}]
           /\ UNCHANGED <<result, conflicts>>
  <2>1. /\ accepted'[c] = accepted[c] \cup {w}
        /\ \A d \in CLIENTS \ {c} : accepted'[d] = accepted[d]
        /\ accepted' \in [CLIENTS -> SUBSET (ALLOWED \cap WITNESSES)]
    BY <1>4 DEF WInv, WTypeOK
  <2>2. WTypeOK' /\ HonestSign'
    BY <1>1, <1>4, <2>1 DEF WInv, WTypeOK, HonestSign
  <2>3. AcceptedSigned'
    <3> SUFFICES ASSUME NEW d \in CLIENTS
                 PROVE  /\ \A v \in accepted'[d] : \E k \in signed[v] : Matches(k, shown[d])
                        /\ shown[d] = NONE => accepted'[d] = {}
                        /\ result[d] = "valid" => Cardinality(accepted'[d]) >= MINIMUM
      BY <1>1, <1>4 DEF AcceptedSigned
    <3>1. CASE d = c
      BY <1>1, <1>4, <2>1, <3>1 DEF WInv, AcceptedSigned
    <3>2. CASE d # c
      BY <2>1, <3>2 DEF WInv, AcceptedSigned
    <3> QED
      BY <3>1, <3>2
  <2> QED
    BY <2>2, <2>3 DEF WInv
<1> QED
  BY <1>2, <1>3, <1>4

LEMMA DecideKeeps == ASSUME WInv, NEW c \in CLIENTS, Decide(c) PROVE WInv'
<1>1. /\ UNCHANGED <<signed, shown, accepted, conflicts>>
      /\ DOMAIN result' = CLIENTS
      /\ \A d \in CLIENTS \ {c} : result'[d] = result[d]
      /\ result'[c] = "valid" => ~(Cardinality(accepted[c]) < MINIMUM)
  BY DEF Decide, WInv, WTypeOK
<1>2. WTypeOK' /\ HonestSign'
  BY <1>1 DEF WInv, WTypeOK, HonestSign
<1>3. result'[c] = "valid" => Cardinality(accepted[c]) >= MINIMUM
  <2>1. accepted[c] \subseteq ALLOWED
    BY DEF WInv, WTypeOK
  <2>2. Cardinality(accepted[c]) \in Nat
    BY <2>1, FS_Subset, FS_CardinalityType, WitnessesAssumption
  <2> QED
    BY <1>1, <2>2, WitnessesAssumption
<1>4. AcceptedSigned'
  <2> SUFFICES ASSUME NEW d \in CLIENTS
               PROVE  result'[d] = "valid" => Cardinality(accepted[d]) >= MINIMUM
    BY <1>1 DEF WInv, AcceptedSigned
  <2> QED
    BY <1>1, <1>3 DEF WInv, AcceptedSigned
<1> QED
  BY <1>2, <1>4 DEF WInv

LEMMA QuorumStep == WInv /\ [WNext]_wvars => WInv'
<1> SUFFICES ASSUME WInv, [WNext]_wvars PROVE WInv'
  OBVIOUS
<1>1. ASSUME NEW w \in WITNESSES \ FAULTY, Sign(w) PROVE WInv'
  BY <1>1, SignKeeps
<1>2. ASSUME NEW c \in CLIENTS, Show(c) PROVE WInv'
  BY <1>2, ShowKeeps
<1>3. ASSUME NEW c \in CLIENTS, Statement(c) PROVE WInv'
  BY <1>3, StatementKeeps
<1>4. ASSUME NEW c \in CLIENTS, Decide(c) PROVE WInv'
  BY <1>4, DecideKeeps
<1>5. CASE UNCHANGED wvars
  BY <1>5 DEF wvars, WInv, WTypeOK, HonestSign, AcceptedSigned
<1> QED
  BY <1>1, <1>2, <1>3, <1>4, <1>5 DEF WNext

\* With a majority quorum no two clients of verify_witness_quorum hold incompatible
\* checkpoints for valid, whatever statements each has been sent and in any order: an
\* honest witness would have had to sign both.
THEOREM SplitViewsStayExcluded == WSpec => []SplitViewsExcluded
<1>1. WInv => SplitViewsExcluded
  <2> SUFFICES ASSUME WInv, MajorityQuorum, NEW c \in CLIENTS, NEW d \in CLIENTS,
                      result[c] = "valid", result[d] = "valid",
                      Incompatible(shown[c], shown[d])
               PROVE  FALSE
    BY DEF SplitViewsExcluded
  <2>1. /\ accepted[c] \in SUBSET ALLOWED /\ accepted[d] \in SUBSET ALLOWED
        /\ accepted[c] \in SUBSET WITNESSES
    BY DEF WInv, WTypeOK
  <2>2. Cardinality(accepted[c]) >= MINIMUM /\ Cardinality(accepted[d]) >= MINIMUM
    BY DEF WInv, AcceptedSigned
  <2>3. PICK w \in accepted[c] \cap accepted[d] : w \notin FAULTY
    BY <2>1, <2>2, QuorumsMeet
  <2>4. PICK a \in signed[w] : Matches(a, shown[c])
    BY <2>3 DEF WInv, AcceptedSigned
  <2>5. PICK b \in signed[w] : Matches(b, shown[d])
    BY <2>3 DEF WInv, AcceptedSigned
  <2>6. Incompatible(a, b)
    BY <2>4, <2>5 DEF Matches, Incompatible
  <2> QED
    BY <2>1, <2>3, <2>6 DEF WInv, HonestSign
<1> QED
  BY <1>1, QuorumInit, QuorumStep, PTL DEF WSpec

-----------------------------------------------------------------------------
(* Guardians *)

\* An approval with both signatures is one its guardian consented to: nobody else can
\* make the two, and the halves of several approvals do not add up. Nor is one lost.
RInv ==
    /\ request \in REQUESTS /\ now \in Nat
    /\ \A a \in approvals :
          a.ed25519_valid /\ a.ml_dsa_65_valid => a.guardian_id \in consents
    /\ \A g \in consents : \E a \in approvals :
          a.guardian_id = g /\ a.ed25519_valid /\ a.ml_dsa_65_valid

LEMMA RecoveryStep == RInv /\ [RNext]_rvars => RInv'
<1> SUFFICES ASSUME RInv, [RNext]_rvars PROVE RInv'
  OBVIOUS
<1>1. CASE Consent
  <2>1. PICK g \in PEOPLE :
          /\ consents' = consents \cup {g}
          /\ approvals' = approvals \cup {[guardian_id |-> g, ed25519_valid |-> TRUE,
                                           ml_dsa_65_valid |-> TRUE]}
          /\ UNCHANGED <<request, now>>
    BY <1>1 DEF Consent
  <2>2. approvals \subseteq approvals' /\ consents \subseteq consents' /\ g \in consents'
    BY <2>1
  <2>3. \A h \in consents' : \E a \in approvals' :
           a.guardian_id = h /\ a.ed25519_valid /\ a.ml_dsa_65_valid
    <3> SUFFICES ASSUME NEW h \in consents'
                 PROVE  \E a \in approvals' :
                           a.guardian_id = h /\ a.ed25519_valid /\ a.ml_dsa_65_valid
      OBVIOUS
    <3>1. CASE h \in consents
      BY <3>1, <2>2 DEF RInv
    <3>2. CASE h = g
      <4> DEFINE full == [guardian_id |-> g, ed25519_valid |-> TRUE,
                          ml_dsa_65_valid |-> TRUE]
      <4>1. full \in approvals'
        BY <2>1
      <4>2. full.guardian_id = g /\ full.ed25519_valid /\ full.ml_dsa_65_valid
        OBVIOUS
      <4> HIDE DEF full
      <4> QED
        BY <3>2, <4>1, <4>2
    <3> QED
      BY <3>1, <3>2, <2>1
  <2>4. \A a \in approvals' :
           a.ed25519_valid /\ a.ml_dsa_65_valid => a.guardian_id \in consents'
    BY <2>1 DEF RInv
  <2> QED
    BY <2>1, <2>3, <2>4 DEF RInv
<1>2. CASE HalfApproval
  <2>1. PICK g \in PEOPLE, ed \in BOOLEAN, ml \in BOOLEAN :
          /\ ~(ed /\ ml)
          /\ approvals' = approvals \cup {[guardian_id |-> g, ed25519_valid |-> ed,
                                           ml_dsa_65_valid |-> ml]}
          /\ UNCHANGED <<request, consents, now>>
    BY <1>2 DEF HalfApproval
  <2>2. ASSUME NEW a \in approvals', a.ed25519_valid, a.ml_dsa_65_valid
        PROVE  a \in approvals
    BY <2>1, <2>2
  <2>3. \A h \in consents' : \E a \in approvals' :
           a.guardian_id = h /\ a.ed25519_valid /\ a.ml_dsa_65_valid
    <3>1. approvals \subseteq approvals' /\ consents' = consents
      BY <2>1
    <3> QED
      BY <3>1 DEF RInv
  <2> QED
    BY <2>1, <2>2, <2>3 DEF RInv
<1>3. CASE Tick
  BY <1>3 DEF Tick, RInv
<1>4. CASE UNCHANGED rvars
  BY <1>4 DEF rvars, RInv
<1> QED
  BY <1>1, <1>2, <1>3, <1>4 DEF RNext

\* Those whom evaluate_recovery counts are the guardians that consented.
LEMMA ApprovedConsented ==
    ASSUME RInv
    PROVE  /\ Approved = consents \cap ALLOWED_GUARDIANS
           /\ Cardinality(Approved) \in Nat
           /\ Cardinality(Approved) <= Cardinality(ALLOWED_GUARDIANS)
           /\ Cardinality(ALLOWED_GUARDIANS) \in Nat
<1>1. Approved \subseteq consents \cap ALLOWED_GUARDIANS
  BY DEF RInv, Approved
<1>2. consents \cap ALLOWED_GUARDIANS \subseteq Approved
  BY DEF RInv, Approved
<1>3. Approved \subseteq ALLOWED_GUARDIANS
  BY <1>1
<1> QED
  BY <1>1, <1>2, <1>3, GuardiansAssumption, FS_Subset, FS_CardinalityType

\* evaluate_recovery authorises a request exactly when as many guardians consent as the
\* threshold says and its time lock is over, however often it is asked.
THEOREM AuthorizedStaysByConsent == RSpec => []AuthorizedByConsent
<1>1. RInit => RInv
  BY DEF RInit, RInv
<1>2. RInv => AuthorizedByConsent
  <2> SUFFICES ASSUME RInv PROVE AuthorizedByConsent
    OBVIOUS
  <2>1. /\ request.new_epoch \in Int /\ request.old_epoch \in Int /\ now \in Int
        /\ request.execute_after \in Int /\ request.created_at \in Int
        /\ THRESHOLD \in Int
    BY GuardiansAssumption DEF RInv
  <2>2. Evaluate = "authorized" <=>
            /\ ~(request.new_epoch <= request.old_epoch) /\ request.reason # "blank"
            /\ ~Unreadable /\ ~(request.execute_after <= request.created_at)
            /\ ~(THRESHOLD < 1) /\ ~(THRESHOLD > Cardinality(ALLOWED_GUARDIANS))
            /\ ~(Cardinality(Approved) < THRESHOLD)
            /\ LockEnded
    BY DEF Evaluate
  <2> QED
    BY <2>1, <2>2, ApprovedConsented DEF AuthorizedByConsent, Unreadable, LockEnded
<1> QED
  BY <1>1, <1>2, RecoveryStep, PTL DEF RSpec

=============================================================================
