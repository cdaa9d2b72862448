----------------------- MODULE SignatureBundleProofs -----------------------
(***************************************************************************)
(* Theorems about SignatureBundle, for any baseline, keys, manifests and   *)
(* calls: what sign_manifest returns and what verify_bundle accepts has    *)
(* one signature per algorithm of the baseline, all over one message.      *)
(***************************************************************************)
EXTENDS SignatureBundle, FiniteSetTheorems, TLAPS

SignJobs   == [op : {"sign"}, manifest : Manifest, key_id : BOOLEAN]
VerifyJobs == [op : {"verify"}, manifest : Manifest, bundle : Bundle]

\* A signer has made an entry for each algorithm it has passed, over its own message.
SignerOK(p) ==
    /\ created[p] \in Instant
    /\ at[p] <= Len(BASELINE) + 1 /\ Len(made[p]) = at[p] - 1
    /\ \A i \in 1..Len(made[p]) :
          /\ made[p][i].algorithm = BASELINE[i] /\ made[p][i].bound
          /\ made[p][i].value.algorithm = BASELINE[i]
          /\ made[p][i].value.message = Msg(p)
    /\ pc[p] = "openssl" =>
          /\ at[p] <= Len(BASELINE) /\ out[p].value \in Signature
          /\ out[p].value.algorithm = BASELINE[at[p]] /\ out[p].value.message = Msg(p)

\* An entry of a bundle whose signature openssl has verified.
Checked(p, i) ==
    LET e == job[p].bundle.signatures[i]
    IN  e.value.algorithm = e.algorithm /\ e.value.message = Msg(p)

\* A verifier has met each of the first n entries, no algorithm twice.
Met(p, n) ==
    LET entries == job[p].bundle.signatures
    IN  /\ n <= Len(entries)
        /\ \A i \in 1..n : entries[i].algorithm \in seen[p]
        /\ \A a \in seen[p] : \E i \in 1..n : entries[i].algorithm = a
        /\ \A i, j \in 1..n : entries[i].algorithm = entries[j].algorithm => i = j

VerifierOK(p) ==
    /\ \A i \in 1..(at[p] - 1) : Checked(p, i)
    /\ pc[p] = "entry" => Met(p, at[p] - 1)
    /\ pc[p] = "openssl" => Met(p, at[p]) /\ (out[p].ok => Checked(p, at[p]))

CallOK(p) ==
    /\ pc[p] # "idle" => job[p] \in SignJobs \cup VerifyJobs
    /\ pc[p] \in {"idle", "bind", "prepare"} => seen[p] = {} /\ made[p] = <<>>
    /\ pc[p] \in {"idle", "prepare"} => at[p] = 1
    /\ pc[p] = "bind" => at[p] <= Len(BASELINE)
    /\ pc[p] \in {"entry", "openssl"} =>
          IF Signing(p) THEN SignerOK(p) ELSE VerifierOK(p)

LocalTypes ==
    /\ DOMAIN job = Calls
    /\ pc \in [Calls -> {"idle", "bind", "prepare", "entry", "openssl"}]
    /\ at \in [Calls -> Nat \ {0}]
    /\ created \in [Calls -> Instant \cup {Nothing}]
    /\ seen \in [Calls -> SUBSET Algorithms]
    /\ made \in [Calls -> Seq(Entry)]
    /\ out \in [Calls -> [ok : BOOLEAN, value : Signature \cup {Nothing}] \cup {Nothing}]

LocalOK == LocalTypes /\ \A p \in Calls : CallOK(p)

DocsOK == released \subseteq Pair /\ accepted \subseteq Pair
            /\ AcceptedHybrid /\ ReleasedHybrid

FilesOK ==
    /\ public \in [Algorithms -> Key \cup {NoKey}]
    /\ private \in [Algorithms -> Key \cup {NoKey}]
    /\ replaced \in 0..MaxReplaced

IInv == LocalOK /\ DocsOK /\ FilesOK

-----------------------------------------------------------------------------
(* Locals *)

Untouched(q) ==
    /\ pc'[q] = pc[q] /\ job'[q] = job[q] /\ at'[q] = at[q]
    /\ created'[q] = created[q] /\ seen'[q] = seen[q]
    /\ made'[q] = made[q] /\ out'[q] = out[q]

\* No action of a call touches another call.
OthersStay(p) == \A q \in Calls \ {p} : Untouched(q)

LEMMA CallStays ==
    ASSUME NEW q \in Calls, CallOK(q), Untouched(q) PROVE CallOK(q)'
<1>1. Msg(q)' = Msg(q) /\ Signing(q)' = Signing(q)
  BY DEF Untouched, Msg, Signing
<1>2. SignerOK(q) => SignerOK(q)'
  BY <1>1 DEF Untouched, SignerOK
<1>3. /\ \A i : Checked(q, i)' <=> Checked(q, i)
      /\ \A n : Met(q, n)' <=> Met(q, n)
  BY <1>1 DEF Untouched, Checked, Met
<1>4. VerifierOK(q) => VerifierOK(q)'
  BY <1>3 DEF Untouched, VerifierOK
<1> QED
  BY <1>1, <1>2, <1>4 DEF Untouched, CallOK

LEMMA OthersKeep ==
    ASSUME LocalOK, NEW p \in Calls, OthersStay(p), LocalTypes', CallOK(p)'
    PROVE  LocalOK'
<1>1. ASSUME NEW q \in Calls, q # p PROVE CallOK(q)'
  BY <1>1, CallStays DEF OthersStay, LocalOK
<1> QED
  BY <1>1 DEF LocalOK

\* Nothing happens to any call.
LEMMA LocalsStay == ASSUME LocalOK, UNCHANGED <<pc, cvars>> PROVE LocalOK'
<1>1. LocalTypes'
  BY DEF LocalOK, LocalTypes, cvars
<1>2. ASSUME NEW q \in Calls PROVE CallOK(q)'
  BY CallStays DEF Untouched, LocalOK, cvars
<1> QED
  BY <1>1, <1>2 DEF LocalOK

\* What ends a call leaves nothing of it behind.
LEMMA ForgetKeeps ==
    ASSUME LocalOK, NEW p \in Calls, NEW r, Forget(p, r) PROVE LocalOK'
<1>1. LocalTypes'
  BY DEF LocalOK, LocalTypes, Forget
<1>2. OthersStay(p)
  BY DEF LocalOK, LocalTypes, Forget, OthersStay, Untouched
<1>3. CallOK(p)'
  <2>1. pc'[p] = "idle" /\ at'[p] = 1 /\ seen'[p] = {} /\ made'[p] = <<>>
    BY DEF LocalOK, LocalTypes, Forget
  <2> QED
    BY <2>1 DEF CallOK
<1> QED
  BY <1>1, <1>2, <1>3, OthersKeep

LEMMA RaiseKeeps ==
    ASSUME LocalOK, NEW p \in Calls, NEW r, Raise(p, r)
    PROVE  LocalOK' /\ UNCHANGED docs
BY ForgetKeeps DEF Raise

LEMMA StartKeeps ==
    ASSUME IInv, NEW p \in Calls, Start(p) PROVE LocalOK' /\ UNCHANGED docs
<1>1. PICK j \in {SignJob(r) : r \in Requests}
                   \cup {VerifyJob(o) : o \in Offered \cup released} :
         job' = [job EXCEPT ![p] = j]
  BY DEF Start
<1>2. j \in SignJobs \cup VerifyJobs
  <2>1. ASSUME NEW r \in Requests PROVE SignJob(r) \in SignJobs
    BY InputAssumption DEF SignJob, SignJobs
  <2>2. ASSUME NEW o \in Offered \cup released PROVE VerifyJob(o) \in VerifyJobs
    <3>1. o \in Pair
      BY InputAssumption DEF IInv, DocsOK
    <3> QED
      BY <3>1 DEF VerifyJob, VerifyJobs, Pair
  <2> QED
    BY <2>1, <2>2
<1>3. /\ pc[p] = "idle" /\ pc' = [pc EXCEPT ![p] = "bind"]
      /\ UNCHANGED <<docs, at, created, seen, made, out>>
  BY DEF Start
<1>4. LocalTypes' /\ OthersStay(p)
  BY <1>1, <1>3 DEF IInv, LocalOK, LocalTypes, OthersStay, Untouched
<1>5. CallOK(p)'
  <2>1. pc'[p] = "bind" /\ job'[p] = j
    BY <1>1, <1>3 DEF IInv, LocalOK, LocalTypes
  <2>2. seen[p] = {} /\ made[p] = <<>> /\ at[p] = 1
    BY <1>3 DEF IInv, LocalOK, CallOK
  <2>3. 1 <= Len(BASELINE)
    BY BaselineAssumption
  <2> QED
    BY <1>2, <1>3, <2>1, <2>2, <2>3 DEF CallOK
<1> QED
  BY <1>3, <1>4, <1>5, OthersKeep DEF IInv

LEMMA BindKeeps ==
    ASSUME LocalOK, NEW p \in Calls, Bind(p) PROVE LocalOK' /\ UNCHANGED docs
<1>1. CASE \E r : Raise(p, r)
  BY <1>1, RaiseKeeps
<1>2. CASE /\ pc' = [pc EXCEPT ![p] = "bind"] /\ at' = [at EXCEPT ![p] = @ + 1]
           /\ at[p] < Len(BASELINE) /\ UNCHANGED <<docs, job, created, seen, made, out>>
  <2>1. LocalTypes' /\ OthersStay(p)
    BY <1>2 DEF LocalOK, LocalTypes, OthersStay, Untouched
  <2>2. pc[p] = "bind" /\ pc'[p] = "bind" /\ at'[p] = at[p] + 1 /\ at[p] \in Nat
    BY <1>2 DEF Bind, LocalOK, LocalTypes
  <2>3. at'[p] <= Len(BASELINE)
    BY <1>2, <2>2, BaselineAssumption
  <2>4. CallOK(p)'
    BY <1>2, <2>2, <2>3 DEF LocalOK, CallOK
  <2> QED
    BY <1>2, <2>1, <2>4, OthersKeep
<1>3. CASE /\ pc' = [pc EXCEPT ![p] = "prepare"] /\ at' = [at EXCEPT ![p] = 1]
           /\ UNCHANGED <<docs, job, created, seen, made, out>>
  <2>1. LocalTypes' /\ OthersStay(p)
    BY <1>3 DEF LocalOK, LocalTypes, OthersStay, Untouched
  <2>2. pc[p] = "bind" /\ pc'[p] = "prepare" /\ at'[p] = 1
    BY <1>3 DEF Bind, LocalOK, LocalTypes
  <2>3. CallOK(p)'
    BY <1>3, <2>2 DEF LocalOK, CallOK
  <2> QED
    BY <1>3, <2>1, <2>3, OthersKeep
<1> QED
  BY <1>1, <1>2, <1>3 DEF Bind, Goto

\* Before the first entry a signer has made none and a verifier has met none.
LEMMA PrepareKeeps ==
    ASSUME LocalOK, NEW p \in Calls, Prepare(p) PROVE LocalOK' /\ UNCHANGED docs
<1>1. CASE \E r : Raise(p, r)
  BY <1>1, RaiseKeeps
<1>2. CASE /\ pc' = [pc EXCEPT ![p] = "entry"] /\ UNCHANGED docs
           /\ UNCHANGED <<job, at, seen, made, out>>
           /\ \/ Signing(p) /\ \E t \in Instant : created' = [created EXCEPT ![p] = t]
              \/ ~Signing(p) /\ UNCHANGED created
  <2>1. LocalTypes' /\ OthersStay(p)
    BY <1>2 DEF LocalOK, LocalTypes, OthersStay, Untouched
  <2>2. /\ pc[p] = "prepare" /\ pc'[p] = "entry" /\ at[p] = 1
        /\ seen[p] = {} /\ made[p] = <<>> /\ job[p] \in SignJobs \cup VerifyJobs
    BY <1>2 DEF Prepare, LocalOK, LocalTypes, CallOK
  <2>3. CASE Signing(p)
    <3>1. created'[p] \in Instant
      BY <1>2, <2>3 DEF LocalOK, LocalTypes
    <3>2. Len(made'[p]) = 0 /\ Len(BASELINE) \in Nat
      BY <1>2, <2>2, BaselineAssumption
    <3>3. SignerOK(p)'
      BY <1>2, <2>2, <3>1, <3>2 DEF SignerOK
    <3> QED
      BY <1>2, <2>1, <2>2, <2>3, <3>3, OthersKeep DEF CallOK, Signing
  <2>4. CASE ~Signing(p)
    <3>1. job[p].bundle.signatures \in Seq(Entry)
      BY <2>2, <2>4 DEF Signing, SignJobs, VerifyJobs, Bundle
    <3>2. VerifierOK(p)'
      BY <1>2, <2>2, <3>1 DEF VerifierOK, Met
    <3> QED
      BY <1>2, <2>1, <2>2, <2>4, <3>2, OthersKeep DEF CallOK, Signing
  <2> QED
    BY <2>3, <2>4
<1> QED
  BY <1>1, <1>2 DEF Prepare, Goto, cvars

-----------------------------------------------------------------------------
(* Entries *)

\* What a call asks openssl about is a message.
LEMMA MessageOK ==
    ASSUME LocalOK, NEW p \in Calls, pc[p] \in {"entry", "openssl"}
    PROVE  /\ job[p] \in SignJobs \cup VerifyJobs /\ Msg(p) \in Message
           /\ ~Signing(p) => job[p].bundle.signatures \in Seq(Entry)
           /\ ~Signing(p) => job[p] \in VerifyJobs
           /\ Signing(p) => job[p] \in SignJobs /\ SignerOK(p)
           /\ ~Signing(p) => VerifierOK(p)
<1>1. job[p] \in SignJobs \cup VerifyJobs
  BY DEF LocalOK, CallOK
<1>2. CASE Signing(p)
  <2>1. job[p] \in SignJobs /\ SignerOK(p)
    BY <1>1, <1>2 DEF LocalOK, CallOK, Signing, SignJobs, VerifyJobs
  <2> QED
    BY <1>1, <1>2, <2>1 DEF SignerOK, SignJobs, Msg, Message
<1>3. CASE ~Signing(p)
  <2>1. job[p] \in VerifyJobs /\ VerifierOK(p)
    BY <1>1, <1>3 DEF LocalOK, CallOK, Signing, SignJobs, VerifyJobs
  <2> QED
    BY <1>1, <1>3, <2>1 DEF VerifyJobs, Bundle, Msg, Message
<1> QED
  BY <1>2, <1>3

LEMMA SignOneKeeps ==
    ASSUME IInv, NEW p \in Calls, SignOne(p) PROVE LocalOK' /\ UNCHANGED docs
<1>1. CASE Raise(p, "private key")
  BY <1>1, RaiseKeeps DEF IInv
<1>2. CASE ~Raise(p, "private key")
  <2> DEFINE s == [algorithm |-> Alg(p), key |-> private[Alg(p)], message |-> Msg(p)]
  <2>1. /\ pc[p] = "entry" /\ Signing(p) /\ at[p] <= Len(BASELINE)
        /\ private[Alg(p)] # NoKey
        /\ out' = [out EXCEPT ![p] = [ok |-> TRUE, value |-> s]]
        /\ pc' = [pc EXCEPT ![p] = "openssl"]
        /\ UNCHANGED <<docs, job, at, created, seen, made>>
    BY <1>2 DEF SignOne, Steps, Goto
  <2>2. at[p] \in Nat \ {0}
    BY DEF IInv, LocalOK, LocalTypes
  <2>3. Alg(p) = BASELINE[at[p]] /\ Alg(p) \in Algorithms
    BY <2>1, <2>2, BaselineAssumption DEF Alg
  <2>4. Msg(p) \in Message /\ SignerOK(p) /\ job[p] \in SignJobs
    BY <2>1, MessageOK DEF IInv
  <2>5. s \in Signature
    BY <2>1, <2>3, <2>4 DEF Signature, IInv, FilesOK
  <2>6. LocalTypes' /\ OthersStay(p)
    BY <2>1, <2>5 DEF IInv, LocalOK, LocalTypes, OthersStay, Untouched
  <2>7. /\ pc'[p] = "openssl" /\ out'[p].value = s /\ Msg(p)' = Msg(p)
        /\ Signing(p)'
    BY <2>1 DEF IInv, LocalOK, LocalTypes, Msg, Signing
  <2>8. SignerOK(p)'
    <3>1. s.algorithm = BASELINE[at[p]] /\ s.message = Msg(p)
      BY <2>3
    <3> HIDE DEF s
    <3> QED
      BY <2>1, <2>4, <2>5, <2>7, <3>1 DEF SignerOK
  <2>9. CallOK(p)'
    BY <2>1, <2>4, <2>7, <2>8 DEF CallOK
  <2> QED
    BY <2>1, <2>6, <2>9, OthersKeep DEF IInv
<1> QED
  BY <1>1, <1>2

LEMMA VerifyOneKeeps ==
    ASSUME LocalOK, NEW p \in Calls, VerifyOne(p) PROVE LocalOK' /\ UNCHANGED docs
<1>1. CASE Raise(p, "entry")
  BY <1>1, RaiseKeeps
<1>2. CASE ~Raise(p, "entry")
  <2> DEFINE entries == job[p].bundle.signatures
  <2>1. /\ pc[p] = "entry" /\ ~Signing(p) /\ at[p] <= Len(entries) /\ Fits(p)
        /\ seen' = [seen EXCEPT ![p] = @ \cup {Alg(p)}]
        /\ out' = [out EXCEPT ![p] = Answer(p)]
        /\ pc' = [pc EXCEPT ![p] = "openssl"]
        /\ UNCHANGED <<docs, job, at, created, made>>
    BY <1>2 DEF VerifyOne, Steps, Goto
  <2>2. /\ Alg(p) = entries[at[p]].algorithm /\ Alg(p) \in Algorithms
        /\ Alg(p) \notin seen[p]
    BY <2>1 DEF Alg, Fits
  <2>3. /\ entries \in Seq(Entry) /\ VerifierOK(p) /\ job[p] \in VerifyJobs
        /\ at[p] \in Nat \ {0} /\ Len(entries) \in Nat
    BY <2>1, MessageOK DEF LocalOK, LocalTypes
  <2>4. Answer(p) \in [ok : BOOLEAN, value : Signature \cup {Nothing}]
    BY DEF Answer
  <2>5. LocalTypes' /\ OthersStay(p)
    BY <2>1, <2>2, <2>4 DEF LocalOK, LocalTypes, OthersStay, Untouched
  <2>6. /\ pc'[p] = "openssl" /\ out'[p] = Answer(p) /\ seen'[p] = seen[p] \cup {Alg(p)}
        /\ Msg(p)' = Msg(p) /\ ~Signing(p)' /\ job'[p] = job[p] /\ at'[p] = at[p]
    BY <2>1 DEF LocalOK, LocalTypes, Msg, Signing
  <2>7. Met(p, at[p])'
    <3>1. Met(p, at[p] - 1)
      BY <2>1, <2>3 DEF VerifierOK
    <3>2. /\ \A i \in 1..(at[p] - 1) : entries[i].algorithm \in seen[p]
          /\ \A a \in seen[p] : \E i \in 1..(at[p] - 1) : entries[i].algorithm = a
          /\ \A i, j \in 1..(at[p] - 1) :
                entries[i].algorithm = entries[j].algorithm => i = j
      BY <3>1 DEF Met
    <3>3. \A i \in 1..at[p] : i = at[p] \/ i \in 1..(at[p] - 1)
      BY <2>3
    <3>4. \A i \in 1..at[p] : entries[i].algorithm \in seen'[p]
      BY <2>2, <2>6, <3>2, <3>3
    <3>5. \A a \in seen'[p] : \E i \in 1..at[p] : entries[i].algorithm = a
      <4>1. at[p] \in 1..at[p] /\ 1..(at[p] - 1) \subseteq 1..at[p]
        BY <2>3
      <4> QED
        BY <2>2, <2>6, <3>2, <4>1
    <3>6. \A i, j \in 1..at[p] : entries[i].algorithm = entries[j].algorithm => i = j
      BY <2>2, <3>2, <3>3
    <3> QED
      BY <2>1, <2>6, <3>4, <3>5, <3>6 DEF Met
  <2>8. out'[p].ok => Checked(p, at[p])'
    <3> DEFINE wanted == [algorithm |-> entries[at[p]].algorithm,
                          key |-> public[entries[at[p]].algorithm], message |-> Msg(p)]
    <3>1. out'[p].ok <=> entries[at[p]].value = wanted
      <4>1. Answer(p).ok = (entries[at[p]].value = wanted)
        BY Zenon DEF Answer
      <4> QED
        BY <2>6, <4>1, Zenon
    <3>2. Checked(p, at[p])' <=> /\ entries[at[p]].value.algorithm = entries[at[p]].algorithm
                                /\ entries[at[p]].value.message = Msg(p)
      BY <2>6 DEF Checked
    <3>3. wanted.algorithm = entries[at[p]].algorithm /\ wanted.message = Msg(p)
      OBVIOUS
    <3> HIDE DEF wanted
    <3> QED
      BY <3>1, <3>2, <3>3
  <2>9. VerifierOK(p)'
    <3>1. \A i \in 1..(at[p] - 1) : Checked(p, i)'
      BY <2>3, <2>6 DEF VerifierOK, Checked
    <3> QED
      BY <2>6, <2>7, <2>8, <3>1 DEF VerifierOK
  <2>10. CallOK(p)'
    BY <2>3, <2>6, <2>9 DEF CallOK
  <2> QED
    BY <2>1, <2>5, <2>10, OthersKeep
<1> QED
  BY <1>1, <1>2

\* The answer of openssl completes an entry.
LEMMA CollectKeeps ==
    ASSUME LocalOK, NEW p \in Calls, Collect(p) PROVE LocalOK' /\ UNCHANGED docs
<1>1. CASE Raise(p, "signature")
  BY <1>1, RaiseKeeps
<1>2. CASE ~Raise(p, "signature")
  <2> DEFINE new == [algorithm |-> Alg(p), bound |-> TRUE, value |-> out[p].value]
  <2>1. /\ pc[p] = "openssl" /\ out[p].ok
        /\ made' = IF Signing(p) THEN [made EXCEPT ![p] = Append(@, new)] ELSE made
        /\ at' = [at EXCEPT ![p] = @ + 1]
        /\ out' = [out EXCEPT ![p] = Nothing]
        /\ pc' = [pc EXCEPT ![p] = "entry"]
        /\ UNCHANGED <<docs, job, created, seen>>
    BY <1>2 DEF Collect, Goto
  <2>2. /\ pc'[p] = "entry" /\ at'[p] = at[p] + 1 /\ at[p] \in Nat \ {0}
        /\ Msg(p)' = Msg(p) /\ Signing(p)' = Signing(p)
    BY <2>1 DEF LocalOK, LocalTypes, Msg, Signing
  <2>3. CASE Signing(p)
    <3>1. SignerOK(p) /\ job[p] \in SignJobs
      BY <2>1, <2>3, MessageOK
    <3>2. Alg(p) = BASELINE[at[p]] /\ BASELINE[at[p]] \in Algorithms
      BY <2>1, <2>2, <2>3, <3>1, BaselineAssumption DEF Alg, SignerOK
    <3>3. /\ new \in Entry
          /\ new.algorithm = BASELINE[at[p]] /\ new.value.algorithm = BASELINE[at[p]]
          /\ new.value.message = Msg(p) /\ new.bound
      BY <2>1, <3>1, <3>2 DEF SignerOK, Entry
    <3> HIDE DEF new
    <3>4. /\ made[p] \in Seq(Entry) /\ made'[p] = Append(made[p], new)
          /\ made' \in [Calls -> Seq(Entry)]
      BY <2>1, <2>3, <3>3 DEF LocalOK, LocalTypes
    <3>5. LocalTypes' /\ OthersStay(p)
      BY <2>1, <2>2, <2>3, <3>4 DEF LocalOK, LocalTypes, OthersStay, Untouched
    <3>6. /\ Len(made[p]) \in Nat /\ Len(made'[p]) = Len(made[p]) + 1
          /\ \A i \in 1..Len(made[p]) : made'[p][i] = made[p][i]
          /\ made'[p][Len(made[p]) + 1] = new
      BY <3>4
    <3>7. SignerOK(p)'
      <4>1. at[p] <= Len(BASELINE) /\ Len(made[p]) = at[p] - 1 /\ Len(BASELINE) \in Nat
        BY <2>1, <3>1, BaselineAssumption DEF SignerOK
      <4>2. ASSUME NEW i \in 1..Len(made'[p])
            PROVE  /\ made'[p][i].algorithm = BASELINE[i] /\ made'[p][i].bound
                   /\ made'[p][i].value.algorithm = BASELINE[i]
                   /\ made'[p][i].value.message = Msg(p)
        <5>1. CASE i = at[p]
          BY <2>2, <3>3, <3>6, <4>1, <5>1
        <5>2. CASE i # at[p]
          <6>1. i \in 1..Len(made[p])
            BY <2>2, <3>6, <4>1, <5>2
          <6> QED
            BY <3>1, <3>6, <6>1 DEF SignerOK
        <5> QED
          BY <5>1, <5>2
      <4> QED
        BY <2>1, <2>2, <3>1, <3>6, <4>1, <4>2 DEF SignerOK
    <3>8. CallOK(p)'
      BY <2>1, <2>2, <2>3, <3>1, <3>7 DEF CallOK
    <3> QED
      BY <2>1, <3>5, <3>8, OthersKeep
  <2>4. CASE ~Signing(p)
    <3>1. VerifierOK(p) /\ job[p] \in VerifyJobs
      BY <2>1, <2>4, MessageOK
    <3>2. LocalTypes' /\ OthersStay(p)
      BY <2>1, <2>4 DEF LocalOK, LocalTypes, OthersStay, Untouched
    <3>3. Met(p, at[p] - 1)'
      <4>1. Met(p, at[p])
        BY <2>1, <3>1 DEF VerifierOK
      <4>2. at'[p] - 1 = at[p] /\ seen' = seen /\ job' = job
        BY <2>1, <2>2
      <4> QED
        BY <4>1, <4>2 DEF Met
    <3>4. (\A i \in 1..(at[p] - 1) : Checked(p, i))'
      <4>1. \A i : Checked(p, i)' <=> Checked(p, i)
        BY <2>1, <2>2 DEF Checked
      <4>2. \A i \in 1..(at'[p] - 1) : i = at[p] \/ i \in 1..(at[p] - 1)
        BY <2>2
      <4> QED
        BY <2>1, <2>2, <3>1, <4>1, <4>2 DEF VerifierOK
    <3>5. VerifierOK(p)'
      BY <2>2, <3>3, <3>4 DEF VerifierOK
    <3>6. CallOK(p)'
      BY <2>1, <2>2, <2>4, <3>1, <3>5 DEF CallOK
    <3> QED
      BY <2>1, <3>2, <3>6, OthersKeep
  <2> QED
    BY <2>3, <2>4
<1> QED
  BY <1>1, <1>2

-----------------------------------------------------------------------------
(* Documents *)

\* Entries that name every algorithm once are as many as there are algorithms.
LEMMA OncePerAlgorithm ==
    ASSUME NEW n \in Nat, NEW f \in [1..n -> Algorithms],
           \A i, j \in 1..n : f[i] = f[j] => i = j,
           \A a \in Algorithms : \E i \in 1..n : f[i] = a
    PROVE  Cardinality(Algorithms) = n
<1>1. IsFiniteSet(1..n) /\ Cardinality(1..n) = n
  BY FS_Interval
<1>2. f \in Bijection(1..n, Algorithms)
  BY DEF Bijection, Injection, Surjection, IsInjective
<1>3. ExistsBijection(1..n, Algorithms)
  BY <1>2 DEF ExistsBijection
<1> QED
  BY <1>1, <1>3, FS_Bijection

LEMMA SignerReturns ==
    ASSUME LocalOK, NEW p \in Calls, pc[p] = "entry", Signing(p), at[p] > Steps(p)
    PROVE  LET pair == [manifest |-> job[p].manifest, bundle |-> Signed(p)]
           IN  pair \in Pair /\ Hybrid(pair)
<1> DEFINE n == Len(BASELINE)
           pair == [manifest |-> job[p].manifest, bundle |-> Signed(p)]
<1>1. /\ SignerOK(p) /\ job[p] \in SignJobs
      /\ made[p] \in Seq(Entry) /\ at[p] \in Nat \ {0}
  BY MessageOK DEF LocalOK, LocalTypes
<1>2. n \in Nat /\ at[p] > n /\ Len(made[p]) = n
  BY <1>1, BaselineAssumption DEF SignerOK, Steps
<1>3. pair \in Pair
  BY <1>1 DEF Pair, Signed, Bundle, SignerOK, SignJobs
<1>4. Cardinality(Algorithms) = n
  <2> DEFINE f == [i \in 1..n |-> BASELINE[i]]
  <2>1. f \in [1..n -> Algorithms]
    BY BaselineAssumption
  <2>2. /\ \A i, j \in 1..n : f[i] = f[j] => i = j
        /\ \A a \in Algorithms : \E i \in 1..n : f[i] = a
    BY BaselineAssumption
  <2> HIDE DEF f
  <2> QED
    BY <1>2, <2>1, <2>2, OncePerAlgorithm
<1>5. ASSUME NEW a \in Algorithms
      PROVE  \E i \in EntriesFor(pair.bundle, a) :
               LET s == pair.bundle.signatures[i].value IN
               /\ s.algorithm = a
               /\ s.message = [manifest |-> pair.manifest, created |-> pair.bundle.created]
  <2>1. PICK i \in 1..n : BASELINE[i] = a
    BY BaselineAssumption
  <2>2. /\ made[p][i].algorithm = a /\ made[p][i].value.algorithm = a
        /\ made[p][i].value.message
              = [manifest |-> job[p].manifest, created |-> created[p]]
    BY <1>1, <1>2, <2>1 DEF SignerOK, Msg
  <2> QED
    BY <1>2, <2>2 DEF EntriesFor, Signed
<1>6. Hybrid(pair)
  BY <1>2, <1>4, <1>5 DEF Hybrid, Signed
<1> QED
  BY <1>3, <1>6

LEMMA VerifierReturns ==
    ASSUME LocalOK, NEW p \in Calls, pc[p] = "entry", ~Signing(p), at[p] > Steps(p),
           seen[p] = Algorithms
    PROVE  LET pair == [manifest |-> job[p].manifest, bundle |-> job[p].bundle]
           IN  pair \in Pair /\ Hybrid(pair)
<1> DEFINE entries == job[p].bundle.signatures
           n == Len(entries)
           pair == [manifest |-> job[p].manifest, bundle |-> job[p].bundle]
<1>1. /\ VerifierOK(p) /\ job[p] \in VerifyJobs /\ entries \in Seq(Entry)
      /\ at[p] \in Nat \ {0} /\ n \in Nat
  BY MessageOK DEF LocalOK, LocalTypes
<1>2. at[p] > n /\ Met(p, at[p] - 1)
  BY <1>1 DEF VerifierOK, Steps
<1>3. at[p] - 1 = n
  BY <1>1, <1>2 DEF Met
<1>4. pair \in Pair
  BY <1>1 DEF Pair, VerifyJobs
<1>5. /\ \A i \in 1..n : entries[i].algorithm \in Algorithms
      /\ \A a \in Algorithms : \E i \in 1..n : entries[i].algorithm = a
      /\ \A i, j \in 1..n : entries[i].algorithm = entries[j].algorithm => i = j
  BY <1>2, <1>3 DEF Met
<1>6. Cardinality(Algorithms) = n
  <2> DEFINE f == [i \in 1..n |-> entries[i].algorithm]
  <2>1. /\ f \in [1..n -> Algorithms]
        /\ \A i, j \in 1..n : f[i] = f[j] => i = j
        /\ \A a \in Algorithms : \E i \in 1..n : f[i] = a
    BY <1>5
  <2> HIDE DEF f
  <2> QED
    BY <1>1, <2>1, OncePerAlgorithm
<1>7. \A i \in 1..n : Checked(p, i)
  BY <1>1, <1>3 DEF VerifierOK
<1>8. ASSUME NEW a \in Algorithms
      PROVE  \E i \in EntriesFor(pair.bundle, a) :
               LET s == pair.bundle.signatures[i].value IN
               /\ s.algorithm = a
               /\ s.message = [manifest |-> pair.manifest, created |-> pair.bundle.created]
  <2>1. PICK i \in 1..n : entries[i].algorithm = a
    BY <1>5
  <2> QED
    BY <1>7, <2>1 DEF EntriesFor, Checked, Msg, Signing
<1>9. Hybrid(pair)
  BY <1>6, <1>8 DEF Hybrid
<1> QED
  BY <1>4, <1>9

LEMMA ReturnKeeps ==
    ASSUME LocalOK, DocsOK, NEW p \in Calls, Return(p) PROVE LocalOK' /\ DocsOK'
<1>1. CASE Signing(p)
  <2>1. /\ pc[p] = "entry" /\ at[p] > Steps(p) /\ accepted' = accepted
        /\ released' = released
              \cup {[manifest |-> job[p].manifest, bundle |-> Signed(p)]}
        /\ Forget(p, "returned")
    BY <1>1 DEF Return
  <2> QED
    BY <1>1, <2>1, SignerReturns, ForgetKeeps DEF DocsOK, AcceptedHybrid, ReleasedHybrid
<1>2. CASE ~Signing(p) /\ seen[p] = Algorithms
  <2>1. /\ pc[p] = "entry" /\ at[p] > Steps(p) /\ released' = released
        /\ accepted' = accepted
              \cup {[manifest |-> job[p].manifest, bundle |-> job[p].bundle]}
        /\ Forget(p, "returned")
    BY <1>2 DEF Return
  <2> QED
    BY <1>2, <2>1, VerifierReturns, ForgetKeeps DEF DocsOK, AcceptedHybrid, ReleasedHybrid
<1>3. CASE ~Signing(p) /\ seen[p] # Algorithms
  <2>1. Raise(p, "baseline incomplete")
    BY <1>3 DEF Return
  <2>2. LocalOK' /\ UNCHANGED docs
    BY <2>1, RaiseKeeps
  <2> QED
    BY <2>2 DEF docs, DocsOK, AcceptedHybrid, ReleasedHybrid
<1> QED
  BY <1>1, <1>2, <1>3

-----------------------------------------------------------------------------

LEMMA BundleInit == Init => IInv
<1> SUFFICES ASSUME Init PROVE IInv
  OBVIOUS
<1>1. LocalTypes
  BY DEF Init, LocalTypes
<1>2. \A p \in Calls : CallOK(p)
  BY DEF Init, CallOK
<1>3. DocsOK
  BY DEF Init, DocsOK, AcceptedHybrid, ReleasedHybrid
<1>4. FilesOK
  BY InputAssumption DEF Init, FilesOK
<1> QED
  BY <1>1, <1>2, <1>3, <1>4 DEF IInv, LocalOK

LEMMA BundleStep == IInv /\ [Next]_vars => IInv'
<1> SUFFICES ASSUME IInv, [Next]_vars PROVE IInv'
  OBVIOUS
<1>1. ASSUME LocalOK', UNCHANGED docs, UNCHANGED kvars PROVE IInv'
  BY <1>1 DEF IInv, docs, kvars, DocsOK, FilesOK, AcceptedHybrid, ReleasedHybrid
<1>2. ASSUME NEW p \in Calls, Start(p) PROVE IInv'
  <2>1. UNCHANGED kvars
    BY <1>2 DEF Start
  <2> QED
    BY <1>1, <1>2, <2>1, StartKeeps
<1>3. ASSUME NEW p \in Calls, Bind(p) PROVE IInv'
  <2>1. UNCHANGED kvars
    BY <1>3 DEF Bind
  <2> QED
    BY <1>1, <1>3, <2>1, BindKeeps DEF IInv
<1>4. ASSUME NEW p \in Calls, Prepare(p) PROVE IInv'
  <2>1. UNCHANGED kvars
    BY <1>4 DEF Prepare
  <2> QED
    BY <1>1, <1>4, <2>1, PrepareKeeps DEF IInv
<1>5. ASSUME NEW p \in Calls, SignOne(p) PROVE IInv'
  <2>1. UNCHANGED kvars
    BY <1>5 DEF SignOne
  <2> QED
    BY <1>1, <1>5, <2>1, SignOneKeeps
<1>6. ASSUME NEW p \in Calls, VerifyOne(p) PROVE IInv'
  <2>1. UNCHANGED kvars
    BY <1>6 DEF VerifyOne
  <2> QED
    BY <1>1, <1>6, <2>1, VerifyOneKeeps DEF IInv
<1>7. ASSUME NEW p \in Calls, Collect(p) PROVE IInv'
  <2>1. UNCHANGED kvars
    BY <1>7 DEF Collect
  <2> QED
    BY <1>1, <1>7, <2>1, CollectKeeps DEF IInv
<1>8. ASSUME NEW p \in Calls, Timeout(p) \/ IoError(p) PROVE IInv'
  <2>1. UNCHANGED kvars /\ \E r : Raise(p, r)
    BY <1>8 DEF Timeout, IoError
  <2> QED
    BY <1>1, <2>1, RaiseKeeps DEF IInv
<1>9. ASSUME NEW p \in Calls, Return(p) PROVE IInv'
  <2>1. UNCHANGED kvars
    BY <1>9 DEF Return
  <2> QED
    BY <1>9, <2>1, ReturnKeeps DEF IInv, FilesOK, kvars
<1>10. ASSUME NEW a \in Algorithms, NEW k \in Key \cup {NoKey}, Replace(a, k) PROVE IInv'
  <2>1. FilesOK'
    BY <1>10, InputAssumption DEF Replace, IInv, FilesOK
  <2>2. UNCHANGED <<docs, pc, cvars>>
    BY <1>10 DEF Replace
  <2>3. LocalOK'
    BY <2>2, LocalsStay DEF IInv
  <2> QED
    BY <2>1, <2>2, <2>3 DEF docs, IInv, DocsOK, AcceptedHybrid, ReleasedHybrid
<1>11. CASE UNCHANGED vars
  <2>1. LocalOK' /\ UNCHANGED docs /\ UNCHANGED kvars
    BY <1>11, LocalsStay DEF IInv, vars, kvars
  <2> QED
    BY <1>1, <2>1
<1> QED
  BY <1>2, <1>3, <1>4, <1>5, <1>6, <1>7, <1>8, <1>9, <1>10, <1>11 DEF Next, Work

\* Every call's locals and every document keep their types.
THEOREM BundleTypesStay == Spec => []TypeOK
<1>1. IInv => TypeOK
  BY DEF IInv, LocalOK, LocalTypes, DocsOK, FilesOK, TypeOK
<1> QED
  BY <1>1, BundleInit, BundleStep, PTL DEF Spec

\* verify_bundle accepts nothing but one signature per algorithm of the baseline, all
\* over the manifest and the time it was called with, whatever key files the openssl
\* processes find and however many calls run at once.
THEOREM AcceptedStaysHybrid == Spec => []AcceptedHybrid
<1>1. IInv => AcceptedHybrid
  BY DEF IInv, DocsOK
<1> QED
  BY <1>1, BundleInit, BundleStep, PTL DEF Spec

\* The same of what sign_manifest returns, though it signs one algorithm after another.
THEOREM ReleasedStaysHybrid == Spec => []ReleasedHybrid
<1>1. IInv => ReleasedHybrid
  BY DEF IInv, DocsOK
<1> QED
  BY <1>1, BundleInit, BundleStep, PTL DEF Spec
-----------------------------------------------------------------------------
(* Keys, for as long as no key file is replaced *)

\* The public keys a call has compared are those its manifest names.
PublicKeyed(p) ==
    LET keys == job[p].manifest.keys
    IN  /\ pc[p] = "bind" =>
              \A i \in 1..(at[p] - 1) : public[BASELINE[i]] = keys[BASELINE[i]]
        /\ pc[p] \in {"prepare", "entry", "openssl"} =>
              \A a \in Algorithms : public[a] = keys[a]

\* So are the keys of the signatures a signer has made,
SignerKeyed(p) ==
    LET keys == job[p].manifest.keys
    IN  /\ pc[p] \in {"entry", "openssl"} =>
              \A i \in 1..Len(made[p]) : made[p][i].value.key = keys[BASELINE[i]]
        /\ pc[p] = "openssl" => out[p].value.key = keys[BASELINE[at[p]]]

\* and of those a verifier has checked.
VerifierKeyed(p) ==
    LET keys == job[p].manifest.keys
        entries == job[p].bundle.signatures
    IN  /\ pc[p] \in {"entry", "openssl"} =>
              \A i \in 1..(at[p] - 1) : entries[i].value.key = keys[entries[i].algorithm]
        /\ pc[p] = "openssl" /\ out[p].ok =>
              entries[at[p]].value.key = keys[entries[at[p]].algorithm]

Keyed(p) ==
    /\ PublicKeyed(p)
    /\ IF Signing(p) THEN SignerKeyed(p) ELSE VerifierKeyed(p)

KeysUnmoved == public = private /\ \A p \in Calls : Keyed(p)

KInv == IInv /\ (replaced = 0 => KeysUnmoved)

LEMMA OthersKeyed ==
    ASSUME KeysUnmoved, UNCHANGED kvars, NEW p \in Calls, OthersStay(p), Keyed(p)'
    PROVE  KeysUnmoved'
<1>1. ASSUME NEW q \in Calls, q # p PROVE Keyed(q)'
  <2>1. /\ pc'[q] = pc[q] /\ job'[q] = job[q] /\ at'[q] = at[q]
        /\ made'[q] = made[q] /\ out'[q] = out[q] /\ public' = public
    BY <1>1 DEF OthersStay, Untouched, kvars
  <2>2. Keyed(q) /\ Signing(q)' = Signing(q)
    BY <2>1 DEF KeysUnmoved, Signing
  <2>3. PublicKeyed(q)' <=> PublicKeyed(q)
    BY <2>1 DEF PublicKeyed
  <2>4. SignerKeyed(q)' <=> SignerKeyed(q)
    BY <2>1 DEF SignerKeyed
  <2>5. VerifierKeyed(q)' <=> VerifierKeyed(q)
    BY <2>1 DEF VerifierKeyed
  <2> QED
    BY <2>1, <2>2, <2>3, <2>4, <2>5 DEF Keyed
<1> QED
  BY <1>1 DEF KeysUnmoved, kvars

LEMMA ForgetKeyed ==
    ASSUME LocalOK, KeysUnmoved, UNCHANGED kvars, NEW p \in Calls, NEW r, Forget(p, r)
    PROVE  KeysUnmoved'
<1>1. OthersStay(p) /\ pc'[p] = "idle"
  BY DEF LocalOK, LocalTypes, Forget, OthersStay, Untouched
<1>2. Keyed(p)'
  BY <1>1 DEF Keyed, PublicKeyed, SignerKeyed, VerifierKeyed
<1> QED
  BY <1>1, <1>2, OthersKeyed

\* Once every descriptor is bound, all public keys are the manifest's.
LEMMA BindKeyed ==
    ASSUME LocalOK, KeysUnmoved, NEW p \in Calls, Bind(p) PROVE KeysUnmoved'
<1>1. UNCHANGED kvars /\ pc[p] = "bind" /\ at[p] \in Nat \ {0}
  BY DEF Bind, LocalOK, LocalTypes
<1>2. CASE \E r : Raise(p, r)
  BY <1>1, <1>2, ForgetKeyed DEF Raise
<1>3. CASE ~\E r : Raise(p, r)
  <2>1. /\ public[BASELINE[at[p]]] = job[p].manifest.keys[BASELINE[at[p]]]
        /\ UNCHANGED <<job, created, seen, made, out>>
        /\ \/ pc' = [pc EXCEPT ![p] = "bind"] /\ at' = [at EXCEPT ![p] = @ + 1]
           \/ /\ pc' = [pc EXCEPT ![p] = "prepare"] /\ at' = [at EXCEPT ![p] = 1]
              /\ at[p] = Len(BASELINE)
    BY <1>3 DEF Bind, Bound, Goto
  <2>2. OthersStay(p)
    BY <2>1 DEF LocalOK, LocalTypes, OthersStay, Untouched
  <2>3. \A i \in 1..at[p] : public[BASELINE[i]] = job[p].manifest.keys[BASELINE[i]]
    <3>1. \A i \in 1..(at[p] - 1) : public[BASELINE[i]] = job[p].manifest.keys[BASELINE[i]]
      BY <1>1 DEF KeysUnmoved, Keyed, PublicKeyed, SignerKeyed, VerifierKeyed
    <3>2. \A i \in 1..at[p] : i = at[p] \/ i \in 1..(at[p] - 1)
      BY <1>1
    <3> QED
      BY <2>1, <3>1, <3>2
  <2>4. CASE pc' = [pc EXCEPT ![p] = "bind"] /\ at' = [at EXCEPT ![p] = @ + 1]
    <3>1. pc'[p] = "bind" /\ at'[p] - 1 = at[p] /\ job'[p] = job[p] /\ public' = public
      BY <1>1, <2>1, <2>4 DEF LocalOK, LocalTypes, kvars
    <3>2. Keyed(p)'
      BY <2>3, <3>1 DEF Keyed, PublicKeyed, SignerKeyed, VerifierKeyed
    <3> QED
      BY <1>1, <2>2, <3>2, OthersKeyed
  <2>5. CASE pc' = [pc EXCEPT ![p] = "prepare"] /\ at[p] = Len(BASELINE)
    <3>1. pc'[p] = "prepare" /\ job'[p] = job[p] /\ public' = public
      BY <1>1, <2>1, <2>5 DEF LocalOK, LocalTypes, kvars
    <3>2. ASSUME NEW a \in Algorithms PROVE public[a] = job[p].manifest.keys[a]
      <4>1. PICK i \in 1..Len(BASELINE) : BASELINE[i] = a
        BY BaselineAssumption
      <4> QED
        BY <2>3, <2>5, <4>1
    <3>3. Keyed(p)'
      BY <3>1, <3>2 DEF Keyed, PublicKeyed, SignerKeyed, VerifierKeyed
    <3> QED
      BY <1>1, <2>2, <3>3, OthersKeyed
  <2> QED
    BY <2>1, <2>4, <2>5
<1> QED
  BY <1>2, <1>3

LEMMA StartKeyed ==
    ASSUME LocalOK, KeysUnmoved, NEW p \in Calls, Start(p) PROVE KeysUnmoved'
<1>1. /\ UNCHANGED kvars /\ pc[p] = "idle" /\ pc' = [pc EXCEPT ![p] = "bind"]
      /\ \E j : job' = [job EXCEPT ![p] = j]
      /\ UNCHANGED <<at, created, seen, made, out>>
  BY DEF Start
<1>2. OthersStay(p) /\ pc'[p] = "bind" /\ at'[p] = 1
  BY <1>1 DEF LocalOK, LocalTypes, CallOK, OthersStay, Untouched
<1>3. Keyed(p)'
  BY <1>2 DEF Keyed, PublicKeyed, SignerKeyed, VerifierKeyed
<1> QED
  BY <1>1, <1>2, <1>3, OthersKeyed

LEMMA PrepareKeyed ==
    ASSUME LocalOK, KeysUnmoved, NEW p \in Calls, Prepare(p) PROVE KeysUnmoved'
<1>1. UNCHANGED kvars /\ pc[p] = "prepare"
  BY DEF Prepare
<1>2. CASE \E r : Raise(p, r)
  BY <1>1, <1>2, ForgetKeyed DEF Raise
<1>3. CASE ~\E r : Raise(p, r)
  <2>1. /\ pc' = [pc EXCEPT ![p] = "entry"] /\ UNCHANGED <<job, at, seen, made, out>>
        /\ (\E t \in Instant : created' = [created EXCEPT ![p] = t]) \/ UNCHANGED created
    BY <1>3 DEF Prepare, Goto, cvars
  <2>2. OthersStay(p) /\ pc'[p] = "entry"
    BY <2>1 DEF LocalOK, LocalTypes, OthersStay, Untouched
  <2>3. at[p] = 1 /\ made[p] = <<>> /\ public' = public
    BY <1>1 DEF LocalOK, CallOK, kvars
  <2>4. \A a \in Algorithms : public[a] = job[p].manifest.keys[a]
    BY <1>1 DEF KeysUnmoved, Keyed, PublicKeyed, SignerKeyed, VerifierKeyed
  <2>5. Keyed(p)'
    BY <2>1, <2>2, <2>3, <2>4 DEF Keyed, PublicKeyed, SignerKeyed, VerifierKeyed
  <2> QED
    BY <1>1, <2>2, <2>5, OthersKeyed
<1> QED
  BY <1>2, <1>3

\* openssl signs with the private key, which goes with the public key that is bound.
LEMMA SignOneKeyed ==
    ASSUME LocalOK, KeysUnmoved, NEW p \in Calls, SignOne(p) PROVE KeysUnmoved'
<1>1. UNCHANGED kvars /\ pc[p] = "entry" /\ Signing(p)
  BY DEF SignOne
<1>2. CASE Raise(p, "private key")
  BY <1>1, <1>2, ForgetKeyed DEF Raise
<1>3. CASE ~Raise(p, "private key")
  <2> DEFINE s == [algorithm |-> Alg(p), key |-> private[Alg(p)], message |-> Msg(p)]
  <2>1. /\ out' = [out EXCEPT ![p] = [ok |-> TRUE, value |-> s]]
        /\ pc' = [pc EXCEPT ![p] = "openssl"] /\ at[p] <= Len(BASELINE)
        /\ UNCHANGED <<job, at, created, seen, made>>
    BY <1>1, <1>3 DEF SignOne, Goto, Steps
  <2>2. OthersStay(p) /\ pc'[p] = "openssl" /\ out'[p].value = s
    BY <2>1 DEF LocalOK, LocalTypes, OthersStay, Untouched
  <2>3. Alg(p) = BASELINE[at[p]] /\ Alg(p) \in Algorithms
    BY <1>1, <2>1, BaselineAssumption DEF Alg, LocalOK, LocalTypes
  <2>4. s.key = job[p].manifest.keys[BASELINE[at[p]]]
    BY <1>1, <2>3 DEF KeysUnmoved, Keyed, PublicKeyed, SignerKeyed, VerifierKeyed
  <2> HIDE DEF s
  <2>5. Signing(p)' = Signing(p) /\ public' = public
    BY <1>1, <2>1 DEF Signing, kvars
  <2>6. Keyed(p)'
    BY <1>1, <2>1, <2>2, <2>4, <2>5 DEF KeysUnmoved, Keyed, PublicKeyed, SignerKeyed, VerifierKeyed
  <2> QED
    BY <1>1, <2>2, <2>6, OthersKeyed
<1> QED
  BY <1>2, <1>3

LEMMA VerifyOneKeyed ==
    ASSUME LocalOK, KeysUnmoved, NEW p \in Calls, VerifyOne(p) PROVE KeysUnmoved'
<1>1. UNCHANGED kvars /\ pc[p] = "entry" /\ ~Signing(p)
  BY DEF VerifyOne
<1>2. CASE Raise(p, "entry")
  BY <1>1, <1>2, ForgetKeyed DEF Raise
<1>3. CASE ~Raise(p, "entry")
  <2> DEFINE e == job[p].bundle.signatures[at[p]]
  <2>1. /\ out' = [out EXCEPT ![p] = Answer(p)] /\ Fits(p)
        /\ seen' = [seen EXCEPT ![p] = @ \cup {Alg(p)}]
        /\ pc' = [pc EXCEPT ![p] = "openssl"]
        /\ UNCHANGED <<job, at, created, made>>
    BY <1>3 DEF VerifyOne, Goto
  <2>2. OthersStay(p) /\ pc'[p] = "openssl" /\ out'[p] = Answer(p)
    BY <2>1 DEF LocalOK, LocalTypes, OthersStay, Untouched
  <2>3. Answer(p).ok => e.value.key = job[p].manifest.keys[e.algorithm]
    <3>1. Answer(p).ok = (e.value = [algorithm |-> e.algorithm,
                                     key |-> public[e.algorithm], message |-> Msg(p)])
      BY Zenon DEF Answer
    <3>2. public[e.algorithm] = job[p].manifest.keys[e.algorithm]
      BY <1>1, <2>1 DEF Fits, KeysUnmoved, Keyed, PublicKeyed, SignerKeyed, VerifierKeyed
    <3>3. Answer(p).ok => e.value = [algorithm |-> e.algorithm,
                                     key |-> public[e.algorithm], message |-> Msg(p)]
      BY <3>1, Zenon
    <3> HIDE DEF e
    <3> QED
      BY <3>2, <3>3
  <2>4. out'[p].ok => e.value.key = job[p].manifest.keys[e.algorithm]
    BY <2>2, <2>3
  <2>5. Signing(p)' = Signing(p) /\ public' = public
    BY <1>1, <2>1 DEF Signing, kvars
  <2>6. Keyed(p)'
    BY <1>1, <2>1, <2>2, <2>4, <2>5 DEF KeysUnmoved, Keyed, PublicKeyed, SignerKeyed, VerifierKeyed
  <2> QED
    BY <1>1, <2>2, <2>6, OthersKeyed
<1> QED
  BY <1>2, <1>3

LEMMA CollectKeyed ==
    ASSUME LocalOK, KeysUnmoved, NEW p \in Calls, Collect(p) PROVE KeysUnmoved'
<1>1. UNCHANGED kvars /\ pc[p] = "openssl" /\ at[p] \in Nat \ {0}
  BY DEF Collect, LocalOK, LocalTypes
<1>2. CASE Raise(p, "signature")
  BY <1>1, <1>2, ForgetKeyed DEF Raise
<1>3. CASE ~Raise(p, "signature")
  <2> DEFINE new == [algorithm |-> Alg(p), bound |-> TRUE, value |-> out[p].value]
             keys == job[p].manifest.keys
             entries == job[p].bundle.signatures
  <2>1. /\ out[p].ok
        /\ made' = IF Signing(p) THEN [made EXCEPT ![p] = Append(@, new)] ELSE made
        /\ at' = [at EXCEPT ![p] = @ + 1] /\ out' = [out EXCEPT ![p] = Nothing]
        /\ pc' = [pc EXCEPT ![p] = "entry"] /\ UNCHANGED <<job, created, seen>>
    BY <1>3 DEF Collect, Goto
  <2>2. OthersStay(p) /\ pc'[p] = "entry" /\ at'[p] = at[p] + 1
    BY <2>1 DEF LocalOK, LocalTypes, OthersStay, Untouched
  <2>3. Signing(p)' = Signing(p) /\ public' = public /\ job' = job
    BY <1>1, <2>1 DEF Signing, kvars
  <2>4. \A a \in Algorithms : public[a] = keys[a]
    BY <1>1 DEF KeysUnmoved, Keyed, PublicKeyed, SignerKeyed, VerifierKeyed
  <2>5. CASE Signing(p)
    <3>1. SignerOK(p)
      BY <1>1, <2>5, MessageOK
    <3>2. /\ made[p] \in Seq(Entry) /\ made'[p] = Append(made[p], new)
          /\ Len(made[p]) = at[p] - 1 /\ new.value.key = keys[BASELINE[at[p]]]
      BY <1>1, <2>1, <2>5, <3>1 DEF LocalOK, LocalTypes, SignerOK, KeysUnmoved, Keyed, PublicKeyed, SignerKeyed, VerifierKeyed
    <3> HIDE DEF new
    <3>3. /\ Len(made'[p]) = at[p] /\ made'[p][at[p]] = new
          /\ \A i \in 1..(at[p] - 1) : made'[p][i] = made[p][i]
      BY <1>1, <3>2
    <3>4. \A i \in 1..Len(made'[p]) : i = at[p] \/ i \in 1..(at[p] - 1)
      BY <1>1, <3>3
    <3>5. \A i \in 1..(at[p] - 1) : made[p][i].value.key = keys[BASELINE[i]]
      BY <1>1, <2>5, <3>2 DEF KeysUnmoved, Keyed, PublicKeyed, SignerKeyed, VerifierKeyed
    <3>6. \A i \in 1..Len(made'[p]) : made'[p][i].value.key = keys[BASELINE[i]]
      BY <3>2, <3>3, <3>4, <3>5
    <3>7. Keyed(p)'
      BY <2>2, <2>3, <2>4, <2>5, <3>6 DEF Keyed, PublicKeyed, SignerKeyed, VerifierKeyed
    <3> QED
      BY <1>1, <2>2, <3>7, OthersKeyed
  <2>6. CASE ~Signing(p)
    <3>1. \A i \in 1..(at'[p] - 1) : i = at[p] \/ i \in 1..(at[p] - 1)
      BY <1>1, <2>2
    <3>2. /\ entries[at[p]].value.key = keys[entries[at[p]].algorithm]
          /\ \A i \in 1..(at[p] - 1) : entries[i].value.key = keys[entries[i].algorithm]
      BY <1>1, <2>1, <2>6 DEF KeysUnmoved, Keyed, PublicKeyed, SignerKeyed, VerifierKeyed
    <3>3. \A i \in 1..(at'[p] - 1) : entries[i].value.key = keys[entries[i].algorithm]
      BY <3>1, <3>2
    <3>4. Keyed(p)'
      BY <2>2, <2>3, <2>4, <2>6, <3>3 DEF Keyed, PublicKeyed, SignerKeyed, VerifierKeyed
    <3> QED
      BY <1>1, <2>2, <3>4, OthersKeyed
  <2> QED
    BY <2>5, <2>6
<1> QED
  BY <1>2, <1>3

LEMMA KeyedStep == KInv /\ [Next]_vars => KInv'
<1> SUFFICES ASSUME KInv, [Next]_vars, replaced' = 0 PROVE KeysUnmoved'
  BY BundleStep DEF KInv
<1>1. LocalOK /\ replaced \in Nat
  BY DEF KInv, IInv, FilesOK
<1>2. ASSUME replaced = 0 PROVE KeysUnmoved
  BY <1>2 DEF KInv
<1>3. ASSUME NEW p \in Calls, NEW r, Forget(p, r), UNCHANGED kvars PROVE KeysUnmoved'
  BY <1>1, <1>2, <1>3, ForgetKeyed DEF kvars
<1>4. ASSUME NEW p \in Calls,
             Start(p) \/ Bind(p) \/ Prepare(p) \/ SignOne(p) \/ VerifyOne(p) \/ Collect(p)
      PROVE  KeysUnmoved'
  <2>1. KeysUnmoved
    BY <1>2, <1>4 DEF kvars, Start, Bind, Prepare, SignOne, VerifyOne, Collect
  <2> QED
    BY <1>1, <1>4, <2>1, StartKeyed, BindKeyed, PrepareKeyed, SignOneKeyed,
       VerifyOneKeyed, CollectKeyed
<1>5. ASSUME NEW p \in Calls, Timeout(p) \/ IoError(p) \/ Return(p) PROVE KeysUnmoved'
  <2>1. UNCHANGED kvars /\ \E r : Forget(p, r)
    BY <1>5 DEF Timeout, IoError, Return, Raise
  <2> QED
    BY <1>3, <2>1
<1>6. ASSUME NEW a \in Algorithms, NEW k \in Key \cup {NoKey}, Replace(a, k) PROVE FALSE
  BY <1>1, <1>6 DEF Replace
<1>7. CASE UNCHANGED vars
  <2>1. KeysUnmoved
    BY <1>2, <1>7 DEF vars, kvars
  <2> QED
    BY <1>7, <2>1 DEF vars, kvars, cvars, KeysUnmoved, Keyed, PublicKeyed, SignerKeyed, VerifierKeyed, Signing
<1> QED
  BY <1>4, <1>5, <1>6, <1>7 DEF Next, Work

\* Documents whose entries are all by the keys of the manifest are the baseline's.
LEMMA PairImplements ==
    ASSUME NEW pair \in Pair, Hybrid(pair),
           \A i \in 1..Len(pair.bundle.signatures) :
              LET e == pair.bundle.signatures[i]
              IN  /\ e.value.algorithm = e.algorithm
                  /\ e.value.message.manifest = pair.manifest
                  /\ e.value.key = pair.manifest.keys[e.algorithm]
    PROVE  AsDocument(pair) \in B!Document /\ B!Complete(AsDocument(pair))
<1> DEFINE d == AsDocument(pair)
           Of(a) == pair.bundle.signatures[CHOOSE i \in EntriesFor(pair.bundle, a) : TRUE].value
<1>1. ASSUME NEW a \in Algorithms
      PROVE  /\ Of(a).algorithm = a /\ Of(a).message.manifest = pair.manifest
             /\ Of(a).key = pair.manifest.keys[a]
  <2>1. EntriesFor(pair.bundle, a) # {}
    BY DEF Hybrid
  <2>2. (CHOOSE i \in EntriesFor(pair.bundle, a) : TRUE) \in EntriesFor(pair.bundle, a)
    BY <2>1
  <2> QED
    BY <2>2 DEF EntriesFor
<1>2. /\ d.manifest = pair.manifest
      /\ d.signatures = [a \in Algorithms |-> [key |-> Of(a).key,
            message |-> [algorithm |-> Of(a).algorithm,
                         manifest |-> Of(a).message.manifest]]]
      /\ d = [manifest |-> d.manifest, signatures |-> d.signatures]
  BY DEF AsDocument
<1> HIDE DEF d, Of
<1> DEFINE s == d.signatures
           right(a) == [key |-> pair.manifest.keys[a],
                        message |-> [algorithm |-> a, manifest |-> pair.manifest]]
<1>3. DOMAIN s = Algorithms /\ \A a \in Algorithms : s[a] = right(a)
  BY <1>1, <1>2
<1> HIDE DEF s
<1>4. pair.manifest \in Manifest /\ pair.manifest \in B!Manifest
  BY DEF Pair, Manifest, B!Manifest
<1>5. d.signatures \in [Algorithms -> B!Signature]
  <2>1. ASSUME NEW a \in Algorithms PROVE right(a) \in B!Signature
    <3>1. pair.manifest.keys[a] \in Key
      BY <1>4 DEF Manifest
    <3>2. [algorithm |-> a, manifest |-> pair.manifest] \in B!Message
      BY <1>4 DEF B!Message
    <3> QED
      BY <3>1, <3>2 DEF B!Signature
  <2>2. s = [a \in Algorithms |-> s[a]]
    BY <1>2 DEF s
  <2> HIDE DEF right
  <2>3. s \in [Algorithms -> B!Signature]
    BY <1>3, <2>1, <2>2
  <2> QED
    BY <2>3 DEF s
<1>6. d \in B!Document
  BY <1>2, <1>4, <1>5 DEF B!Document
<1>7. B!Complete(d)
  <2>1. ASSUME NEW a \in Algorithms
        PROVE  B!Verifies(pair.manifest.keys[a], B!MessageFor(a, pair.manifest), s[a])
    <3>1. s[a] = right(a)
      BY <1>3
    <3>2. right(a).key = pair.manifest.keys[a]
             /\ right(a).message = [algorithm |-> a, manifest |-> pair.manifest]
      OBVIOUS
    <3> HIDE DEF right
    <3> QED
      BY <3>1, <3>2 DEF B!Verifies, B!MessageFor
  <2> QED
    BY <1>2, <2>1 DEF B!Complete, s
<1> QED
  BY <1>6, <1>7 DEF d

LEMMA SignerImplements ==
    ASSUME LocalOK, KeysUnmoved, NEW p \in Calls, pc[p] = "entry", Signing(p),
           at[p] > Steps(p)
    PROVE  LET pair == [manifest |-> job[p].manifest, bundle |-> Signed(p)]
           IN  AsDocument(pair) \in B!Document /\ B!Complete(AsDocument(pair))
<1> DEFINE pair == [manifest |-> job[p].manifest, bundle |-> Signed(p)]
<1>1. SignerOK(p)
  BY MessageOK
<1>2. pair \in Pair /\ Hybrid(pair)
  BY SignerReturns
<1>3. ASSUME NEW i \in 1..Len(made[p])
      PROVE  /\ made[p][i].value.algorithm = made[p][i].algorithm
             /\ made[p][i].value.message.manifest = job[p].manifest
             /\ made[p][i].value.key = job[p].manifest.keys[made[p][i].algorithm]
  <2>1. SignerKeyed(p)
    BY DEF KeysUnmoved, Keyed
  <2>2. /\ made[p][i].algorithm = BASELINE[i] /\ made[p][i].value.algorithm = BASELINE[i]
        /\ made[p][i].value.message.manifest = job[p].manifest
    BY <1>1 DEF SignerOK, Msg
  <2>3. made[p][i].value.key = job[p].manifest.keys[BASELINE[i]]
    BY <2>1 DEF SignerKeyed
  <2> QED
    BY <2>2, <2>3
<1>4. pair.manifest = job[p].manifest /\ pair.bundle.signatures = made[p]
  BY DEF Signed
<1> HIDE DEF pair
<1>5. AsDocument(pair) \in B!Document /\ B!Complete(AsDocument(pair))
  BY <1>2, <1>3, <1>4, PairImplements
<1> QED
  BY <1>5 DEF pair

LEMMA VerifierImplements ==
    ASSUME LocalOK, KeysUnmoved, NEW p \in Calls, pc[p] = "entry", ~Signing(p),
           at[p] > Steps(p), seen[p] = Algorithms
    PROVE  LET pair == [manifest |-> job[p].manifest, bundle |-> job[p].bundle]
           IN  AsDocument(pair) \in B!Document /\ B!Complete(AsDocument(pair))
<1> DEFINE pair == [manifest |-> job[p].manifest, bundle |-> job[p].bundle]
           entries == job[p].bundle.signatures
<1>1. /\ VerifierOK(p) /\ entries \in Seq(Entry) /\ at[p] \in Nat \ {0}
      /\ at[p] > Len(entries) /\ Len(entries) \in Nat
  BY MessageOK DEF LocalOK, LocalTypes, Steps
<1>2. pair \in Pair /\ Hybrid(pair)
  BY VerifierReturns
<1>3. ASSUME NEW i \in 1..Len(entries)
      PROVE  /\ entries[i].value.algorithm = entries[i].algorithm
             /\ entries[i].value.message.manifest = job[p].manifest
             /\ entries[i].value.key = job[p].manifest.keys[entries[i].algorithm]
  <2>1. i \in 1..(at[p] - 1)
    BY <1>1
  <2> QED
    <3>1. VerifierKeyed(p)
      BY DEF KeysUnmoved, Keyed
    <3>2. /\ entries[i].value.algorithm = entries[i].algorithm
          /\ entries[i].value.message.manifest = job[p].manifest
      BY <1>1, <2>1 DEF VerifierOK, Checked, Msg
    <3>3. entries[i].value.key = job[p].manifest.keys[entries[i].algorithm]
      BY <2>1, <3>1 DEF VerifierKeyed
    <3> QED
      BY <3>2, <3>3
<1>4. pair.manifest = job[p].manifest /\ pair.bundle.signatures = entries
  OBVIOUS
<1> HIDE DEF pair, entries
<1>5. AsDocument(pair) \in B!Document /\ B!Complete(AsDocument(pair))
  BY <1>2, <1>3, <1>4, PairImplements
<1> QED
  BY <1>5 DEF pair

\* As long as no key file has been replaced, sign_manifest and verify_bundle implement
\* the baseline: a pair joins either set only with the signatures of the keys that its
\* manifest names.
THEOREM BundleImplementsBaseline == Spec => ImplementsBaseline
<1>1. Init => KInv /\ B!BInit
  <2> SUFFICES ASSUME Init PROVE KInv /\ B!BInit
    OBVIOUS
  <2>1. KeysUnmoved
    BY DEF Init, KeysUnmoved, Keyed, PublicKeyed, SignerKeyed, VerifierKeyed
  <2> QED
    BY <2>1, BundleInit DEF Init, KInv, B!BInit
<1>2. KInv /\ [Next]_vars =>
        [replaced' = 0 => [B!BNext]_<<released, accepted>>]_vars
  <2> SUFFICES ASSUME KInv, [Next]_vars, replaced' = 0
               PROVE  B!BNext \/ UNCHANGED <<released, accepted>>
    OBVIOUS
  <2>1. CASE UNCHANGED docs
    BY <2>1 DEF docs
  <2>2. ASSUME NEW p \in Calls, Return(p)
        PROVE  B!BNext \/ UNCHANGED <<released, accepted>>
    <3>1. LocalOK /\ KeysUnmoved /\ pc[p] = "entry" /\ at[p] > Steps(p)
      BY <2>2 DEF KInv, IInv, Return, kvars
    <3>2. CASE Signing(p)
      <4>1. /\ accepted' = accepted
            /\ released' = released
                  \cup {[manifest |-> job[p].manifest, bundle |-> Signed(p)]}
        BY <2>2, <3>2 DEF Return
      <4> QED
        BY <3>1, <3>2, <4>1, SignerImplements DEF B!BNext, B!Release, B!Grows
    <3>3. CASE ~Signing(p) /\ seen[p] = Algorithms
      <4>1. /\ released' = released
            /\ accepted' = accepted
                  \cup {[manifest |-> job[p].manifest, bundle |-> job[p].bundle]}
        BY <2>2, <3>3 DEF Return
      <4> QED
        BY <3>1, <3>3, <4>1, VerifierImplements DEF B!BNext, B!Accept, B!Grows
    <3>4. CASE ~Signing(p) /\ seen[p] # Algorithms
      BY <2>2, <3>4 DEF Return, Raise, docs
    <3> QED
      BY <3>2, <3>3, <3>4
  <2>3. UNCHANGED docs \/ \E p \in Calls : Return(p)
    <3>1. ASSUME NEW p \in Calls,
                 Start(p) \/ Bind(p) \/ Prepare(p) \/ SignOne(p) \/ VerifyOne(p)
                   \/ Timeout(p) \/ Collect(p) \/ IoError(p)
          PROVE  UNCHANGED docs
      BY <3>1 DEF Start, Bind, Prepare, SignOne, VerifyOne, Timeout, Collect, IoError,
                  Goto, Raise
    <3>2. ASSUME NEW a \in Algorithms, NEW k \in Key \cup {NoKey}, Replace(a, k)
          PROVE  UNCHANGED docs
      BY <3>2 DEF Replace
    <3>3. CASE UNCHANGED vars
      BY <3>3 DEF vars
    <3> QED
      BY <3>1, <3>2, <3>3 DEF Next, Work
  <2> QED
    BY <2>1, <2>2, <2>3
<1> QED
  BY <1>1, <1>2, KeyedStep, PTL DEF Spec, ImplementsBaseline
-----------------------------------------------------------------------------
(* What sign_manifest makes, verify_bundle accepts *)

\* A bundle that says what its manifest says, with the baseline's entries in order.
Sound(pair) ==
    /\ pair.bundle.about = pair.manifest /\ pair.bundle.policy
    /\ Len(pair.bundle.signatures) = Len(BASELINE)
    /\ \A a \in Algorithms : public[a] = pair.manifest.keys[a]
    /\ \A i \in 1..Len(BASELINE) :
          LET e == pair.bundle.signatures[i]
          IN  /\ e.algorithm = BASELINE[i] /\ e.bound
              /\ e.value = [algorithm |-> BASELINE[i], key |-> public[BASELINE[i]],
                            message |-> [manifest |-> pair.manifest,
                                         created |-> pair.bundle.created]]

\* openssl answers a verifier under the key file that is still there.
Answered(p) == pc[p] = "openssl" /\ ~Signing(p) => out[p] = Answer(p)

Matching == (\A pair \in released : Sound(pair)) /\ (\A p \in Calls : Answered(p))

MInv == KInv /\ DOMAIN result = Calls /\ (replaced = 0 => Matching)

LEMMA SoundStays ==
    ASSUME NEW pair, Sound(pair), UNCHANGED kvars PROVE Sound(pair)'
BY DEF Sound, kvars

LEMMA AnsweredStays ==
    ASSUME NEW q \in Calls, Answered(q), Untouched(q), UNCHANGED kvars PROVE Answered(q)'
<1>1. /\ pc'[q] = pc[q] /\ job'[q] = job[q] /\ at'[q] = at[q]
      /\ created'[q] = created[q] /\ out'[q] = out[q] /\ public' = public
  BY DEF Untouched, kvars
<1>2. Signing(q)' = Signing(q) /\ Msg(q)' = Msg(q)
  BY <1>1 DEF Signing, Msg
<1>3. Answer(q)' = Answer(q)
  BY <1>1, <1>2 DEF Answer
<1> QED
  BY <1>1, <1>2, <1>3 DEF Answered

LEMMA OthersAnswered ==
    ASSUME Matching, UNCHANGED kvars, NEW p \in Calls, OthersStay(p), Answered(p)',
           released' = released
    PROVE  Matching'
<1>1. ASSUME NEW q \in Calls PROVE Answered(q)'
  BY AnsweredStays DEF Matching, OthersStay
<1>2. ASSUME NEW pair \in released' PROVE Sound(pair)'
  BY SoundStays DEF Matching
<1> QED
  BY <1>1, <1>2 DEF Matching

\* Only the answer to a verifier is new; every other step leaves the call elsewhere.
LEMMA CallMatches ==
    ASSUME LocalOK, Matching, NEW p \in Calls, released' = released,
           \/ Start(p) \/ Bind(p) \/ Prepare(p) \/ SignOne(p) \/ VerifyOne(p)
           \/ Collect(p) \/ Timeout(p) \/ IoError(p)
    PROVE  Matching'
<1>1. UNCHANGED kvars
  BY DEF Start, Bind, Prepare, SignOne, VerifyOne, Collect, Timeout, IoError
<1>2. CASE \E r : Forget(p, r)
  <2>1. OthersStay(p) /\ pc'[p] = "idle"
    BY <1>2 DEF LocalOK, LocalTypes, Forget, OthersStay, Untouched
  <2> QED
    BY <1>1, <2>1, OthersAnswered DEF Answered
<1>3. CASE VerifyOne(p) /\ Fits(p)
  <2>1. /\ pc[p] = "entry" /\ ~Signing(p) /\ out' = [out EXCEPT ![p] = Answer(p)]
        /\ seen' = [seen EXCEPT ![p] = @ \cup {Alg(p)}]
        /\ pc' = [pc EXCEPT ![p] = "openssl"] /\ UNCHANGED <<job, at, created, made>>
    BY <1>3 DEF VerifyOne, Goto
  <2>2. OthersStay(p) /\ out'[p] = Answer(p)
    BY <2>1 DEF LocalOK, LocalTypes, OthersStay, Untouched
  <2>3. Answer(p)' = Answer(p)
    BY <1>1, <2>1 DEF Answer, Msg, Signing, kvars
  <2> QED
    BY <1>1, <2>2, <2>3, OthersAnswered DEF Answered
<1>4. CASE /\ OthersStay(p)
           /\ pc'[p] \in {"bind", "prepare", "entry"} \/ Signing(p)'
  BY <1>1, <1>4, OthersAnswered DEF Answered
<1>5. \/ \E r : Forget(p, r)
      \/ VerifyOne(p) /\ Fits(p)
      \/ OthersStay(p) /\ (pc'[p] \in {"bind", "prepare", "entry"} \/ Signing(p)')
  <2>1. CASE Start(p)
    <3>1. /\ pc' = [pc EXCEPT ![p] = "bind"] /\ \E j : job' = [job EXCEPT ![p] = j]
          /\ UNCHANGED <<at, created, seen, made, out>>
      BY <2>1 DEF Start
    <3> QED
      BY <3>1 DEF LocalOK, LocalTypes, OthersStay, Untouched
  <2>2. CASE Bind(p) /\ ~\E r : Forget(p, r)
    <3>1. /\ pc' = [pc EXCEPT ![p] = "bind"] \/ pc' = [pc EXCEPT ![p] = "prepare"]
          /\ at' = [at EXCEPT ![p] = @ + 1] \/ at' = [at EXCEPT ![p] = 1]
          /\ UNCHANGED <<job, created, seen, made, out>>
      BY <2>2 DEF Bind, Goto, Raise
    <3> QED
      BY <3>1 DEF LocalOK, LocalTypes, OthersStay, Untouched
  <2>3. CASE Prepare(p) /\ ~\E r : Forget(p, r)
    <3>1. /\ pc' = [pc EXCEPT ![p] = "entry"] /\ UNCHANGED <<job, at, seen, made, out>>
          /\ (\E t \in Instant : created' = [created EXCEPT ![p] = t]) \/ UNCHANGED created
      BY <2>3 DEF Prepare, Goto, Raise, cvars
    <3> QED
      BY <3>1 DEF LocalOK, LocalTypes, OthersStay, Untouched
  <2>4. CASE SignOne(p) /\ ~\E r : Forget(p, r)
    <3>1. /\ Signing(p) /\ \E o : out' = [out EXCEPT ![p] = o]
          /\ pc' = [pc EXCEPT ![p] = "openssl"]
          /\ UNCHANGED <<job, at, created, seen, made>>
      BY <2>4 DEF SignOne, Goto, Raise
    <3> QED
      BY <3>1 DEF LocalOK, LocalTypes, OthersStay, Untouched, Signing
  <2>5. CASE VerifyOne(p)
    BY <2>5 DEF VerifyOne, Raise
  <2>6. CASE Collect(p) /\ ~\E r : Forget(p, r)
    <3>1. /\ (\E m : made' = [made EXCEPT ![p] = m]) \/ made' = made
          /\ at' = [at EXCEPT ![p] = @ + 1] /\ out' = [out EXCEPT ![p] = Nothing]
          /\ pc' = [pc EXCEPT ![p] = "entry"] /\ UNCHANGED <<job, created, seen>>
      <4>1. \E m : (IF Signing(p) THEN [made EXCEPT ![p] = Append(@, [algorithm |-> Alg(p),
                                          bound |-> TRUE, value |-> out[p].value])]
                    ELSE made) \in {made, [made EXCEPT ![p] = m]}
        OBVIOUS
      <4> QED
        BY <2>6, <4>1 DEF Collect, Goto, Raise
    <3> QED
      BY <3>1 DEF LocalOK, LocalTypes, OthersStay, Untouched
  <2>7. CASE Timeout(p) \/ IoError(p)
    BY <2>7 DEF Timeout, IoError, Raise
  <2> QED
    BY <2>1, <2>2, <2>3, <2>4, <2>5, <2>6, <2>7
<1> QED
  BY <1>2, <1>3, <1>4, <1>5

\* What a signer returns is sound.
LEMMA SignerSound ==
    ASSUME LocalOK, KeysUnmoved, NEW p \in Calls, pc[p] = "entry", Signing(p),
           at[p] > Steps(p)
    PROVE  Sound([manifest |-> job[p].manifest, bundle |-> Signed(p)])
<1> DEFINE pair == [manifest |-> job[p].manifest, bundle |-> Signed(p)]
<1>1. /\ SignerOK(p) /\ SignerKeyed(p) /\ PublicKeyed(p) /\ at[p] \in Nat \ {0}
      /\ Len(BASELINE) \in Nat /\ at[p] > Len(BASELINE) /\ made[p] \in Seq(Entry)
  BY MessageOK, BaselineAssumption DEF KeysUnmoved, Keyed, LocalOK, LocalTypes, Steps
<1>2. Len(made[p]) = Len(BASELINE)
  BY <1>1 DEF SignerOK
<1>3. /\ pair.manifest = job[p].manifest /\ pair.bundle.signatures = made[p]
      /\ pair.bundle.about = job[p].manifest /\ pair.bundle.policy
      /\ pair.bundle.created = created[p]
  BY DEF Signed
<1>4. \A a \in Algorithms : public[a] = job[p].manifest.keys[a]
  BY <1>1 DEF PublicKeyed
<1>5. ASSUME NEW i \in 1..Len(BASELINE)
      PROVE  /\ made[p][i].algorithm = BASELINE[i] /\ made[p][i].bound
             /\ made[p][i].value = [algorithm |-> BASELINE[i], key |-> public[BASELINE[i]],
                   message |-> [manifest |-> job[p].manifest, created |-> created[p]]]
  <2>1. BASELINE[i] \in Algorithms /\ made[p][i] \in Entry
    BY <1>1, <1>2, BaselineAssumption
  <2>2. made[p][i].value \in Signature
    BY <2>1 DEF Entry
  <2>3. /\ made[p][i].value.algorithm = BASELINE[i]
        /\ made[p][i].value.message = [manifest |-> job[p].manifest, created |-> created[p]]
    BY <1>1, <1>2 DEF SignerOK, Msg
  <2>4. made[p][i].value.key = public[BASELINE[i]]
    BY <1>1, <1>2, <1>4, <2>1 DEF SignerKeyed
  <2>5. made[p][i].algorithm = BASELINE[i] /\ made[p][i].bound
    BY <1>1, <1>2 DEF SignerOK
  <2> QED
    BY <2>2, <2>3, <2>4, <2>5 DEF Signature
<1> HIDE DEF pair
<1>6. Sound(pair)
  BY <1>2, <1>3, <1>4, <1>5 DEF Sound
<1> QED
  BY <1>6 DEF pair

LEMMA ReturnMatches ==
    ASSUME LocalOK, KeysUnmoved, Matching, NEW p \in Calls, Return(p) PROVE Matching'
<1>1. UNCHANGED kvars /\ pc[p] = "entry" /\ at[p] > Steps(p) /\ \E r : Forget(p, r)
  BY DEF Return, Raise
<1>2. OthersStay(p) /\ pc'[p] = "idle"
  BY <1>1 DEF LocalOK, LocalTypes, Forget, OthersStay, Untouched
<1>3. ASSUME NEW q \in Calls PROVE Answered(q)'
  <2>1. CASE q = p
    BY <1>2, <2>1 DEF Answered
  <2> QED
    BY <1>1, <1>2, <2>1, AnsweredStays DEF Matching, OthersStay
<1>4. ASSUME NEW pair \in released' PROVE Sound(pair)'
  <2>1. \/ pair \in released
        \/ Signing(p) /\ pair = [manifest |-> job[p].manifest, bundle |-> Signed(p)]
    BY DEF Return, Raise, docs
  <2>2. Sound(pair)
    BY <1>1, <2>1, SignerSound DEF Matching
  <2> QED
    BY <1>1, <2>2, SoundStays
<1> QED
  BY <1>3, <1>4 DEF Matching

LEMMA MatchingStep == MInv /\ [Next]_vars => MInv'
<1> SUFFICES ASSUME MInv, [Next]_vars PROVE MInv'
  OBVIOUS
<1>1. KInv'
  BY KeyedStep DEF MInv
<1>2. DOMAIN result' = Calls
  <2>1. ASSUME NEW p \in Calls, Start(p) \/ Work(p) \/ Collect(p) \/ IoError(p)
        PROVE  DOMAIN result' = Calls
    BY <2>1 DEF MInv, Start, Work, Bind, Prepare, SignOne, VerifyOne, Collect, Timeout,
                Return, IoError, Goto, Raise, Forget
  <2>2. ASSUME NEW a \in Algorithms, NEW k \in Key \cup {NoKey}, Replace(a, k)
        PROVE  DOMAIN result' = Calls
    BY <2>2 DEF MInv, Replace
  <2> QED
    BY <2>1, <2>2 DEF MInv, Next, vars
<1>3. ASSUME replaced' = 0 PROVE Matching'
  <2>1. LocalOK /\ replaced \in Nat /\ DocsOK
    BY DEF MInv, KInv, IInv, FilesOK
  <2>2. ASSUME UNCHANGED kvars PROVE KeysUnmoved /\ Matching
    BY <1>3, <2>2 DEF MInv, KInv, kvars
  <2>3. ASSUME NEW p \in Calls,
               \/ Start(p) \/ Bind(p) \/ Prepare(p) \/ SignOne(p) \/ VerifyOne(p)
               \/ Collect(p) \/ Timeout(p) \/ IoError(p)
        PROVE  Matching'
    <3>1. UNCHANGED kvars /\ released' = released
      BY <2>3 DEF Start, Bind, Prepare, SignOne, VerifyOne, Collect, Timeout, IoError,
                  Goto, Raise, docs
    <3> QED
      BY <2>1, <2>2, <2>3, <3>1, CallMatches
  <2>4. ASSUME NEW p \in Calls, Return(p) PROVE Matching'
    <3>1. UNCHANGED kvars
      BY <2>4 DEF Return
    <3> QED
      BY <2>1, <2>2, <2>4, <3>1, ReturnMatches
  <2>5. ASSUME NEW a \in Algorithms, NEW k \in Key \cup {NoKey}, Replace(a, k) PROVE FALSE
    BY <1>3, <2>1, <2>5 DEF Replace
  <2>6. CASE UNCHANGED vars
    <3>1. UNCHANGED kvars /\ released' = released /\ \A q \in Calls : Untouched(q)
      BY <2>6 DEF vars, kvars, docs, cvars, Untouched
    <3>2. \A q \in Calls : Answered(q)'
      BY <2>2, <3>1, AnsweredStays DEF Matching
    <3>3. \A pair \in released' : Sound(pair)'
      BY <2>2, <3>1, SoundStays DEF Matching
    <3> QED
      BY <3>2, <3>3 DEF Matching
  <2> QED
    BY <2>3, <2>4, <2>5, <2>6 DEF Next, Work
<1> QED
  BY <1>1, <1>2, <1>3 DEF MInv

\* A released pair passes every test of verify_bundle.
LEMMA SoundPasses ==
    ASSUME LocalOK, KeysUnmoved, Matching, NEW p \in Calls, ~Signing(p),
           Sound([manifest |-> job[p].manifest, bundle |-> job[p].bundle])
    PROVE  /\ pc[p] = "bind" => Bound(p)
           /\ job[p].bundle.policy /\ job[p].bundle.about = job[p].manifest
           /\ pc[p] = "entry" /\ at[p] <= Steps(p) => Fits(p)
           /\ pc[p] = "openssl" => out[p].ok
           /\ pc[p] = "entry" /\ at[p] > Steps(p) => seen[p] = Algorithms
<1> DEFINE entries == job[p].bundle.signatures
<1>1. /\ at[p] \in Nat \ {0} /\ Len(BASELINE) \in Nat /\ Len(entries) = Len(BASELINE)
      /\ job[p].bundle.policy /\ job[p].bundle.about = job[p].manifest
      /\ \A a \in Algorithms : public[a] = job[p].manifest.keys[a]
      /\ \A i \in 1..Len(BASELINE) :
            /\ entries[i].algorithm = BASELINE[i] /\ entries[i].bound
            /\ entries[i].value = [algorithm |-> BASELINE[i], key |-> public[BASELINE[i]],
                   message |-> [manifest |-> job[p].manifest,
                                created |-> job[p].bundle.created]]
  BY BaselineAssumption DEF LocalOK, LocalTypes, Sound
<1>2. \A i \in 1..Len(BASELINE) : BASELINE[i] \in Algorithms
  BY BaselineAssumption
<1>3. ASSUME pc[p] = "bind" PROVE Bound(p)
  <2>1. at[p] \in 1..Len(BASELINE)
    BY <1>1, <1>3 DEF LocalOK, CallOK
  <2> QED
    BY <1>1, <1>2, <2>1 DEF Bound
<1>4. ASSUME pc[p] = "entry" PROVE Met(p, at[p] - 1)
  BY <1>4, MessageOK DEF VerifierOK
<1>5. ASSUME pc[p] = "entry", at[p] <= Steps(p) PROVE Fits(p)
  <2>1. at[p] \in 1..Len(BASELINE)
    BY <1>1, <1>5 DEF Steps
  <2>2. ASSUME BASELINE[at[p]] \in seen[p] PROVE FALSE
    <3>1. PICK i \in 1..(at[p] - 1) : entries[i].algorithm = BASELINE[at[p]]
      BY <1>4, <1>5, <2>2 DEF Met
    <3>2. i \in 1..Len(BASELINE) /\ i # at[p]
      BY <1>1, <2>1, <3>1
    <3>3. BASELINE[i] = BASELINE[at[p]]
      BY <1>1, <3>1, <3>2
    <3> QED
      BY <2>1, <3>2, <3>3, BaselineAssumption
  <2> QED
    BY <1>1, <1>2, <2>1, <2>2 DEF Fits
<1>6. ASSUME pc[p] = "openssl" PROVE out[p].ok
  <2>1. VerifierOK(p) /\ out[p] = Answer(p)
    BY <1>6, MessageOK DEF Matching, Answered
  <2>2. at[p] \in 1..Len(BASELINE)
    BY <1>1, <1>6, <2>1 DEF VerifierOK, Met
  <2> DEFINE e == entries[at[p]]
             wanted == [algorithm |-> e.algorithm, key |-> public[e.algorithm],
                        message |-> Msg(p)]
  <2>3. e.value = wanted
    BY <1>1, <2>2 DEF Msg
  <2>4. Answer(p).ok = (e.value = wanted)
    BY Zenon DEF Answer
  <2> HIDE DEF e, wanted
  <2> QED
    BY <2>1, <2>3, <2>4
<1>7. ASSUME pc[p] = "entry", at[p] > Steps(p) PROVE seen[p] = Algorithms
  <2>1. at[p] - 1 = Len(BASELINE)
    BY <1>1, <1>4, <1>7 DEF Met, Steps
  <2>2. ASSUME NEW i \in 1..Len(BASELINE) PROVE BASELINE[i] \in seen[p]
    <3>1. \A j \in 1..(at[p] - 1) : entries[j].algorithm \in seen[p]
      BY <1>4, <1>7 DEF Met
    <3>2. entries[i].algorithm = BASELINE[i]
      BY <1>1
    <3> QED
      BY <2>1, <3>1, <3>2
  <2>3. seen[p] \subseteq Algorithms
    BY DEF LocalOK, LocalTypes
  <2>4. ASSUME NEW a \in Algorithms PROVE a \in seen[p]
    <3>1. PICK i \in 1..Len(BASELINE) : BASELINE[i] = a
      BY BaselineAssumption
    <3> QED
      BY <2>2, <3>1
  <2> QED
    BY <2>3, <2>4
<1> QED
  BY <1>1, <1>3, <1>5, <1>6, <1>7

\* How a call that ends on a matching pair may end.
LEMMA EndsWell ==
    ASSUME MInv, NEW p \in Calls, Next, replaced = 0, pc[p] # "idle", pc'[p] = "idle",
           ~Signing(p), [manifest |-> job[p].manifest, bundle |-> job[p].bundle] \in released
    PROVE  \/ result'[p] \in {"returned", "os error", "timeout"}
           \/ result'[p] = "signature" /\ out[p].ok
           \/ result'[p] = "created" /\ job[p].bundle.created \notin Readable
<1>1. LocalOK /\ DOMAIN result = Calls /\ DOMAIN pc = Calls /\ KeysUnmoved /\ Matching
  BY DEF MInv, KInv, IInv, LocalOK, LocalTypes
<1>2. /\ pc[p] = "bind" => Bound(p)
      /\ job[p].bundle.policy /\ job[p].bundle.about = job[p].manifest
      /\ pc[p] = "entry" /\ at[p] <= Steps(p) => Fits(p)
      /\ pc[p] = "openssl" => out[p].ok
      /\ pc[p] = "entry" /\ at[p] > Steps(p) => seen[p] = Algorithms
  BY <1>1, SoundPasses DEF Matching
<1>3. ASSUME NEW r, Forget(p, r) PROVE result'[p] = r
  BY <1>1, <1>3 DEF Forget
<1>4. ASSUME NEW l, l # "idle", Goto(p, l) PROVE FALSE
  BY <1>1, <1>4 DEF Goto
<1>5. CASE Bind(p)
  BY <1>2, <1>4, <1>5 DEF Bind
<1>6. CASE Prepare(p)
  <2>1. Raise(p, "created") /\ job[p].bundle.created \notin Readable
    BY <1>2, <1>4, <1>6 DEF Prepare
  <2> QED
    BY <1>3, <2>1 DEF Raise
<1>7. CASE SignOne(p)
  BY <1>7 DEF SignOne
<1>8. CASE VerifyOne(p)
  BY <1>2, <1>4, <1>8 DEF VerifyOne
<1>9. CASE Collect(p)
  <2>1. pc[p] = "openssl" /\ Raise(p, "signature")
    BY <1>4, <1>9 DEF Collect
  <2> QED
    BY <1>2, <1>3, <2>1 DEF Raise
<1>10. CASE Timeout(p) \/ IoError(p)
  BY <1>3, <1>10 DEF Timeout, IoError, Raise
<1>11. CASE Return(p)
  <2>1. Forget(p, "returned")
    BY <1>2, <1>11 DEF Return
  <2> QED
    BY <1>3, <2>1
<1>12. ASSUME NEW q \in Calls, q # p, Start(q) \/ Work(q) \/ Collect(q) \/ IoError(q)
       PROVE  FALSE
  <2>1. \E l : pc' = [pc EXCEPT ![q] = l]
    BY <1>12 DEF Start, Work, Bind, Prepare, SignOne, VerifyOne, Collect, Timeout,
                 Return, IoError, Goto, Raise, Forget
  <2> QED
    BY <1>1, <1>12, <2>1
<1>13. CASE Start(p)
  BY <1>13 DEF Start
<1>14. ASSUME NEW a \in Algorithms, NEW k \in Key \cup {NoKey}, Replace(a, k) PROVE FALSE
  BY <1>14 DEF Replace
<1> QED
  BY <1>5, <1>6, <1>7, <1>8, <1>9, <1>10, <1>11, <1>12, <1>13, <1>14 DEF Next, Work

\* For as long as no key file is replaced, verify_bundle refuses a bundle that
\* sign_manifest has returned only for a reason that lies outside of it: a file, the
\* clock, an openssl that fails by itself -- or a "created" that is no timestamp.
THEOREM ReleasedStaysMatching == Spec => ReleasedAlwaysMatches
<1>1. Init => MInv
  <2> SUFFICES ASSUME Init PROVE MInv
    OBVIOUS
  <2>1. KeysUnmoved /\ Matching /\ DOMAIN result = Calls
    BY DEF Init, KeysUnmoved, Keyed, PublicKeyed, SignerKeyed, VerifierKeyed, Matching,
           Answered
  <2> QED
    BY <2>1, BundleInit DEF MInv, KInv
<1>2. MInv /\ [Next]_vars =>
        [\A p \in Calls :
            /\ replaced = 0
            /\ pc[p] # "idle" /\ pc'[p] = "idle" /\ ~Signing(p)
            /\ [manifest |-> job[p].manifest, bundle |-> job[p].bundle] \in released
            => \/ result'[p] \in {"returned", "os error", "timeout"}
               \/ result'[p] = "signature" /\ out[p].ok
               \/ result'[p] = "created" /\ job[p].bundle.created \notin Readable]_vars
  BY EndsWell
<1> QED
  BY <1>1, <1>2, MatchingStep, PTL DEF Spec, ReleasedAlwaysMatches
=============================================================================
