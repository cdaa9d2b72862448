------------------------- MODULE CoseProviderProofs -------------------------
(***************************************************************************)
(* CoseProvider implements HybridBaseline, and its scratch directories are *)
(* private, for any calls, keys, manifests and scratch names, and however  *)
(* often the key files are replaced.                                       *)
(***************************************************************************)
EXTENDS CoseProvider, SequenceTheorems, TLAPS

\* A call at work has a well-formed job and position.
JobOK(p) ==
    /\ \/ \E m \in Manifest : job[p] = SignJob(m)
       \/ \E d \in Document : job[p] = VerifyJob(d)
    /\ index[p] \in 1..Len(Required)
    /\ pc[p] \in {"private", "openssl"} => Signing(p)
    /\ pc[p] # "bind" => bound[p] = Named(p)

\* The signatures made or checked before the current algorithm are right.
PastOK(p) ==
    LET d == job[p].document IN
    \A i \in 1..(index[p] - 1) :
        Verifies(d.manifest.keys[Required[i]], MessageFor(Required[i], d.manifest),
                 IF Signing(p) THEN made[p][i] ELSE d.signatures[Required[i]])

\* How many signatures a signing call has made.
MadeOK(p) ==
    /\ made[p] \in Seq(Signature)
    /\ Signing(p) => Len(made[p]) = IF pc[p] = "check" THEN index[p] ELSE index[p] - 1

\* What the scratch directory of a call holds when openssl is run on it.
FilesOK(p) ==
    LET f == scratch[dir[p]] IN
    /\ pc[p] = "fill" => f = EmptyDir
    /\ pc[p] \in {"openssl", "check"} =>
          f \in Files /\ f.message = Msg(p) /\ f.key = bound[p]
    /\ pc[p] = "check" =>
          f.signature = IF Signing(p) THEN made[p][index[p]]
                        ELSE job[p].document.signatures[Alg(p)]

CallOK(p) == JobOK(p) /\ PastOK(p) /\ MadeOK(p) /\ FilesOK(p)

\* Every call at work in a directory owns it alone.
DirOK ==
    /\ \A p \in Calls : dir[p] \in Directory <=> pc[p] \in {"fill", "openssl", "check"}
    /\ \A p \in Calls : dir[p] \notin Directory => dir[p] = Nothing
    /\ \A p \in Calls : dir[p] \in Directory => scratch[dir[p]] \in Files
    /\ \A p, q \in Calls : dir[p] \in Directory /\ dir[p] = dir[q] => p = q

\* The locals and the shared state are functions on their domains.
ShapeOK ==
    /\ pc \in [Calls -> {"idle", "bind", "private", "scratch", "fill", "openssl", "check"}]
    /\ DOMAIN job = Calls /\ DOMAIN index = Calls /\ DOMAIN bound = Calls
    /\ DOMAIN dir = Calls /\ DOMAIN made = Calls /\ DOMAIN scratch = Directory
    /\ DOMAIN result = Calls /\ DOMAIN attempts = Calls
    /\ public \in [Algorithms -> Key \cup {NoKey}]
    /\ private \in [Algorithms -> Key \cup {NoKey}]
    /\ released \subseteq Document

IdleOK == \A p \in Calls : pc[p] = "idle" => index[p] = 1 /\ made[p] = <<>>

IInv ==
    /\ ShapeOK
    /\ DirOK
    /\ IdleOK
    /\ \A p \in Calls : pc[p] # "idle" => CallOK(p)

USE SentinelAssumption, RequiredAssumption

LEMMA InitIInv == Init => IInv
<1> SUFFICES ASSUME Init PROVE IInv
  OBVIOUS
<1>1. ShapeOK
  BY DEF Init, ShapeOK, BInit
<1>2. DirOK
  BY DEF Init, DirOK
<1>3. IdleOK /\ \A p \in Calls : pc[p] = "idle"
  BY DEF Init, IdleOK
<1> QED
  BY <1>1, <1>2, <1>3 DEF IInv

\* A step of p leaves the locals of every other call, and its directory, alone.
Frame(p) ==
    \A q \in Calls \ {p} :
        /\ pc'[q] = pc[q] /\ job'[q] = job[q] /\ index'[q] = index[q]
        /\ bound'[q] = bound[q] /\ dir'[q] = dir[q] /\ made'[q] = made[q]
        /\ dir[q] \in Directory => scratch'[dir[q]] = scratch[dir[q]]

LEMMA OthersKeep ==
    ASSUME IInv, NEW p \in Calls, Frame(p), NEW q \in Calls \ {p}, pc[q] # "idle"
    PROVE  CallOK(q)'
<1>1. /\ pc'[q] = pc[q] /\ job'[q] = job[q] /\ index'[q] = index[q]
      /\ bound'[q] = bound[q] /\ dir'[q] = dir[q] /\ made'[q] = made[q]
  BY DEF Frame
<1>2. CallOK(q)
  BY DEF IInv
<1>3. JobOK(q)'
  BY <1>1, <1>2 DEF CallOK, JobOK, Named, Alg, Signing
<1>4. PastOK(q)'
  BY <1>1, <1>2 DEF CallOK, PastOK, Signing
<1>5. MadeOK(q)'
  BY <1>1, <1>2 DEF CallOK, MadeOK, Signing
<1>6. FilesOK(q)'
  <2>1. pc[q] \in {"fill", "openssl", "check"} => scratch'[dir[q]] = scratch[dir[q]]
    BY DEF IInv, DirOK, Frame
  <2> QED
    BY <1>1, <1>2, <2>1 DEF CallOK, FilesOK, Msg, Alg, Signing
<1> QED
  BY <1>3, <1>4, <1>5, <1>6 DEF CallOK

\* What has to be shown of a step of p.
LEMMA StepKeeps ==
    ASSUME IInv, NEW p \in Calls, Frame(p), ShapeOK', DirOK',
           pc'[p] = "idle" => index'[p] = 1 /\ made'[p] = <<>>,
           pc'[p] # "idle" => CallOK(p)'
    PROVE  IInv'
<1>1. IdleOK'
  BY DEF IInv, IdleOK, Frame
<1>2. ASSUME NEW q \in Calls, pc'[q] # "idle" PROVE CallOK(q)'
  BY <1>2, OthersKeep DEF Frame
<1> QED
  BY <1>1, <1>2 DEF IInv

\* A call that ends leaves the directories of the others alone.
LEMMA ForgetKeeps ==
    ASSUME IInv, NEW p \in Calls, NEW r, Forget(p, r), UNCHANGED kvars,
           DOMAIN scratch' = Directory, released' \subseteq Document,
           \A q \in Calls \ {p} :
              dir[q] \in Directory => scratch'[dir[q]] = scratch[dir[q]]
    PROVE  IInv'
<1>1. /\ pc' = [pc EXCEPT ![p] = "idle"] /\ job' = [job EXCEPT ![p] = Nothing]
      /\ index' = [index EXCEPT ![p] = 1] /\ bound' = [bound EXCEPT ![p] = Nothing]
      /\ dir' = [dir EXCEPT ![p] = Nothing] /\ made' = [made EXCEPT ![p] = <<>>]
  BY DEF Forget
<1>2. ShapeOK'
  BY <1>1 DEF Forget, kvars, IInv, ShapeOK
<1>3. Frame(p)
  BY <1>1 DEF Frame, IInv, ShapeOK
<1>4. DirOK'
  BY <1>1, <1>3 DEF IInv, DirOK, ShapeOK, Frame
<1> QED
  BY <1>1, <1>2, <1>3, <1>4, StepKeeps DEF IInv, ShapeOK

\* Whether it succeeds or not, the removal of a directory touches no other one.
LEMMA RemoveTouchesOne ==
    ASSUME IInv, NEW p \in Calls, Remove(p)
    PROVE  /\ DOMAIN scratch' = Directory
           /\ \A d \in Directory : d # dir[p] => scratch'[d] = scratch[d]
           /\ \A q \in Calls \ {p} :
                 dir[q] \in Directory => scratch'[dir[q]] = scratch[dir[q]]
<1>1. DOMAIN scratch' = Directory /\ \A d \in Directory : d # dir[p] => scratch'[d] = scratch[d]
  BY DEF Remove, IInv, ShapeOK
<1>2. \A q \in Calls \ {p} : dir[q] \in Directory => dir[q] # dir[p]
  BY DEF IInv, DirOK
<1> QED
  BY <1>1, <1>2

LEMMA RaiseKeeps ==
    ASSUME IInv, NEW p \in Calls, NEW e, Raise(p, e), UNCHANGED kvars
    PROVE  IInv' /\ UNCHANGED bvars
BY ForgetKeeps, RemoveTouchesOne DEF Raise, bvars, IInv, ShapeOK

-----------------------------------------------------------------------------
(* One lemma per action *)

LEMMA StartKeeps == ASSUME IInv, NEW p \in Calls, Start(p) PROVE IInv'
<1> USE InputAssumption
<1>1. PICK j \in {SignJob(m) : m \in Requests}
              \cup {VerifyJob(d) : d \in Offered \cup released} :
         job' = [job EXCEPT ![p] = j]
  BY DEF Start
<1>2. /\ pc[p] = "idle" /\ pc' = [pc EXCEPT ![p] = "bind"]
      /\ UNCHANGED <<bvars, kvars, scratch, index, bound, dir, attempts, made>>
      /\ result' = [result EXCEPT ![p] = "none"]
  BY DEF Start
<1>3. ShapeOK' /\ Frame(p)
  BY <1>1, <1>2 DEF IInv, ShapeOK, Frame, bvars, kvars
<1>4. DirOK'
  BY <1>2 DEF IInv, DirOK, ShapeOK
<1>5. index[p] = 1 /\ made[p] = <<>> /\ pc'[p] = "bind" /\ job'[p] = j
  BY <1>1, <1>2 DEF IInv, IdleOK, ShapeOK
<1>6. \/ \E m \in Manifest : j = SignJob(m)
      \/ \E d \in Document : j = VerifyJob(d)
  BY DEF IInv, ShapeOK
<1>7. 1 \in 1..Len(Required)
  BY LenProperties
<1>8. CallOK(p)'
  <2>1. JobOK(p)'
    BY <1>2, <1>5, <1>6, <1>7 DEF JobOK
  <2>2. PastOK(p)'
    BY <1>2, <1>5 DEF PastOK
  <2>3. MadeOK(p)'
    BY <1>2, <1>5 DEF MadeOK
  <2>4. FilesOK(p)'
    BY <1>5 DEF FilesOK
  <2> QED
    BY <2>1, <2>2, <2>3, <2>4 DEF CallOK
<1> QED
  BY <1>3, <1>4, <1>5, <1>8, StepKeeps

LEMMA BindKeeps ==
    ASSUME IInv, NEW p \in Calls, Bind(p)
    PROVE  IInv' /\ UNCHANGED bvars
<1>1. CASE Raise(p, "KeyBindingMismatch")
  BY <1>1, RaiseKeeps DEF Bind
<1>2. CASE ~Raise(p, "KeyBindingMismatch")
  <2>1. /\ pc[p] = "bind" /\ public[Alg(p)] = Named(p)
        /\ bound' = [bound EXCEPT ![p] = public[Alg(p)]]
        /\ pc' = [pc EXCEPT ![p] = IF Signing(p) THEN "private" ELSE "scratch"]
        /\ UNCHANGED <<bvars, kvars, result, scratch, job, index, dir, attempts, made>>
    BY <1>2 DEF Bind, Goto
  <2>2. ShapeOK' /\ Frame(p)
    BY <2>1 DEF IInv, ShapeOK, Frame, kvars, bvars
  <2>3. DirOK'
    BY <2>1 DEF IInv, DirOK, ShapeOK
  <2>4. CallOK(p)
    BY <2>1 DEF IInv
  <2>5. bound'[p] = Named(p) /\ pc'[p] = IF Signing(p) THEN "private" ELSE "scratch"
    BY <2>1 DEF IInv, ShapeOK
  <2>6. JobOK(p)'
    <3>1. Signing(p)' = Signing(p) /\ Named(p)' = Named(p)
      BY <2>1 DEF Signing, Named, Alg
    <3>2. pc'[p] \in {"private", "openssl"} => Signing(p)
      BY <2>5
    <3> QED
      BY <2>1, <2>4, <2>5, <3>1, <3>2 DEF CallOK, JobOK
  <2>7. PastOK(p)'
    BY <2>1, <2>4 DEF CallOK, PastOK, Signing
  <2>8. MadeOK(p)'
    <3>1. pc[p] # "check" /\ pc'[p] # "check" /\ Signing(p)' = Signing(p)
      BY <2>1, <2>5 DEF Signing
    <3> QED
      BY <2>1, <2>4, <3>1 DEF CallOK, MadeOK
  <2>9. FilesOK(p)'
    BY <2>5 DEF FilesOK
  <2> QED
    BY <2>1, <2>2, <2>3, <2>5, <2>6, <2>7, <2>8, <2>9, StepKeeps DEF CallOK
<1> QED
  BY <1>1, <1>2

LEMMA PrivateKeeps ==
    ASSUME IInv, NEW p \in Calls, Private(p)
    PROVE  IInv' /\ UNCHANGED bvars
<1>1. CASE Raise(p, "OperationFailed")
  BY <1>1, RaiseKeeps DEF Private
<1>2. CASE ~Raise(p, "OperationFailed")
  <2>1. /\ pc[p] = "private" /\ pc' = [pc EXCEPT ![p] = "scratch"]
        /\ UNCHANGED <<bvars, kvars, result, scratch, cvars>>
    BY <1>2 DEF Private, Goto
  <2>2. ShapeOK' /\ Frame(p)
    BY <2>1 DEF IInv, ShapeOK, Frame, kvars, cvars, bvars
  <2>3. DirOK'
    BY <2>1 DEF IInv, DirOK, ShapeOK, cvars
  <2>4. CallOK(p) /\ pc'[p] = "scratch"
    BY <2>1 DEF IInv, ShapeOK
  <2>5. JobOK(p)'
    BY <2>1, <2>4 DEF CallOK, JobOK, Signing, Named, Alg, cvars
  <2>6. PastOK(p)'
    BY <2>1, <2>4 DEF CallOK, PastOK, Signing, cvars
  <2>7. MadeOK(p)'
    BY <2>1, <2>4 DEF CallOK, MadeOK, Signing, cvars
  <2>8. FilesOK(p)'
    BY <2>4 DEF FilesOK
  <2> QED
    BY <2>1, <2>2, <2>3, <2>4, <2>5, <2>6, <2>7, <2>8, StepKeeps DEF CallOK
<1> QED
  BY <1>1, <1>2

LEMMA ScratchKeeps ==
    ASSUME IInv, NEW p \in Calls, Scratch(p)
    PROVE  IInv' /\ UNCHANGED bvars
<1>0. pc[p] = "scratch" /\ CallOK(p) /\ dir[p] \notin Directory
  BY DEF Scratch, IInv, DirOK
<1>1. ASSUME NEW d \in Directory, scratch[d] = Nothing, Create(p, d)
      PROVE  IInv' /\ UNCHANGED bvars
  <2>1. /\ scratch' = [scratch EXCEPT ![d] = EmptyDir]
        /\ dir' = [dir EXCEPT ![p] = d]
        /\ attempts' = [attempts EXCEPT ![p] = 0]
        /\ pc' = [pc EXCEPT ![p] = "fill"]
        /\ UNCHANGED <<bvars, kvars, result, job, index, bound, made>>
    BY <1>1 DEF Create, Goto
  <2>2. \A q \in Calls : dir[q] # d
    BY <1>1 DEF IInv, DirOK
  <2>3. ShapeOK'
    BY <2>1 DEF IInv, ShapeOK, kvars, bvars
  <2>4. Frame(p)
    BY <2>1, <2>2 DEF IInv, ShapeOK, Frame
  <2>5. EmptyDir \in Files
    BY DEF EmptyDir, Files
  <2>6. DirOK'
    <3>1. dir'[p] = d /\ pc'[p] = "fill" /\ scratch'[d] = EmptyDir
      BY <2>1 DEF IInv, ShapeOK
    <3> QED
      BY <2>2, <2>4, <2>5, <3>1 DEF IInv, DirOK, Frame
  <2>7. pc'[p] = "fill" /\ scratch'[dir'[p]] = EmptyDir
    BY <2>1 DEF IInv, ShapeOK
  <2>8. JobOK(p)'
    BY <1>0, <2>1, <2>7 DEF CallOK, JobOK, Signing, Named, Alg
  <2>9. PastOK(p)'
    BY <1>0, <2>1 DEF CallOK, PastOK, Signing
  <2>10. MadeOK(p)'
    BY <1>0, <2>1, <2>7 DEF CallOK, MadeOK, Signing
  <2>11. FilesOK(p)'
    BY <2>7 DEF FilesOK
  <2> QED
    BY <2>1, <2>3, <2>4, <2>6, <2>7, <2>8, <2>9, <2>10, <2>11, StepKeeps DEF CallOK
<1>2. CASE Retry(p)
  <2>1. /\ attempts' = [attempts EXCEPT ![p] = @ + 1]
        /\ pc' = [pc EXCEPT ![p] = "scratch"]
        /\ UNCHANGED <<bvars, result, kvars, scratch, job, index, bound, dir, made>>
    BY <1>2 DEF Retry, Goto
  <2>2. ShapeOK' /\ Frame(p) /\ pc' = pc
    BY <1>0, <2>1 DEF IInv, ShapeOK, Frame, kvars, bvars
  <2>3. DirOK'
    BY <2>1, <2>2 DEF IInv, DirOK
  <2>4. CallOK(p)'
    BY <1>0, <2>1, <2>2
    DEF CallOK, JobOK, PastOK, MadeOK, FilesOK, Signing, Named, Alg, Msg
  <2> QED
    BY <1>0, <2>1, <2>2, <2>3, <2>4, StepKeeps
<1>3. CASE Raise(p, "OperationFailed") /\ UNCHANGED kvars
  BY <1>3, RaiseKeeps
<1> QED
  BY <1>1, <1>2, <1>3 DEF Scratch

\* Messages, manifests and bound keys of a call at work are of their types.
LEMMA CallTypes ==
    ASSUME NEW p \in Calls, JobOK(p)
    PROVE  /\ Alg(p) \in Algorithms
           /\ job[p].document.manifest \in Manifest
           /\ Msg(p) \in Message
           /\ Named(p) \in Key
           /\ ~Signing(p) => job[p].document \in Document
<1>1. Alg(p) \in Algorithms
  BY ElementOfSeq DEF JobOK, Alg
<1>2. /\ job[p].document.manifest \in Manifest
      /\ ~Signing(p) => job[p].document \in Document
  <2>1. CASE \E m \in Manifest : job[p] = SignJob(m)
    <3>1. PICK m \in Manifest : job[p] = SignJob(m)
      BY <2>1
    <3>2. Signing(p) /\ job[p].document.manifest = m
      BY <3>1 DEF SignJob, Signing
    <3> QED
      BY <3>2
  <2>2. CASE \E d \in Document : job[p] = VerifyJob(d)
    <3>1. PICK d \in Document : job[p] = VerifyJob(d)
      BY <2>2
    <3>2. job[p].document = d
      BY <3>1 DEF VerifyJob
    <3> QED
      BY <3>2 DEF Document
  <2> QED
    BY <2>1, <2>2 DEF JobOK
<1> QED
  BY <1>1, <1>2 DEF Msg, MessageFor, Message, Named, Manifest

LEMMA FillKeeps ==
    ASSUME IInv, NEW p \in Calls, Fill(p)
    PROVE  IInv' /\ UNCHANGED bvars
<1> DEFINE sig == IF Signing(p) THEN Nothing ELSE job[p].document.signatures[Alg(p)]
           fs  == [message |-> Msg(p), key |-> bound[p], signature |-> sig]
<1>0. pc[p] = "fill" /\ CallOK(p) /\ dir[p] \in Directory
  BY DEF Fill, IInv, DirOK
<1>1. /\ scratch' = [scratch EXCEPT ![dir[p]] = fs]
      /\ pc' = [pc EXCEPT ![p] = IF Signing(p) THEN "openssl" ELSE "check"]
      /\ UNCHANGED <<bvars, result, kvars, job, index, bound, dir, made, attempts>>
  BY DEF Fill, Goto, cvars
<1>2. fs \in Files
  <2>1. JobOK(p) /\ bound[p] = Named(p)
    BY <1>0 DEF CallOK, JobOK
  <2>2. sig \in Signature \cup {Nothing}
    BY <2>1, CallTypes DEF Document
  <2> QED
    BY <2>1, <2>2, CallTypes DEF Files
<1>3. scratch'[dir[p]] = fs /\ pc'[p] = IF Signing(p) THEN "openssl" ELSE "check"
  BY <1>0, <1>1 DEF IInv, ShapeOK
<1> HIDE DEF fs
<1>4. ShapeOK'
  BY <1>1 DEF IInv, ShapeOK, kvars, bvars
<1>5. Frame(p)
  BY <1>0, <1>1 DEF IInv, ShapeOK, DirOK, Frame
<1>6. DirOK'
  BY <1>0, <1>1, <1>2, <1>3, <1>5 DEF IInv, DirOK, Frame
<1>7. JobOK(p)'
  BY <1>0, <1>1, <1>3 DEF CallOK, JobOK, Signing, Named, Alg
<1>8. PastOK(p)'
  BY <1>0, <1>1 DEF CallOK, PastOK, Signing
<1>9. FilesOK(p)'
  <2>1. /\ scratch'[dir'[p]] = fs /\ fs \in Files
        /\ fs.message = Msg(p)' /\ fs.key = bound'[p]
    BY <1>1, <1>2, <1>3 DEF fs, Msg, Alg
  <2>2. pc'[p] = "check" => ~Signing(p)' /\ fs.signature = job'[p].document.signatures[Alg(p)']
    BY <1>1, <1>3 DEF fs, Signing, Alg
  <2>3. pc'[p] \in {"openssl", "check"}
    BY <1>3
  <2> HIDE DEF sig
  <2> QED
    BY <2>1, <2>2, <2>3 DEF FilesOK
<1>10. MadeOK(p)'
  BY <1>0, <1>1, <1>3 DEF CallOK, MadeOK, Signing
<1> QED
  BY <1>1, <1>3, <1>4, <1>5, <1>6, <1>7, <1>8, <1>9, <1>10, StepKeeps DEF CallOK

LEMMA OpenSslSignKeeps ==
    ASSUME IInv, NEW p \in Calls, OpenSslSign(p)
    PROVE  IInv' /\ UNCHANGED bvars
<1>1. CASE Raise(p, "OperationFailed")
  BY <1>1, RaiseKeeps DEF OpenSslSign
<1>2. CASE ~Raise(p, "OperationFailed")
  <2> DEFINE f == scratch[dir[p]]
             s == [key |-> private[Alg(p)], message |-> f.message]
             g == [f EXCEPT !.signature = s]
  <2>0. /\ pc[p] = "openssl" /\ CallOK(p) /\ dir[p] \in Directory
        /\ Signing(p) /\ f \in Files /\ f.message = Msg(p) /\ f.key = bound[p]
    BY DEF OpenSslSign, IInv, DirOK, CallOK, JobOK, FilesOK
  <2>1. /\ private[Alg(p)] # NoKey
        /\ scratch' = [scratch EXCEPT ![dir[p]].signature = s]
        /\ made' = [made EXCEPT ![p] = Append(@, s)]
        /\ pc' = [pc EXCEPT ![p] = "check"]
        /\ UNCHANGED <<bvars, result, kvars, job, index, bound, dir, attempts>>
    BY <1>2 DEF OpenSslSign, Goto
  <2>2. s \in Signature
    <3>1. Alg(p) \in Algorithms /\ Msg(p) \in Message
      BY <2>0, CallTypes DEF CallOK
    <3>2. private[Alg(p)] \in Key
      BY <2>1, <3>1 DEF IInv, ShapeOK
    <3> QED
      BY <2>0, <3>1, <3>2 DEF Signature
  <2>3. g \in Files /\ g.message = f.message /\ g.key = f.key /\ g.signature = s
    BY <2>0, <2>2 DEF Files
  <2>4. scratch' = [scratch EXCEPT ![dir[p]] = g]
    BY <2>1
  <2> HIDE DEF s, g
  <2>5. pc'[p] = "check" /\ scratch'[dir[p]] = g /\ made'[p] = Append(made[p], s)
    BY <2>0, <2>1, <2>4 DEF IInv, ShapeOK
  <2>6. ShapeOK'
    BY <2>1, <2>4 DEF IInv, ShapeOK, kvars, bvars
  <2>7. Frame(p)
    BY <2>0, <2>1, <2>4 DEF IInv, ShapeOK, DirOK, Frame
  <2>8. DirOK'
    <3>1. dir' = dir /\ scratch'[dir[p]] \in Files /\ pc'[p] = "check"
      BY <2>1, <2>3, <2>5
    <3> HIDE DEF f
    <3> QED
      BY <2>0, <2>7, <3>1 DEF IInv, DirOK, Frame
  <2>9. JobOK(p)'
    BY <2>0, <2>1, <2>5 DEF CallOK, JobOK, Signing, Named, Alg
  <2>10. /\ made[p] \in Seq(Signature) /\ Len(made[p]) = index[p] - 1
         /\ index[p] \in 1..Len(Required)
    BY <2>0 DEF CallOK, MadeOK, JobOK
  <2>11. /\ made'[p] \in Seq(Signature) /\ Len(made'[p]) = index[p]
         /\ made'[p][index[p]] = s
         /\ \A i \in 1..(index[p] - 1) : made'[p][i] = made[p][i]
    <3>1. /\ Append(made[p], s) \in Seq(Signature)
          /\ Len(Append(made[p], s)) = Len(made[p]) + 1
          /\ Append(made[p], s)[Len(made[p]) + 1] = s
          /\ \A i \in 1..Len(made[p]) : Append(made[p], s)[i] = made[p][i]
      BY <2>2, <2>10
    <3>2. Len(made[p]) + 1 = index[p]
      BY <2>10
    <3> QED
      BY <2>5, <2>10, <3>1, <3>2
  <2>12. PastOK(p)'
    <3>1. PastOK(p)
      BY <2>0 DEF CallOK
    <3>2. Signing(p)' /\ job' = job /\ index' = index /\ bound' = bound
      BY <2>0, <2>1 DEF Signing
    <3> QED
      BY <2>0, <2>11, <3>1, <3>2 DEF PastOK
  <2>13. MadeOK(p)'
    BY <2>0, <2>1, <2>5, <2>11 DEF MadeOK, Signing
  <2>14. FilesOK(p)'
    <3>1. scratch'[dir'[p]] = g /\ Msg(p)' = Msg(p) /\ bound'[p] = bound[p]
      BY <2>1, <2>5 DEF Msg, Alg
    <3>2. g \in Files /\ g.message = Msg(p) /\ g.key = bound[p]
      BY <2>0, <2>3
    <3>3. g.signature = made'[p][index'[p]] /\ Signing(p)'
      BY <2>0, <2>1, <2>3, <2>11 DEF Signing
    <3> QED
      BY <2>5, <3>1, <3>2, <3>3 DEF FilesOK
  <2> QED
    BY <2>1, <2>5, <2>6, <2>7, <2>8, <2>9, <2>12, <2>13, <2>14, StepKeeps DEF CallOK
<1> QED
  BY <1>1, <1>2

LEMMA ReplaceKeeps ==
    ASSUME IInv, NEW a \in Algorithms, NEW k \in Key \cup {NoKey}, Replace(a, k)
    PROVE  IInv' /\ UNCHANGED bvars
<1>1. UNCHANGED <<bvars, scratch, pc, cvars, result>>
  BY DEF Replace
<1>2. ShapeOK'
  <2>1. /\ public' \in [Algorithms -> Key \cup {NoKey}]
        /\ private' \in [Algorithms -> Key \cup {NoKey}]
    <3>1. CASE public' = [public EXCEPT ![a] = k] /\ private' = private
      BY <3>1 DEF IInv, ShapeOK
    <3>2. CASE private' = [private EXCEPT ![a] = k] /\ public' = public
      BY <3>2 DEF IInv, ShapeOK
    <3> QED
      BY <3>1, <3>2 DEF Replace
  <2> QED
    BY <1>1, <2>1 DEF IInv, ShapeOK, bvars, cvars
<1>3. DirOK' /\ IdleOK'
  BY <1>1 DEF IInv, DirOK, IdleOK, cvars
<1>4. \A p \in Calls : CallOK(p) => CallOK(p)'
  BY <1>1
  DEF CallOK, JobOK, PastOK, MadeOK, FilesOK, Signing, Named, Alg, Msg, cvars
<1> QED
  BY <1>1, <1>2, <1>3, <1>4 DEF IInv, bvars

-----------------------------------------------------------------------------
(* The check after a signature, and of an offered document *)

\* A check that passes adds the current algorithm to the ones that are right.
LEMMA PassesMeansVerified ==
    ASSUME IInv, NEW p \in Calls, pc[p] = "check", Passes(scratch[dir[p]])
    PROVE  Verifies(Named(p), Msg(p),
                    IF Signing(p) THEN made[p][index[p]]
                    ELSE job[p].document.signatures[Alg(p)])
<1>1. CallOK(p)
  BY DEF IInv
<1>2. bound[p] = Named(p)
  BY <1>1 DEF CallOK, JobOK
<1> QED
  BY <1>1, <1>2 DEF Passes, CallOK, FilesOK

\* A signing call that is done returns a complete document.
LEMMA EnvelopeComplete ==
    ASSUME IInv, NEW p \in Calls, pc[p] = "check", Passes(scratch[dir[p]]),
           index[p] = Len(Required), Signing(p)
    PROVE  Envelope(p) \in Document /\ Complete(Envelope(p))
<1> DEFINE d == job[p].document
           at(a) == CHOOSE i \in 1..Len(Required) : Required[i] = a
           e == Envelope(p)
<1>1. JobOK(p) /\ PastOK(p) /\ MadeOK(p)
  BY DEF IInv, CallOK
<1>2. d.manifest \in Manifest
  BY <1>1, CallTypes
<1>3. \A a \in Algorithms : at(a) \in 1..Len(Required) /\ Required[at(a)] = a
  OBVIOUS
<1>4. made[p] \in Seq(Signature) /\ Len(made[p]) = Len(Required)
  BY <1>1 DEF MadeOK
<1> HIDE DEF at
<1>5. e = [manifest |-> d.manifest, signatures |-> [a \in Algorithms |-> made[p][at(a)]]]
  BY DEF Envelope, at
<1>6. \A a \in Algorithms : made[p][at(a)] \in Signature
  BY <1>3, <1>4, ElementOfSeq
<1>7. e \in Document
  BY <1>2, <1>5, <1>6 DEF Document
<1>8. ASSUME NEW a \in Algorithms
      PROVE  Verifies(d.manifest.keys[a], MessageFor(a, d.manifest), made[p][at(a)])
  <2>1. CASE at(a) = index[p]
    BY <1>3, <2>1, PassesMeansVerified DEF Named, Msg, Alg
  <2>2. CASE at(a) # index[p]
    <3>1. at(a) \in 1..(index[p] - 1)
      BY <1>1, <1>3, <2>2 DEF JobOK
    <3> QED
      BY <1>1, <1>3, <3>1 DEF PastOK
  <2> QED
    BY <2>1, <2>2
<1>9. Complete(e)
  BY <1>5, <1>8 DEF Complete
<1> QED
  BY <1>7, <1>9

\* A verifying call that is done has checked a complete document.
LEMMA AcceptedComplete ==
    ASSUME IInv, NEW p \in Calls, pc[p] = "check", Passes(scratch[dir[p]]),
           index[p] = Len(Required), ~Signing(p)
    PROVE  job[p].document \in Document /\ Complete(job[p].document)
<1>1. JobOK(p) /\ PastOK(p)
  BY DEF IInv, CallOK
<1>2. ASSUME NEW a \in Algorithms
      PROVE  Verifies(job[p].document.manifest.keys[a],
                      MessageFor(a, job[p].document.manifest),
                      job[p].document.signatures[a])
  <2>1. PICK i \in 1..Len(Required) : Required[i] = a
    OBVIOUS
  <2>2. CASE i = index[p]
    BY <2>1, <2>2, PassesMeansVerified DEF Named, Msg, Alg
  <2>3. CASE i # index[p]
    <3>1. i \in 1..(index[p] - 1)
      BY <1>1, <2>3 DEF JobOK
    <3> QED
      BY <1>1, <2>1, <3>1 DEF PastOK
  <2> QED
    BY <2>2, <2>3
<1> QED
  BY <1>1, <1>2, CallTypes DEF Complete

LEMMA CheckKeeps ==
    ASSUME IInv, NEW p \in Calls, Check(p)
    PROVE  IInv' /\ [BNext]_bvars
<1>1. CASE Raise(p, "SignatureInvalid") /\ UNCHANGED kvars
  BY <1>1, RaiseKeeps
<1> USE RemoveTouchesOne
<1>2. CASE Passes(scratch[dir[p]]) /\ Remove(p) /\ Checked(p) /\ UNCHANGED kvars
  <2>1. pc[p] = "check" /\ CallOK(p) /\ dir[p] \in Directory
    BY DEF Check, IInv, DirOK
  <2>2. CASE index[p] = Len(Required)
    <3>0. index[p] \in Nat
      BY <2>1 DEF CallOK, JobOK
    <3>1. /\ released' = IF Signing(p) THEN released \cup {Envelope(p)} ELSE released
          /\ accepted' = IF Signing(p) THEN accepted ELSE accepted \cup {job[p].document}
          /\ Forget(p, "returned")
      BY <1>2, <2>2, <3>0 DEF Checked
    <3>2. CASE Signing(p)
      <4>1. Envelope(p) \in Document /\ Complete(Envelope(p))
        BY <1>2, <2>1, <2>2, <3>2, EnvelopeComplete
      <4>2. released' = released \cup {Envelope(p)} /\ accepted' = accepted
        BY <3>1, <3>2
      <4>3. IInv'
        BY <1>2, <3>1, <4>1, <4>2, ForgetKeeps DEF IInv, ShapeOK
      <4> QED
        BY <4>1, <4>2, <4>3 DEF BNext, Release, Grows
    <3>3. CASE ~Signing(p)
      <4>1. job[p].document \in Document /\ Complete(job[p].document)
        BY <1>2, <2>1, <2>2, <3>3, AcceptedComplete
      <4>2. accepted' = accepted \cup {job[p].document} /\ released' = released
        BY <3>1, <3>3
      <4>3. IInv'
        BY <1>2, <3>1, <4>2, ForgetKeeps DEF IInv, ShapeOK
      <4> QED
        BY <4>1, <4>2, <4>3 DEF BNext, Accept, Grows
    <3> QED
      BY <3>2, <3>3
  <2>3. CASE index[p] # Len(Required)
    <3>1. /\ index[p] < Len(Required)
          /\ index' = [index EXCEPT ![p] = @ + 1]
          /\ bound' = [bound EXCEPT ![p] = Nothing]
          /\ dir' = [dir EXCEPT ![p] = Nothing]
          /\ pc' = [pc EXCEPT ![p] = "bind"]
          /\ UNCHANGED <<kvars, bvars, result, job, attempts, made>>
      BY <1>2, <2>1, <2>3 DEF Checked, Goto
    <3>2. /\ index'[p] = index[p] + 1 /\ pc'[p] = "bind" /\ dir'[p] = Nothing
      BY <3>1 DEF IInv, ShapeOK
    <3>3. ShapeOK'
      BY <1>2, <3>1 DEF IInv, ShapeOK, kvars, bvars
    <3>4. Frame(p)
      BY <1>2, <3>1 DEF IInv, ShapeOK, Frame
    <3>5. DirOK'
      BY <2>1, <3>1, <3>2, <3>4 DEF IInv, DirOK, Frame
    <3>6. index[p] \in 1..Len(Required) /\ JobOK(p) /\ PastOK(p) /\ MadeOK(p)
      BY <2>1 DEF CallOK, JobOK
    <3>7. JobOK(p)'
      BY <3>1, <3>2, <3>6 DEF JobOK
    <3>8. PastOK(p)'
      <4> SUFFICES ASSUME NEW i \in 1..index[p]
                   PROVE  Verifies(job[p].document.manifest.keys[Required[i]],
                                   MessageFor(Required[i], job[p].document.manifest),
                                   IF Signing(p) THEN made[p][i]
                                   ELSE job[p].document.signatures[Required[i]])
        BY <3>1, <3>2, <3>6 DEF PastOK, Signing
      <4>1. CASE i = index[p]
        BY <1>2, <2>1, <4>1, PassesMeansVerified DEF Named, Msg, Alg
      <4>2. CASE i # index[p]
        <5>1. i \in 1..(index[p] - 1)
          BY <3>6, <4>2
        <5> QED
          BY <3>6, <5>1 DEF PastOK
      <4> QED
        BY <4>1, <4>2
    <3>9. MadeOK(p)'
      BY <2>1, <3>1, <3>2, <3>6 DEF MadeOK, Signing
    <3>10. FilesOK(p)'
      BY <3>2 DEF FilesOK
    <3> QED
      BY <3>1, <3>2, <3>3, <3>4, <3>5, <3>7, <3>8, <3>9, <3>10, StepKeeps DEF CallOK
  <2> QED
    BY <2>2, <2>3
<1> QED
  BY <1>1, <1>2 DEF Check

LEMMA UnprotectedKeeps ==
    ASSUME IInv, NEW p \in Calls, NEW d \in Directory, Unprotected(p, d)
    PROVE  IInv' /\ UNCHANGED bvars
<1>1. /\ scratch[d] = Nothing /\ scratch' = [scratch EXCEPT ![d] = EmptyDir]
      /\ Forget(p, "OperationFailed") /\ UNCHANGED <<bvars, kvars>>
  BY DEF Unprotected
<1>2. DOMAIN scratch' = Directory /\ \A e \in Directory : e # d => scratch'[e] = scratch[e]
  BY <1>1 DEF IInv, ShapeOK
<1>3. \A q \in Calls : dir[q] # d
  BY <1>1 DEF IInv, DirOK
<1>4. released' \subseteq Document
  BY <1>1 DEF bvars, IInv, ShapeOK
<1> QED
  BY <1>1, <1>2, <1>3, <1>4, ForgetKeeps

LEMMA NextKeeps == ASSUME IInv, [Next]_vars PROVE IInv' /\ [BNext]_bvars
<1>1. ASSUME NEW p \in Calls, Start(p) PROVE IInv' /\ UNCHANGED bvars
  BY <1>1, StartKeeps DEF Start
<1>2. ASSUME NEW p \in Calls, Step(p) PROVE IInv' /\ [BNext]_bvars
  BY <1>2, BindKeeps, PrivateKeeps, ScratchKeeps, FillKeeps, OpenSslSignKeeps,
     CheckKeeps DEF Step
<1>3. ASSUME NEW p \in Calls, IoError(p) PROVE IInv' /\ UNCHANGED bvars
  BY <1>3, RaiseKeeps DEF IoError
<1>4. ASSUME NEW p \in Calls, Kill(p) PROVE IInv' /\ UNCHANGED bvars
  BY <1>4, ForgetKeeps DEF Kill, bvars, IInv, ShapeOK
<1>5. ASSUME NEW a \in Algorithms, NEW k \in Key \cup {NoKey}, Replace(a, k)
      PROVE  IInv' /\ UNCHANGED bvars
  BY <1>5, ReplaceKeeps
<1>6. CASE UNCHANGED vars
  <2>1. UNCHANGED <<released, accepted, public, private, scratch, pc, cvars, result>>
    BY <1>6 DEF vars, kvars
  <2>2. ShapeOK' /\ DirOK' /\ IdleOK'
    BY <2>1 DEF IInv, ShapeOK, DirOK, IdleOK, cvars
  <2>3. \A p \in Calls : CallOK(p) => CallOK(p)'
    BY <2>1
    DEF CallOK, JobOK, PastOK, MadeOK, FilesOK, Signing, Named, Alg, Msg, cvars
  <2> QED
    BY <2>1, <2>2, <2>3 DEF IInv, bvars
<1>7. ASSUME NEW p \in Calls, NEW d \in Directory, Unprotected(p, d)
      PROVE  IInv' /\ UNCHANGED bvars
  BY <1>7, UnprotectedKeeps
<1> QED
  BY <1>1, <1>2, <1>3, <1>4, <1>5, <1>6, <1>7 DEF Next

-----------------------------------------------------------------------------
(* Theorems *)

\* Whatever the calls, the faults and the key files replaced half-way, every
\* released envelope and every accepted one is complete: the COSE pipeline
\* implements the baseline (verify_manifest_cose, and the verification that
\* CoseSigner::sign runs on each signature it made).
THEOREM CallsImplementBaseline == Spec => ImplementsBaseline
<1>1. Init => BInit
  BY DEF Init
<1> QED
  BY <1>1, InitIInv, NextKeeps, PTL DEF Spec, ImplementsBaseline, BSpec

LEMMA IInvIsPrivate == IInv => ScratchIsPrivate
<1> SUFFICES ASSUME IInv, NEW p \in Calls, dir[p] # Nothing
             PROVE  /\ scratch[dir[p]] # Nothing
                    /\ scratch[dir[p]].message \in {Nothing, Msg(p)}
                    /\ scratch[dir[p]].key \in {Nothing, bound[p]}
                    /\ \A q \in Calls : dir[q] = dir[p] => q = p
  BY DEF ScratchIsPrivate
<1>1. dir[p] \in Directory /\ pc[p] \in {"fill", "openssl", "check"}
  BY DEF IInv, DirOK
<1>2. FilesOK(p)
  BY <1>1 DEF IInv, CallOK
<1>3. scratch[dir[p]] \in Files /\ \A q \in Calls : dir[q] = dir[p] => q = p
  BY <1>1 DEF IInv, DirOK
<1> QED
  BY <1>1, <1>2, <1>3 DEF FilesOK, EmptyDir

\* No two calls ever share a scratch directory, whatever names they are given and
\* whatever killed calls left behind (ScratchDirectory::new).
THEOREM ScratchStaysPrivate == Spec => []ScratchIsPrivate
BY InitIInv, NextKeeps, IInvIsPrivate, PTL DEF Spec

-----------------------------------------------------------------------------
(* Types and bounds *)

\* What IInv does not say of the types: the locals of calls not at work, and the
\* bounds of the counters.
Bounds ==
    /\ accepted \subseteq Document
    /\ replaced \in 0..MaxReplaced
    /\ orphans \subseteq Directory
    /\ index \in [Calls -> 1..Len(Required)]
    /\ bound \in [Calls -> Key \cup {Nothing}]
    /\ dir \in [Calls -> Directory \cup {Nothing}]
    /\ attempts \in [Calls -> 0..(MaxAttempts - 1)]
    /\ made \in [Calls -> Seq(Signature)]

LEMMA Counting ==
    /\ 0 \in 0..(MaxAttempts - 1) /\ 0 \in 0..MaxReplaced /\ 1 \in 1..Len(Required)
    /\ \A n \in 0..(MaxAttempts - 1) : n + 1 < MaxAttempts => n + 1 \in 0..(MaxAttempts - 1)
    /\ \A n \in 0..MaxReplaced : n < MaxReplaced => n + 1 \in 0..MaxReplaced
<1>1. Len(Required) \in Nat \ {0}
  BY LenProperties, EmptySeq
<1> QED
  BY <1>1, BoundAssumption

LEMMA InitBounds == Init => Bounds
BY Counting DEF Init, BInit, Bounds

\* A call that ends has no key and starts counting anew.
LEMMA ForgetBounds ==
    ASSUME Bounds, NEW p \in Calls, NEW r, Forget(p, r), replaced' = replaced,
           accepted' \subseteq Document, orphans' \subseteq Directory
    PROVE  Bounds'
<1>1. /\ attempts' = [attempts EXCEPT ![p] = 0] /\ bound' = [bound EXCEPT ![p] = Nothing]
      /\ index' = [index EXCEPT ![p] = 1] /\ dir' = [dir EXCEPT ![p] = Nothing]
      /\ made' = [made EXCEPT ![p] = <<>>]
  BY DEF Forget
<1>2. index' \in [Calls -> 1..Len(Required)]
  BY <1>1, Counting DEF Bounds
<1>3. attempts' \in [Calls -> 0..(MaxAttempts - 1)]
  BY <1>1, Counting DEF Bounds
<1>4. bound' \in [Calls -> Key \cup {Nothing}] /\ dir' \in [Calls -> Directory \cup {Nothing}]
  BY <1>1 DEF Bounds
<1>5. made' \in [Calls -> Seq(Signature)]
  BY <1>1 DEF Bounds
<1> QED
  BY <1>2, <1>3, <1>4, <1>5 DEF Bounds

\* Only a directory somebody had can be left behind.
LEMMA RemoveBounds ==
    ASSUME Bounds, NEW p \in Calls, Remove(p)
    PROVE  orphans' \subseteq Directory
BY DEF Bounds, Remove

LEMMA RaiseBounds ==
    ASSUME Bounds, NEW p \in Calls, NEW e, Raise(p, e), UNCHANGED kvars
    PROVE  Bounds'
BY ForgetBounds, RemoveBounds DEF Raise, Bounds, bvars, kvars

LEMMA StepBounds ==
    ASSUME IInv, Bounds, NEW p \in Calls, Step(p), accepted' \subseteq Document
    PROVE  Bounds'
<1>1. CASE Bind(p)
  <2>1. CASE Raise(p, "KeyBindingMismatch")
    BY <1>1, <2>1, RaiseBounds DEF Bind
  <2>2. CASE ~Raise(p, "KeyBindingMismatch")
    <3>1. /\ pc[p] = "bind" /\ public[Alg(p)] = Named(p)
          /\ bound' = [bound EXCEPT ![p] = public[Alg(p)]]
          /\ UNCHANGED <<accepted, replaced, orphans, index, dir, attempts, made>>
      BY <1>1, <2>2 DEF Bind, Goto, bvars, kvars
    <3>2. Named(p) \in Key
      BY <3>1, CallTypes DEF IInv, CallOK
    <3>3. bound' \in [Calls -> Key \cup {Nothing}]
      BY <3>1, <3>2 DEF Bounds
    <3> QED
      BY <3>1, <3>3 DEF Bounds
  <2> QED
    BY <2>1, <2>2
<1>2. CASE Private(p)
  <2>1. CASE Raise(p, "OperationFailed")
    BY <1>2, <2>1, RaiseBounds DEF Private
  <2>2. CASE ~Raise(p, "OperationFailed")
    BY <1>2, <2>2 DEF Private, Goto, Bounds, bvars, cvars, kvars
  <2> QED
    BY <2>1, <2>2
<1>3. CASE Scratch(p)
  <2>1. ASSUME NEW d \in Directory, Create(p, d) PROVE Bounds'
    <3>1. /\ attempts' = [attempts EXCEPT ![p] = 0]
          /\ dir' = [dir EXCEPT ![p] = d]
          /\ UNCHANGED <<accepted, replaced, orphans, index, bound, made>>
      BY <2>1 DEF Create, Goto, bvars, kvars
    <3>2. attempts' \in [Calls -> 0..(MaxAttempts - 1)]
      BY <3>1, Counting DEF Bounds
    <3>3. dir' \in [Calls -> Directory \cup {Nothing}]
      BY <3>1 DEF Bounds
    <3> QED
      BY <3>1, <3>2, <3>3 DEF Bounds
  <2>2. CASE attempts[p] + 1 < MaxAttempts /\ Retry(p)
    <3>1. /\ attempts' = [attempts EXCEPT ![p] = attempts[p] + 1]
          /\ UNCHANGED <<accepted, replaced, orphans, index, bound, dir, made>>
      BY <2>2 DEF Retry, Goto, bvars, kvars
    <3>2. attempts[p] + 1 \in 0..(MaxAttempts - 1)
      BY <2>2, Counting DEF Bounds
    <3>3. attempts' \in [Calls -> 0..(MaxAttempts - 1)]
      BY <3>1, <3>2 DEF Bounds
    <3> QED
      BY <3>1, <3>3 DEF Bounds
  <2>3. CASE Raise(p, "OperationFailed") /\ UNCHANGED kvars
    BY <2>3, RaiseBounds
  <2> QED
    BY <1>3, <2>1, <2>2, <2>3 DEF Scratch
<1>4. CASE Fill(p)
  BY <1>4 DEF Fill, Goto, Bounds, bvars, cvars, kvars
<1>5. CASE OpenSslSign(p)
  <2>1. CASE Raise(p, "OperationFailed")
    BY <1>5, <2>1, RaiseBounds DEF OpenSslSign
  <2>2. CASE ~Raise(p, "OperationFailed")
    <3>1. UNCHANGED <<accepted, replaced, orphans, index, bound, dir, attempts>>
      BY <1>5, <2>2 DEF OpenSslSign, Goto, bvars, kvars
    <3>2. PICK s : made' = [made EXCEPT ![p] = s] /\ pc' = [pc EXCEPT ![p] = "check"]
      BY <1>5, <2>2 DEF OpenSslSign, Goto
    <3>3. made'[p] = s /\ pc'[p] = "check"
      BY <3>2 DEF Bounds, IInv, ShapeOK
    <3>4. s \in Seq(Signature)
      BY <1>5, <3>3, OpenSslSignKeeps DEF IInv, CallOK, MadeOK
    <3>5. made' \in [Calls -> Seq(Signature)]
      BY <3>2, <3>4 DEF Bounds
    <3> QED
      BY <3>1, <3>5 DEF Bounds
  <2> QED
    BY <2>1, <2>2
<1>6. CASE Check(p)
  <2>1. CASE Raise(p, "SignatureInvalid") /\ UNCHANGED kvars
    BY <2>1, RaiseBounds
  <2>2. CASE Remove(p) /\ Checked(p) /\ UNCHANGED kvars
    <3>0. orphans' \subseteq Directory
      BY <2>2, RemoveBounds
    <3>1. CASE Forget(p, "returned")
      BY <2>2, <3>0, <3>1, ForgetBounds DEF kvars
    <3>2. CASE ~Forget(p, "returned")
      <4>1. /\ index[p] < Len(Required) /\ index' = [index EXCEPT ![p] = index[p] + 1]
            /\ bound' = [bound EXCEPT ![p] = Nothing] /\ dir' = [dir EXCEPT ![p] = Nothing]
            /\ UNCHANGED <<replaced, attempts, made>>
        BY <2>2, <3>2 DEF Checked, kvars
      <4>2. bound' \in [Calls -> Key \cup {Nothing}] /\ dir' \in [Calls -> Directory \cup {Nothing}]
        BY <4>1 DEF Bounds
      <4>3. index[p] + 1 \in 1..Len(Required)
        BY <4>1, LenProperties DEF Bounds
      <4>4. index' \in [Calls -> 1..Len(Required)]
        BY <4>1, <4>3 DEF Bounds
      <4> QED
        BY <3>0, <4>1, <4>2, <4>4 DEF Bounds
    <3> QED
      BY <3>1, <3>2
  <2> QED
    BY <1>6, <2>1, <2>2 DEF Check
<1> QED
  BY <1>1, <1>2, <1>3, <1>4, <1>5, <1>6 DEF Step

LEMMA NextBounds == ASSUME IInv, Bounds, [Next]_vars PROVE Bounds'
<1>1. accepted' \subseteq Document
  BY NextKeeps DEF Bounds, BNext, Release, Accept, Grows, bvars
<1>2. ASSUME NEW p \in Calls, Start(p) PROVE Bounds'
  BY <1>2 DEF Start, Bounds, bvars, kvars
<1>3. ASSUME NEW p \in Calls, Step(p) PROVE Bounds'
  BY <1>1, <1>3, StepBounds
<1>4. ASSUME NEW p \in Calls, IoError(p) PROVE Bounds'
  BY <1>4, RaiseBounds DEF IoError
<1>5. ASSUME NEW p \in Calls, Kill(p) PROVE Bounds'
  <2>1. orphans' \subseteq Directory
    BY <1>5 DEF Kill, Bounds
  <2> QED
    BY <1>1, <1>5, <2>1, ForgetBounds DEF Kill, kvars
<1>6. ASSUME NEW a \in Algorithms, NEW k \in Key \cup {NoKey}, Replace(a, k) PROVE Bounds'
  <2>1. /\ replaced < MaxReplaced /\ replaced' = replaced + 1
        /\ UNCHANGED <<accepted, orphans, index, bound, dir, attempts, made>>
    BY <1>6 DEF Replace, bvars, cvars
  <2>2. replaced' \in 0..MaxReplaced
    BY <2>1, Counting DEF Bounds
  <2> QED
    BY <2>1, <2>2 DEF Bounds
<1>7. CASE UNCHANGED vars
  BY <1>7 DEF vars, Bounds, kvars, cvars
<1>8. ASSUME NEW p \in Calls, NEW d \in Directory, Unprotected(p, d) PROVE Bounds'
  <2>1. orphans' \subseteq Directory
    BY <1>8 DEF Unprotected, Bounds
  <2> QED
    BY <1>1, <1>8, <2>1, ForgetBounds DEF Unprotected, kvars
<1> QED
  BY <1>2, <1>3, <1>4, <1>5, <1>6, <1>7, <1>8 DEF Next

\* The key files, the scratch root and every call are of their types, and no name is
\* tried more often than the loop of ScratchDirectory::new allows.
THEOREM TypesStay == Spec => []TypeOK
<1>1. IInv /\ Bounds => TypeOK
  BY DEF IInv, ShapeOK, Bounds, TypeOK
<1> QED
  BY <1>1, InitIInv, InitBounds, NextKeeps, NextBounds, PTL DEF Spec

-----------------------------------------------------------------------------
(* Scratch directories are accounted for *)

\* A call that drops its directory removes it, or leaves one orphan more.
LEMMA RemovedIsAccounted ==
    ASSUME IInv, ScratchAccounted, orphans \subseteq Directory,
           NEW p \in Calls, Remove(p),
           dir' = [dir EXCEPT ![p] = Nothing]
    PROVE  ScratchAccounted'
<1>0. dir'[p] = Nothing /\ \A q \in Calls \ {p} : dir'[q] = dir[q]
  BY DEF IInv, ShapeOK
<1>1. CASE dir[p] = Nothing
  <2>1. UNCHANGED <<scratch, orphans>> /\ \A q \in Calls : dir'[q] = dir[q]
    BY <1>0, <1>1 DEF Remove
  <2> QED
    BY <2>1 DEF ScratchAccounted
<1>2. CASE dir[p] # Nothing
  <2>1. dir[p] \in Directory /\ \A q \in Calls \ {p} : dir[q] # dir[p]
    BY <1>2 DEF IInv, DirOK
  <2>2. \A d \in Directory : d # dir[p] => scratch'[d] = scratch[d]
    BY RemoveTouchesOne
  <2>3. ASSUME orphans' = orphans, scratch'[dir[p]] = Nothing PROVE ScratchAccounted'
    BY <1>0, <2>1, <2>2, <2>3 DEF ScratchAccounted
  <2>4. ASSUME orphans' = orphans \cup {dir[p]}, scratch'[dir[p]] # Nothing
        PROVE  ScratchAccounted'
    BY <1>0, <2>1, <2>2, <2>4 DEF ScratchAccounted
  <2>5. \A rest \in Leftovers(scratch[dir[p]]) : rest # Nothing
    BY <2>1 DEF Leftovers, EmptyDir, Files, IInv, DirOK
  <2>6. \/ orphans' = orphans /\ scratch'[dir[p]] = Nothing
        \/ orphans' = orphans \cup {dir[p]} /\ scratch'[dir[p]] # Nothing
    BY <1>2, <2>1, <2>5 DEF Remove, IInv, ShapeOK
  <2> QED
    BY <2>3, <2>4, <2>6
<1> QED
  BY <1>1, <1>2

\* Writing to directories that exist changes nothing in the account.
LEMMA OwnedIsAccounted ==
    ASSUME ScratchAccounted, UNCHANGED <<dir, orphans>>,
           \A d \in Directory : scratch'[d] = Nothing <=> scratch[d] = Nothing
    PROVE  ScratchAccounted'
BY DEF ScratchAccounted

LEMMA RaiseIsAccounted ==
    ASSUME IInv, ScratchAccounted, orphans \subseteq Directory,
           NEW p \in Calls, NEW e, Raise(p, e)
    PROVE  ScratchAccounted'
BY RemovedIsAccounted DEF Raise, Forget

LEMMA StepIsAccounted ==
    ASSUME IInv, ScratchAccounted, orphans \subseteq Directory,
           NEW p \in Calls, Step(p)
    PROVE  ScratchAccounted'
<1>1. CASE Bind(p)
  BY <1>1, RaiseIsAccounted, OwnedIsAccounted DEF Bind
<1>2. CASE Private(p)
  BY <1>2, RaiseIsAccounted, OwnedIsAccounted DEF Private, cvars
<1>3. CASE Scratch(p)
  <2>1. ASSUME NEW d \in Directory, scratch[d] = Nothing, Create(p, d),
               pc[p] = "scratch"
        PROVE  ScratchAccounted'
    <3>1. /\ scratch' = [scratch EXCEPT ![d] = EmptyDir] /\ dir' = [dir EXCEPT ![p] = d]
          /\ orphans' = orphans
      BY <2>1 DEF Create
    <3>2. dir[p] \notin Directory
      BY <2>1 DEF IInv, DirOK
    <3>3. dir'[p] = d /\ \A q \in Calls \ {p} : dir'[q] = dir[q]
      BY <3>1 DEF IInv, ShapeOK
    <3>4. scratch'[d] # Nothing /\ \A e \in Directory \ {d} : scratch'[e] = scratch[e]
      BY <3>1 DEF EmptyDir, Files, IInv, ShapeOK
    <3> QED
      BY <2>1, <3>1, <3>2, <3>3, <3>4 DEF ScratchAccounted
  <2>2. CASE Retry(p)
    BY <2>2, OwnedIsAccounted DEF Retry
  <2>3. CASE Raise(p, "OperationFailed")
    BY <2>3, RaiseIsAccounted
  <2> QED
    BY <1>3, <2>1, <2>2, <2>3 DEF Scratch
<1>4. CASE Fill(p)
  <2>1. UNCHANGED <<dir, orphans>> /\ \A d \in Directory : d # dir[p] => scratch'[d] = scratch[d]
    BY <1>4 DEF Fill, cvars, IInv, ShapeOK
  <2>2. scratch[dir[p]] \in Files /\ scratch'[dir[p]] \in Files
    BY <1>4, <2>1, FillKeeps DEF Fill, IInv, DirOK
  <2> QED
    BY <2>1, <2>2, OwnedIsAccounted
<1>5. CASE OpenSslSign(p)
  <2>1. CASE Raise(p, "OperationFailed")
    BY <2>1, RaiseIsAccounted
  <2>2. CASE ~Raise(p, "OperationFailed")
    <3>1. UNCHANGED <<dir, orphans>> /\ \A d \in Directory : d # dir[p] => scratch'[d] = scratch[d]
      BY <1>5, <2>2 DEF OpenSslSign, IInv, ShapeOK
    <3>2. scratch[dir[p]] \in Files /\ scratch'[dir[p]] \in Files
      BY <1>5, <3>1, OpenSslSignKeeps DEF OpenSslSign, IInv, DirOK
    <3> QED
      BY <3>1, <3>2, OwnedIsAccounted
  <2> QED
    BY <2>1, <2>2
<1>6. CASE Check(p)
  <2>1. CASE Raise(p, "SignatureInvalid")
    BY <2>1, RaiseIsAccounted
  <2>2. CASE Remove(p) /\ Checked(p)
    <3>1. dir' = [dir EXCEPT ![p] = Nothing]
      BY <2>2 DEF Checked, Forget
    <3> QED
      BY <2>2, <3>1, RemovedIsAccounted
  <2> QED
    BY <1>6, <2>1, <2>2 DEF Check
<1> QED
  BY <1>1, <1>2, <1>3, <1>4, <1>5, <1>6 DEF Step

\* A call that ends without dropping its directory adds it to the orphans.
LEMMA KillIsAccounted ==
    ASSUME IInv, ScratchAccounted, orphans \subseteq Directory,
           NEW p \in Calls, Kill(p)
    PROVE  ScratchAccounted'
<1>1. /\ scratch' = scratch /\ orphans' = orphans \cup ({dir[p]} \ {Nothing})
      /\ dir' = [dir EXCEPT ![p] = Nothing]
  BY DEF Kill, Forget
<1>2. dir'[p] = Nothing /\ \A q \in Calls \ {p} : dir'[q] = dir[q]
  BY <1>1 DEF IInv, ShapeOK
<1>3. \A q \in Calls \ {p} : dir[q] = dir[p] => dir[q] = Nothing
  BY DEF IInv, DirOK
<1>4. \A q \in Calls : dir'[q] \notin orphans'
  BY <1>1, <1>2, <1>3 DEF ScratchAccounted
<1> QED
  BY <1>1, <1>2, <1>4 DEF ScratchAccounted

LEMMA UnprotectedIsAccounted ==
    ASSUME IInv, ScratchAccounted, orphans \subseteq Directory,
           NEW p \in Calls, NEW d \in Directory, Unprotected(p, d)
    PROVE  ScratchAccounted'
<1>1. /\ pc[p] = "scratch" /\ scratch[d] = Nothing
      /\ scratch' = [scratch EXCEPT ![d] = EmptyDir] /\ orphans' = orphans \cup {d}
      /\ dir' = [dir EXCEPT ![p] = Nothing]
  BY DEF Unprotected, Forget
<1>2. dir[p] = Nothing
  BY <1>1 DEF IInv, DirOK
<1>3. \A q \in Calls : dir'[q] = dir[q]
  BY <1>1, <1>2 DEF IInv, ShapeOK
<1>4. scratch'[d] # Nothing /\ \A e \in Directory \ {d} : scratch'[e] = scratch[e]
  BY <1>1 DEF EmptyDir, Files, IInv, ShapeOK
<1> QED
  BY <1>1, <1>3, <1>4 DEF ScratchAccounted

LEMMA NextIsAccounted ==
    ASSUME IInv, Bounds, ScratchAccounted, [Next]_vars
    PROVE  ScratchAccounted'
<1>0. orphans \subseteq Directory
  BY DEF Bounds
<1>1. ASSUME NEW p \in Calls, Start(p) PROVE ScratchAccounted'
  BY <1>1 DEF Start, ScratchAccounted
<1>2. ASSUME NEW p \in Calls, Step(p) PROVE ScratchAccounted'
  BY <1>0, <1>2, StepIsAccounted
<1>3. ASSUME NEW p \in Calls, IoError(p) PROVE ScratchAccounted'
  BY <1>0, <1>3, RaiseIsAccounted DEF IoError
<1>4. ASSUME NEW p \in Calls, Kill(p) PROVE ScratchAccounted'
  BY <1>0, <1>4, KillIsAccounted
<1>5. ASSUME NEW a \in Algorithms, NEW k \in Key \cup {NoKey}, Replace(a, k)
      PROVE  ScratchAccounted'
  BY <1>5 DEF Replace, cvars, ScratchAccounted
<1>6. CASE UNCHANGED vars
  BY <1>6 DEF vars, cvars, ScratchAccounted
<1>7. ASSUME NEW p \in Calls, NEW d \in Directory, Unprotected(p, d)
      PROVE  ScratchAccounted'
  BY <1>0, <1>7, UnprotectedIsAccounted
<1> QED
  BY <1>1, <1>2, <1>3, <1>4, <1>5, <1>6, <1>7 DEF Next

\* Under every fault, the scratch root holds the directories of calls at work, those
\* a killed call had and those whose removal failed, and no others; none of the last
\* two kinds is ever used again (Drop for ScratchDirectory, create_dir).
THEOREM ScratchStaysAccounted == Spec => []ScratchAccounted
<1>1. Init => ScratchAccounted
  BY DEF Init, ScratchAccounted
<1>2. IInv /\ Bounds /\ ScratchAccounted /\ [Next]_vars => ScratchAccounted'
  BY NextIsAccounted
<1> QED
  BY <1>1, <1>2, InitIInv, InitBounds, NextKeeps, NextBounds, PTL DEF Spec

-----------------------------------------------------------------------------
(* A released envelope is handed to openssl with the files it was made from *)

\* The invariant of HybridBaseline that its steps maintain.
ReleasedComplete == \A d \in released : Complete(d)

LEMMA ReleasedStayComplete ==
    ASSUME ReleasedComplete, [BNext]_bvars
    PROVE  ReleasedComplete'
BY DEF ReleasedComplete, BNext, Release, Accept, Grows, bvars

\* The answer SignatureInvalid comes from openssl -verify alone.
LEMMA InvalidMeansFailed ==
    ASSUME IInv, [Next]_vars, NEW p \in Calls,
           pc[p] # "idle", pc'[p] = "idle", result'[p] = "SignatureInvalid"
    PROVE  pc[p] = "check" /\ (Passes(scratch[dir[p]]) => "openssl" \in Faults)
<1> USE DEF IInv, ShapeOK
<1>1. ASSUME NEW r, Forget(p, r) PROVE r = "SignatureInvalid"
  BY <1>1 DEF Forget
<1>2. ASSUME NEW r, Raise(p, r) PROVE r = "SignatureInvalid"
  BY <1>1, <1>2 DEF Raise
<1>3. ASSUME NEW l, l # "idle", pc' = [pc EXCEPT ![p] = l] PROVE FALSE
  BY <1>3
<1>4. ASSUME NEW q \in Calls \ {p} PROVE ~(Start(q) \/ Step(q) \/ IoError(q) \/ Kill(q))
                                         /\ \A d \in Directory : ~Unprotected(q, d)
  <2>1. ASSUME NEW l, pc' = [pc EXCEPT ![q] = l] PROVE FALSE
    BY <1>4, <2>1
  <2>2. ASSUME NEW r, Forget(q, r) \/ Raise(q, r) PROVE FALSE
    BY <2>1, <2>2 DEF Forget, Raise
  <2>3. ~Start(q)
    BY <2>1 DEF Start
  <2>4. ~Bind(q) /\ ~Private(q)
    BY <2>1, <2>2 DEF Bind, Private, Goto
  <2>5. ~Scratch(q)
    BY <2>1, <2>2 DEF Scratch, Create, Retry, Goto
  <2>6. ~Fill(q) /\ ~OpenSslSign(q)
    BY <2>1, <2>2 DEF Fill, OpenSslSign, Goto
  <2>7. ~Check(q)
    BY <2>1, <2>2 DEF Check, Checked, Goto
  <2>8. ~IoError(q) /\ ~Kill(q) /\ \A d \in Directory : ~Unprotected(q, d)
    BY <2>2 DEF IoError, Kill, Unprotected
  <2> QED
    BY <2>3, <2>4, <2>5, <2>6, <2>7, <2>8 DEF Step
<1>5. ~Start(p)
  BY DEF Start
<1>6. ~Bind(p) /\ ~Private(p)
  BY <1>2, <1>3 DEF Bind, Private, Goto
<1>7. ~Scratch(p)
  BY <1>2, <1>3 DEF Scratch, Create, Retry, Goto
<1>8. ~Fill(p) /\ ~OpenSslSign(p)
  BY <1>2, <1>3 DEF Fill, OpenSslSign, Goto
<1>9. ~IoError(p) /\ ~Kill(p) /\ \A d \in Directory : ~Unprotected(p, d)
  BY <1>1, <1>2 DEF IoError, Kill, Unprotected
<1>10. ASSUME NEW a \in Algorithms, NEW k \in Key \cup {NoKey} PROVE ~Replace(a, k)
  BY DEF Replace
<1>11. ~UNCHANGED vars
  BY DEF vars
<1>12. Check(p)
  BY <1>4, <1>5, <1>6, <1>7, <1>8, <1>9, <1>10, <1>11 DEF Next, Step
<1>13. ~Checked(p)
  BY <1>1, <1>3 DEF Checked, Goto
<1> QED
  BY <1>12, <1>13 DEF Check

\* The files on which a released document is verified are the ones that passed.
LEMMA ReleasedPasses ==
    ASSUME IInv, ReleasedComplete, NEW p \in Calls, pc[p] = "check",
           job[p].op = "verify", job[p].document \in released
    PROVE  Passes(scratch[dir[p]])
<1> DEFINE d == job[p].document
           f == scratch[dir[p]]
<1>1. CallOK(p) /\ ~Signing(p) /\ dir[p] \in Directory
  BY DEF IInv, DirOK, Signing
<1>2. Alg(p) \in Algorithms /\ d \in Document /\ Complete(d)
  BY <1>1, CallTypes DEF CallOK, ReleasedComplete
<1>3. /\ f \in Files /\ f.message = MessageFor(Alg(p), d.manifest)
      /\ f.key = d.manifest.keys[Alg(p)] /\ f.signature = d.signatures[Alg(p)]
  BY <1>1 DEF CallOK, FilesOK, JobOK, Msg, Named
<1>4. Verifies(f.key, f.message, f.signature)
  BY <1>2, <1>3 DEF Complete
<1>5. f.signature # Nothing
  BY <1>2, <1>3 DEF Document
<1> QED
  BY <1>3, <1>4, <1>5 DEF Passes

\* Whatever key files were replaced in between, what any call returned is verified
\* under the key, message and signature that passed when it was made: only an openssl
\* that fails by itself calls it a bad signature (verify_bytes).
THEOREM ReleasedStaysMatching == Spec => ReleasedAlwaysMatches
<1>1. Init => ReleasedComplete
  BY DEF Init, BInit, ReleasedComplete
<1>2. IInv /\ ReleasedComplete /\ [Next]_vars => ReleasedComplete'
  BY NextKeeps, ReleasedStayComplete
<1>3. IInv /\ ReleasedComplete /\ [Next]_vars =>
        [\A p \in Calls :
            /\ pc[p] # "idle" /\ pc'[p] = "idle" /\ result'[p] = "SignatureInvalid"
            /\ job[p].op = "verify" /\ job[p].document \in released
            => Passes(scratch[dir[p]]) /\ "openssl" \in Faults]_vars
  BY InvalidMeansFailed, ReleasedPasses
<1> QED
  BY <1>1, <1>2, <1>3, InitIInv, NextKeeps, PTL DEF Spec, ReleasedAlwaysMatches

=============================================================================
