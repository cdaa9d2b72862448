-------------------------- MODULE SafePublishProofs --------------------------
(***************************************************************************)
(* Theorems about SafePublish, for any commits, clones, runs, moves of a   *)
(* HEAD and numbers of polls.                                              *)
(***************************************************************************)
EXTENDS SafePublish, TLAPS

Publishing == {"preflight", "find", "watch", "reread", "push", "confirm",
               "find main", "watch main", "signatures", "delete", "final"}
Labels   == {"ended", "audit", "fetch", "baseline", "stale"} \cup Publishing
Unpushed == {"audit", "fetch", "baseline", "stale", "preflight"}
Watched  == Publishing \ {"preflight", "find", "watch"}
Retested == {"signatures", "delete", "final"}

Flag == [preflight : BOOLEAN, main : BOOLEAN, deleted : BOOLEAN,
         applied : Commit \cup {None}]
Outcome == [status : {"none", "PASS", "FAILED"}, mayExist : BOOLEAN, untouched : BOOLEAN]

Types ==
    /\ TypeOK
    /\ pc \in [Publishers -> Labels] /\ mode \in [Publishers -> {"Audit", "Publish"}]
    /\ flags \in [Publishers -> Flag] /\ outcome \in [Publishers -> Outcome]
    /\ moves \in Nat

\* Nobody has pushed a branch with the name of a run that has still to push it.
Fresh(p) ==
    \A k \in 1..MaxRuns :
        (runs[p] < k \/ (runs[p] = k /\ pc[p] \in Unpushed)) => branch[<<p, k>>] = None

\* A run says nothing before it ends, and publishes in one mode.
Begun(p) ==
    /\ pc[p] # "ended" => runs[p] \in 1..MaxRuns /\ outcome[p] = NoOutcome
    /\ outcome[p].status # "none" => runs[p] \in 1..MaxRuns
    /\ pc[p] \in {"baseline", "stale"} \cup Publishing => local[p] \in Commit
    /\ pc[p] \in Publishing => mode[p] = "Publish"

\* What the run has looked at and what nobody can undo.
Seen(p) ==
    /\ pc[p] \in Watched => ci[local[p]][Preflight(p)] = "success"
    /\ pc[p] \in Retested => ci[local[p]][MainRef] = "success"
    /\ pc[p] \in {"delete", "final"} => commits[p] \subseteq Verified
    /\ pc[p] = "final" => branch[Preflight(p)] = None

\* What was audited is what is published, or HEAD is away or has moved twice.
Audited(p) ==
    /\ pc[p] = "baseline" => head[p] = local[p] \/ moves >= 1
    /\ pc[p] \in {"stale"} \cup Publishing =>
          \/ commits[p] \subseteq Past[local[p]]
          \/ moves >= 2
          \/ moves >= 1 /\ head[p] # local[p]

Published(p) ==
    outcome[p].status = "PASS" /\ mode[p] = "Publish" =>
        /\ local[p] \in Past[Main] /\ commits[p] \subseteq Verified
        /\ moves <= 1 => commits[p] \subseteq Past[Main]
        /\ ci[local[p]][MainRef] = "success"
        /\ ci[local[p]][Preflight(p)] = "success"
        /\ branch[Preflight(p)] = None

\* As long as every reply arrives, the flags say what was done.
FlagsRight(p) ==
    /\ pc[p] # "ended" /\ branch[Preflight(p)] # None =>
          flags[p].preflight /\ ~flags[p].deleted
    /\ outcome[p].status = "FAILED" /\ branch[Preflight(p)] # None => outcome[p].mayExist
    /\ flags[p].applied # None => flags[p].main
    /\ outcome[p].untouched => flags[p].applied = None
    /\ pc[p] \in Unpushed => ~flags[p].deleted

RunOK(p) ==
    /\ Begun(p) /\ Fresh(p) /\ Seen(p) /\ Audited(p) /\ Published(p)
    /\ "lost" \notin Faults => FlagsRight(p)

IInv == Types /\ \A p \in Publishers : RunOK(p)

-----------------------------------------------------------------------------
(* GitHub *)

\* What no step takes back: main only moves forward, a CI run that passed has passed.
Grows ==
    /\ Main' \in Commit /\ Main \in Past[Main'] /\ moves' >= moves
    /\ \A c \in Commit, b \in Branch : ci[c][b] = "success" => ci'[c][b] = "success"

\* Nobody pushes this branch; it may be removed.
Quiet(n) == branch'[n] \in {branch[n], None}

LEMMA PastFacts ==
    /\ \A c \in Commit : c \in Past[c] /\ Past[c] \subseteq Commit
    /\ \A c \in Commit : \A d \in Past[c] : Past[d] \subseteq Past[c]
  BY CommitAssumption

LEMMA NameFacts ==
    ASSUME NEW p \in Publishers, runs[p] \in 1..MaxRuns
    PROVE  /\ Preflight(p) \in Name /\ Preflight(p) \in Branch /\ Preflight(p) # MainRef
           /\ \A q \in Publishers \ {p}, k \in 1..MaxRuns : <<q, k>> # Preflight(p)
           /\ \A n \in Name : n # MainRef /\ n \in Branch
  BY BoundAssumption DEF Preflight, Name, Branch

LEMMA OwnNames ==
    ASSUME NEW p \in Publishers, NEW k \in 1..MaxRuns
    PROVE  /\ <<p, k>> \in Name /\ <<p, k>> \in Branch
           /\ <<p, k>> # MainRef
  BY BoundAssumption DEF Name, Branch

GithubTypes ==
    /\ branch \in [Branch -> Commit \cup {None}] /\ Main \in Commit
    /\ ci \in [Commit -> [Branch -> {"none", "due", "running", "success", "failure"}]]

\* A push: to a name, or to main if the ruleset and git let it.
LEMMA ApplyKeeps ==
    ASSUME GithubTypes, NEW b \in Branch, NEW c \in Commit, Admits(b, c), Apply(b, c),
           moves \in Nat, moves' = moves
    PROVE  /\ GithubTypes' /\ Grows /\ branch'[b] = c
           /\ \A n \in Branch \ {b} : Quiet(n) /\ branch'[n] = branch[n]
<1>1. /\ branch' = [branch EXCEPT ![b] = c]
      /\ ci' = IF branch[b] = c \/ ci[c][b] # "none" THEN ci
               ELSE [ci EXCEPT ![c][b] = "due"]
  BY DEF Apply
<1>2. /\ branch' \in [Branch -> Commit \cup {None}] /\ branch'[b] = c
      /\ \A n \in Branch \ {b} : branch'[n] = branch[n]
  BY <1>1 DEF GithubTypes
<1>3. c \in Commit /\ b \in Branch
  OBVIOUS
<1>4. /\ ci' \in [Commit -> [Branch -> {"none", "due", "running", "success", "failure"}]]
      /\ \A d \in Commit, n \in Branch :
            /\ ci'[d][n] = ci[d][n] \/ (n = b /\ d = c /\ ci[d][n] = "none")
  <2>1. CASE ci' = ci
    BY <2>1 DEF GithubTypes
  <2>2. CASE ci[c][b] = "none" /\ ci' = [ci EXCEPT ![c][b] = "due"]
    BY <1>3, <2>2 DEF GithubTypes
  <2> QED
    BY <1>1, <2>1, <2>2
<1>5. MainRef \in Branch
  BY DEF Branch
<1>6. Main' \in Commit /\ Main \in Past[Main']
  <2>1. CASE b = MainRef
    BY <1>2, <2>1, CommitAssumption DEF Admits, GithubTypes, Main
  <2>2. CASE b # MainRef
    BY <1>2, <1>5, <2>2, PastFacts DEF GithubTypes, Main
  <2> QED
    BY <2>1, <2>2
<1>7. Grows
  BY <1>4, <1>6 DEF Grows
<1>8. ASSUME NEW n \in Branch \ {b} PROVE Quiet(n)
  BY <1>2, <1>4 DEF Quiet
<1> QED
  BY <1>2, <1>4, <1>6, <1>7, <1>8 DEF GithubTypes

LEMMA GithubStays ==
    ASSUME GithubTypes, UNCHANGED github, moves \in Nat, moves' \in Nat, moves' >= moves
    PROVE  GithubTypes' /\ Grows /\ \A n \in Branch : Quiet(n)
<1>1. branch' = branch /\ ci' = ci
  BY DEF github
<1>2. Main' = Main
  BY <1>1 DEF Main
<1> QED
  BY <1>1, <1>2, PastFacts DEF GithubTypes, Grows, Quiet

-----------------------------------------------------------------------------
(* Other runs *)

\* No step of another run touches this one.
Stays(q) ==
    /\ head'[q] = head[q] /\ runs'[q] = runs[q] /\ pc'[q] = pc[q] /\ mode'[q] = mode[q]
    /\ local'[q] = local[q] /\ commits'[q] = commits[q]
    /\ flags'[q] = flags[q] /\ outcome'[q] = outcome[q]

\* What is published stays published.
LEMMA PublishedStays ==
    ASSUME Types, NEW q \in Publishers, Begun(q), Published(q), Grows,
           \A k \in 1..MaxRuns : Quiet(<<q, k>>),
           runs'[q] = runs[q], mode'[q] = mode[q], local'[q] = local[q],
           commits'[q] = commits[q], outcome'[q] = outcome[q], moves' \in Nat
    PROVE  Published(q)'
<1> SUFFICES ASSUME outcome'[q].status = "PASS", mode'[q] = "Publish"
             PROVE  /\ local'[q] \in Past[Main'] /\ commits'[q] \subseteq Verified
                    /\ moves' <= 1 => commits'[q] \subseteq Past[Main']
                    /\ ci'[local'[q]][MainRef] = "success"
                    /\ ci'[local'[q]][Preflight(q)'] = "success"
                    /\ branch'[Preflight(q)'] = None
  BY DEF Published, Main
<1>1. /\ runs[q] \in 1..MaxRuns /\ Preflight(q)' = Preflight(q)
      /\ Preflight(q) \in Branch /\ MainRef \in Branch
  BY NameFacts DEF Begun, Preflight, Branch
<1>2. /\ local[q] \in Past[Main] /\ commits[q] \subseteq Verified
      /\ moves <= 1 => commits[q] \subseteq Past[Main]
      /\ ci[local[q]][MainRef] = "success" /\ ci[local[q]][Preflight(q)] = "success"
      /\ branch[Preflight(q)] = None
  BY DEF Published
<1>3. Main \in Commit /\ Main' \in Commit /\ Past[Main] \subseteq Past[Main']
  BY PastFacts DEF Types, TypeOK, Grows
<1>4. local[q] \in Commit
  BY <1>2, <1>3, PastFacts
<1>5. branch'[Preflight(q)] = None
  BY <1>1, <1>2 DEF Quiet, Preflight
<1>6. moves' <= 1 => moves <= 1
  BY DEF Grows, Types
<1> QED
  BY <1>1, <1>2, <1>3, <1>4, <1>5, <1>6 DEF Grows

LEMMA OthersKeep ==
    ASSUME Types, NEW q \in Publishers, RunOK(q), Grows, moves' \in Nat,
           \A k \in 1..MaxRuns : Quiet(<<q, k>>), Stays(q)
    PROVE  RunOK(q)'
<1>1. Begun(q)'
  BY DEF RunOK, Begun, Stays
<1>2. Fresh(q)'
  BY DEF RunOK, Fresh, Quiet, Stays
<1>3. Published(q)'
  BY PublishedStays DEF RunOK, Stays
<1>4. Preflight(q)' = Preflight(q) /\ MainRef \in Branch
  BY DEF Preflight, Stays, Branch
<1>5. pc[q] # "ended" \/ outcome[q].status = "FAILED" =>
        Preflight(q) \in Branch /\ Quiet(Preflight(q))
  BY NameFacts DEF RunOK, Begun, Preflight
<1>6. Seen(q)'
  <2>1. pc[q] \in Watched \cup Retested \cup {"delete", "final"} =>
          pc[q] # "ended" /\ local[q] \in Commit
    BY DEF RunOK, Begun, Watched, Retested, Publishing
  <2>2. pc[q] \in Watched => ci'[local[q]][Preflight(q)] = "success"
    BY <1>5, <2>1 DEF RunOK, Seen, Grows
  <2>3. pc[q] \in Retested => ci'[local[q]][MainRef] = "success"
    BY <1>4, <2>1 DEF RunOK, Seen, Grows
  <2>4. pc[q] = "final" => branch'[Preflight(q)] = None
    BY <1>5 DEF RunOK, Seen, Quiet
  <2>5. pc[q] \in {"delete", "final"} => commits[q] \subseteq Verified
    BY DEF RunOK, Seen
  <2> QED
    BY <1>4, <2>2, <2>3, <2>4, <2>5 DEF Seen, Stays
<1>7. Audited(q)'
  BY DEF RunOK, Audited, Stays, Grows, Types
<1>8. "lost" \notin Faults => FlagsRight(q)'
  BY <1>4, <1>5 DEF RunOK, FlagsRight, Stays, Quiet
<1> QED
  BY <1>1, <1>2, <1>3, <1>6, <1>7, <1>8 DEF RunOK

-----------------------------------------------------------------------------
(* Steps of one run *)

\* What a step of p leaves behind, for p and for the others.
StepOK(p) ==
    /\ Types' /\ RunOK(p)' /\ Grows
    /\ \A q \in Publishers \ {p} : Stays(q) /\ \A k \in 1..MaxRuns : Quiet(<<q, k>>)

LEMMA StepKeeps == ASSUME IInv, NEW p \in Publishers, StepOK(p) PROVE IInv'
<1>1. ASSUME NEW q \in Publishers, q # p PROVE RunOK(q)'
  BY <1>1, OthersKeep DEF StepOK, IInv, Types
<1> QED
  BY <1>1 DEF StepOK, IInv

LEMMA TypesAreGithubs == ASSUME Types PROVE GithubTypes /\ moves \in Nat
  BY DEF Types, TypeOK, GithubTypes

\* A change to the script's variables of p only.
LEMMA OthersStay ==
    ASSUME IInv, NEW p \in Publishers, head' = head, runs' = runs,
           \A q \in Publishers \ {p} :
              /\ pc'[q] = pc[q] /\ mode'[q] = mode[q] /\ local'[q] = local[q]
              /\ commits'[q] = commits[q] /\ flags'[q] = flags[q]
              /\ outcome'[q] = outcome[q],
           \A n \in Branch \ {Preflight(p), MainRef} : Quiet(n), runs[p] \in 1..MaxRuns
    PROVE  \A q \in Publishers \ {p} : Stays(q) /\ \A k \in 1..MaxRuns : Quiet(<<q, k>>)
<1> SUFFICES ASSUME NEW q \in Publishers \ {p}, NEW k \in 1..MaxRuns
             PROVE  Stays(q) /\ Quiet(<<q, k>>)
  BY DEF Stays
<1>1. <<q, k>> \in Branch /\ <<q, k>> # MainRef /\ <<q, k>> # Preflight(p)
  BY OwnNames, NameFacts
<1> QED
  BY <1>1 DEF Stays

LEMMA FreshStays ==
    ASSUME NEW p \in Publishers, Fresh(p), runs'[p] = runs[p], runs[p] \in 1..MaxRuns,
           \A n \in Branch \ {Preflight(p), MainRef} : Quiet(n),
           pc'[p] \in Unpushed => pc[p] \in Unpushed /\ Quiet(Preflight(p))
    PROVE  Fresh(p)'
<1> SUFFICES ASSUME NEW k \in 1..MaxRuns,
                    runs[p] < k \/ (runs[p] = k /\ pc'[p] \in Unpushed)
             PROVE  branch'[<<p, k>>] = None
  BY DEF Fresh
<1>1. branch[<<p, k>>] = None
  BY DEF Fresh
<1>2. CASE runs[p] = k
  <2>1. Quiet(<<p, k>>)
    BY <1>2 DEF Preflight
  <2> QED
    BY <1>1, <2>1 DEF Quiet
<1>3. CASE runs[p] # k
  <2>1. <<p, k>> \in Branch \ {Preflight(p), MainRef}
    BY <1>3, OwnNames DEF Preflight
  <2> QED
    BY <1>1, <2>1 DEF Quiet
<1> QED
  BY <1>2, <1>3

\* The catch block.
LEMMA CatchKeeps ==
    ASSUME IInv, NEW p \in Publishers, pc[p] # "ended", NEW f \in Flag, Catch(p, f),
           GithubTypes', Grows, \A n \in Branch \ {Preflight(p), MainRef} : Quiet(n),
           head' = head, moves' = moves, runs' = runs, origin' \in [Publishers -> Commit],
           "lost" \notin Faults =>
              f = flags[p] /\ branch'[Preflight(p)] \in {branch[Preflight(p)], None}
    PROVE  StepOK(p)
<1>1. Types /\ RunOK(p)
  BY DEF IInv
<1>2. /\ pc' = [pc EXCEPT ![p] = "ended"] /\ flags' = [flags EXCEPT ![p] = f]
      /\ outcome' = [outcome EXCEPT ![p] =
            [status |-> "FAILED", mayExist |-> f.preflight /\ ~f.deleted,
             untouched |-> ~f.main]]
      /\ UNCHANGED <<mode, local, baseline, commits, polls>>
  BY DEF Catch, Goto
<1>3. Types'
  <2>1. [status |-> "FAILED", mayExist |-> f.preflight /\ ~f.deleted,
         untouched |-> ~f.main] \in Outcome
    BY DEF Flag, Outcome
  <2>2. outcome' \in [Publishers -> Outcome] /\ flags' \in [Publishers -> Flag]
    BY <1>1, <1>2, <2>1 DEF Types
  <2>3. pc' \in [Publishers -> Labels]
    BY <1>1, <1>2 DEF Types, Labels
  <2>4. TypeOK'
    BY <1>1, <1>2 DEF Types, TypeOK, GithubTypes
  <2> QED
    BY <1>1, <1>2, <2>2, <2>3, <2>4 DEF Types
<1>4. /\ pc'[p] = "ended" /\ flags'[p] = f /\ outcome'[p].status = "FAILED"
      /\ outcome'[p].mayExist = (f.preflight /\ ~f.deleted)
      /\ outcome'[p].untouched = ~f.main
      /\ runs[p] \in 1..MaxRuns /\ Preflight(p)' = Preflight(p)
  BY <1>1, <1>2 DEF Types, RunOK, Begun, Preflight
<1>5. \A q \in Publishers \ {p} : Stays(q) /\ \A k \in 1..MaxRuns : Quiet(<<q, k>>)
  BY <1>1, <1>2, <1>4, OthersStay DEF Types
<1>6. Fresh(p)'
  BY <1>1, <1>4, FreshStays DEF RunOK, Unpushed
<1>7. "lost" \notin Faults => FlagsRight(p)'
  BY <1>1, <1>4 DEF RunOK, FlagsRight, Unpushed
<1>8. Begun(p)' /\ Seen(p)' /\ Audited(p)' /\ Published(p)'
  BY <1>4 DEF Begun, Seen, Audited, Published, Publishing, Watched, Retested
<1> QED
  BY <1>3, <1>5, <1>6, <1>7, <1>8 DEF StepOK, RunOK

\* An error that leaves everything else as it was.
LEMMA ThrowKeeps ==
    ASSUME IInv, NEW p \in Publishers, pc[p] # "ended", Throw(p), UNCHANGED github,
           head' = head, moves' = moves, runs' = runs, origin' \in [Publishers -> Commit]
    PROVE  StepOK(p)
<1>1. GithubTypes' /\ Grows /\ \A n \in Branch : Quiet(n)
  BY GithubStays, TypesAreGithubs DEF IInv
<1>2. flags[p] \in Flag /\ branch' = branch
  BY DEF IInv, Types, github
<1> QED
  BY <1>1, <1>2, CatchKeeps DEF Throw

\* The step succeeds and finds what the next one relies on.
LEMMA GotoKeeps ==
    ASSUME IInv, NEW p \in Publishers, pc[p] # "ended",
           NEW l \in Labels \ {"ended", "baseline", "final"}, Goto(p, l),
           UNCHANGED <<github, head, origin, moves, runs>>,
           UNCHANGED <<mode, local, baseline, commits, flags, outcome>>,
           polls' \in [Publishers -> 0..(Attempts - 1)],
           l \in {"stale"} \cup Publishing => pc[p] \in {"stale"} \cup Publishing,
           l \in Publishing => mode[p] = "Publish",
           l \in Unpushed => pc[p] \in Unpushed,
           l \in Watched => ci[local[p]][Preflight(p)] = "success",
           l \in Retested => ci[local[p]][MainRef] = "success",
           l \in {"delete", "final"} => commits[p] \subseteq Verified
    PROVE  StepOK(p)
<1>1. Types /\ RunOK(p)
  BY DEF IInv
<1>2. GithubTypes' /\ Grows /\ (\A n \in Branch : Quiet(n))
      /\ branch' = branch /\ ci' = ci
  BY <1>1, GithubStays, TypesAreGithubs DEF github
<1>3. pc' = [pc EXCEPT ![p] = l]
  BY DEF Goto
<1>4. Types'
  BY <1>1, <1>2, <1>3 DEF Types, TypeOK, GithubTypes
<1>5. /\ pc'[p] = l /\ l # "ended" /\ l # "baseline"
      /\ runs[p] \in 1..MaxRuns /\ Preflight(p)' = Preflight(p) /\ Preflight(p) \in Branch
  BY <1>1, <1>3, NameFacts DEF Types, RunOK, Begun, Preflight
<1>6. \A q \in Publishers \ {p} : Stays(q) /\ \A k \in 1..MaxRuns : Quiet(<<q, k>>)
  BY <1>1, <1>2, <1>3, <1>5, OthersStay DEF Types
<1>7. Fresh(p)'
  BY <1>1, <1>2, <1>5, FreshStays DEF RunOK
<1>8. Begun(p)'
  BY <1>1, <1>5 DEF RunOK, Begun
<1>9. Seen(p)'
  BY <1>2, <1>5 DEF Seen
<1>10. Audited(p)'
  BY <1>1, <1>5 DEF RunOK, Audited
<1>11. Published(p)'
  BY <1>1, <1>5 DEF RunOK, Begun, Published, NoOutcome
<1>12. "lost" \notin Faults => FlagsRight(p)'
  BY <1>1, <1>2, <1>5 DEF RunOK, FlagsRight
<1> QED
  BY <1>2, <1>4, <1>6, <1>7, <1>8, <1>9, <1>10, <1>11, <1>12 DEF StepOK, RunOK

LEMMA StartKeeps == ASSUME IInv, NEW p \in Publishers, Start(p) PROVE StepOK(p)
<1>1. Types /\ RunOK(p)
  BY DEF IInv
<1>2. /\ pc[p] = "ended" /\ runs[p] < MaxRuns /\ runs' = [runs EXCEPT ![p] = @ + 1]
      /\ local' = [local EXCEPT ![p] = None] /\ baseline' = [baseline EXCEPT ![p] = None]
      /\ commits' = [commits EXCEPT ![p] = {}] /\ polls' = [polls EXCEPT ![p] = 0]
      /\ flags' = [flags EXCEPT ![p] = NoFlags]
      /\ outcome' = [outcome EXCEPT ![p] = NoOutcome]
      /\ pc' = [pc EXCEPT ![p] = "audit"] /\ UNCHANGED <<github, head, origin, moves>>
      /\ \E m \in {"Audit", "Publish"} : mode' = [mode EXCEPT ![p] = m]
  BY DEF Start, Goto, clone
<1>3. GithubTypes' /\ Grows /\ (\A n \in Branch : Quiet(n))
      /\ branch' = branch /\ ci' = ci
  BY <1>1, <1>2, GithubStays, TypesAreGithubs DEF github
<1>4. Types'
  <2>1. NoFlags \in Flag /\ NoOutcome \in Outcome
    BY DEF NoFlags, NoOutcome, Flag, Outcome
  <2>2. /\ runs' \in [Publishers -> 0..MaxRuns]
        /\ polls' \in [Publishers -> 0..(Attempts - 1)]
    BY <1>1, <1>2, BoundAssumption DEF Types, TypeOK
  <2>3. TypeOK'
    BY <1>1, <1>2, <1>3, <2>2 DEF Types, TypeOK, GithubTypes
  <2>4. pc' \in [Publishers -> Labels]
    BY <1>1, <1>2 DEF Types, Labels
  <2>5. mode' \in [Publishers -> {"Audit", "Publish"}]
    BY <1>1, <1>2 DEF Types
  <2> QED
    BY <1>1, <1>2, <2>1, <2>3, <2>4, <2>5 DEF Types
<1>5. /\ runs'[p] = runs[p] + 1 /\ runs[p] \in Nat /\ runs'[p] \in 1..MaxRuns
      /\ pc'[p] = "audit" /\ outcome'[p] = NoOutcome /\ flags'[p] = NoFlags
  BY <1>1, <1>2, BoundAssumption DEF Types, TypeOK
<1>6. ASSUME NEW q \in Publishers, q # p
      PROVE  Stays(q) /\ \A k \in 1..MaxRuns : Quiet(<<q, k>>)
  BY <1>1, <1>2, <1>3, <1>6, OwnNames DEF Types, TypeOK, Stays
<1>7. Fresh(p)' /\ branch'[Preflight(p)'] = None
  <2>1. \A k \in 1..MaxRuns : runs'[p] <= k => branch[<<p, k>>] = None
    BY <1>1, <1>5 DEF RunOK, Fresh
  <2> QED
    BY <1>3, <1>5, <2>1 DEF Fresh, Preflight
<1>8. Begun(p)' /\ Seen(p)' /\ Audited(p)' /\ Published(p)'
  BY <1>5 DEF Begun, Seen, Audited, Published, NoOutcome, Publishing, Watched, Retested
<1>9. FlagsRight(p)'
  BY <1>5, <1>7 DEF FlagsRight, NoOutcome, NoFlags, Unpushed
<1> QED
  BY <1>3, <1>4, <1>6, <1>7, <1>8, <1>9 DEF StepOK, RunOK

\* Steps that only look.
LEMMA LookKeeps ==
    ASSUME IInv, NEW p \in Publishers,
           \/ AssertRuleset(p) \/ Reread(p) \/ Confirm(p) \/ VerifySignatures(p)
           \/ Watch(p, "watch", Preflight(p), "reread")
           \/ Watch(p, "watch main", MainRef, "signatures")
    PROVE  StepOK(p)
<1>1. Types /\ RunOK(p) /\ pc[p] # "ended" /\ origin' \in [Publishers -> Commit]
      /\ UNCHANGED <<github, head, origin, moves, runs>>
  BY DEF IInv, Types, TypeOK, clone,
         AssertRuleset, Reread, Confirm, VerifySignatures, Watch
<1>2. CASE Throw(p)
  BY <1>1, <1>2, ThrowKeeps
<1>3. CASE ~Throw(p)
  <2>1. UNCHANGED <<mode, local, baseline, commits, flags, outcome>>
        /\ polls' \in [Publishers -> 0..(Attempts - 1)]
    BY <1>1, <1>3 DEF AssertRuleset, Reread, Confirm, VerifySignatures, Watch, script,
         Types, TypeOK
  <2>2. /\ pc[p] \in {"stale"} \cup Publishing => local[p] \in Commit
        /\ pc[p] \in Publishing => mode[p] = "Publish"
        /\ pc[p] \in Watched => ci[local[p]][Preflight(p)] = "success"
        /\ pc[p] \in Retested => ci[local[p]][MainRef] = "success"
    BY <1>1 DEF RunOK, Begun, Seen
  <2>3. PICK l \in Labels :
           /\ Goto(p, l)
           /\ \/ pc[p] = "audit" /\ l = "fetch"
              \/ pc[p] = "reread" /\ l = "push"
              \/ pc[p] = "confirm" /\ l = "find main"
              \/ pc[p] = "signatures" /\ l = "delete" /\ commits[p] \subseteq Verified
              \/ /\ pc[p] = "watch" /\ l = "reread"
                 /\ ci[local[p]][Preflight(p)] = "success"
              \/ /\ pc[p] = "watch main" /\ l = "signatures"
                 /\ ci[local[p]][MainRef] = "success"
    BY <1>3 DEF AssertRuleset, Reread, Confirm, VerifySignatures, Watch,
         Labels, Publishing
  <2>4. l \notin {"ended", "baseline", "final"}
    BY <2>3
  <2>5. /\ l \in {"stale"} \cup Publishing => pc[p] \in Publishing
        /\ l \in Unpushed => pc[p] \in Unpushed
        /\ l \in Watched => ci[local[p]][Preflight(p)] = "success"
        /\ l \in Retested => ci[local[p]][MainRef] = "success"
        /\ l \in {"delete", "final"} => commits[p] \subseteq Verified
    BY <2>2, <2>3 DEF Publishing, Unpushed, Watched, Retested
  <2>6. l \in Publishing => mode[p] = "Publish"
    BY <2>2, <2>5
  <2> QED
    BY <1>1, <2>1, <2>3, <2>4, <2>5, <2>6, GotoKeeps
<1> QED
  BY <1>2, <1>3

LEMMA PollBounds ==
    ASSUME NEW a \in Nat \ {0}
    PROVE  0 \in 0..(a - 1) /\ \A n \in 0..(a - 1) : n + 1 < a => n + 1 \in 0..(a - 1)
  OBVIOUS

LEMMA FindKeeps ==
    ASSUME IInv, NEW p \in Publishers,
           \/ Find(p, "find", Preflight(p), "watch")
           \/ Find(p, "find main", MainRef, "watch main")
    PROVE  StepOK(p)
<1>1. Types /\ RunOK(p) /\ pc[p] \in {"find", "find main"}
      /\ origin' \in [Publishers -> Commit]
      /\ UNCHANGED <<github, head, origin, moves, runs>>
  BY DEF IInv, Types, TypeOK, Find, clone
<1>2. CASE Throw(p)
  BY <1>1, <1>2, ThrowKeeps
<1>3. CASE ~Throw(p)
  <2>1. UNCHANGED <<mode, local, baseline, commits, flags, outcome>>
    BY <1>1, <1>3 DEF Find
  <2>2. polls' \in [Publishers -> 0..(Attempts - 1)]
    <3>1. polls \in [Publishers -> 0..(Attempts - 1)]
      BY <1>1 DEF Types, TypeOK
    <3>2. Attempts \in Nat \ {0}
      BY BoundAssumption
    <3>3. PICK n : polls' = [polls EXCEPT ![p] = n] /\ n \in 0..(Attempts - 1)
      <4>1. polls[p] + 1 < Attempts => polls[p] + 1 \in 0..(Attempts - 1)
        BY <3>1, <3>2, PollBounds
      <4>2. 0 \in 0..(Attempts - 1)
        BY <3>2, PollBounds
      <4>3. \/ polls' = [polls EXCEPT ![p] = 0]
            \/ polls[p] + 1 < Attempts /\ polls' = [polls EXCEPT ![p] = polls[p] + 1]
        BY <1>3 DEF Find
      <4> QED
        BY <4>1, <4>2, <4>3
    <3> QED
      BY <3>1, <3>3
  <2>3. PICK l \in {"find", "find main", "watch", "watch main"} :
           Goto(p, l) /\ (l \in {"find main", "watch main"} => pc[p] = "find main")
    <3>1. pc' = [pc EXCEPT ![p] = pc[p]] <=> pc' = pc
      BY <1>1 DEF Types
    <3> QED
      BY <1>1, <1>3, <3>1 DEF Find, Goto
  <2>4. /\ pc[p] \in Publishing /\ mode[p] = "Publish"
        /\ pc[p] = "find main" => ci[local[p]][Preflight(p)] = "success"
    BY <1>1 DEF RunOK, Begun, Seen, Publishing, Watched
  <2>5. /\ l \in Labels \ {"ended", "baseline"} /\ l \notin Unpushed /\ l \notin Retested
        /\ l \notin {"delete", "final"}
        /\ l \in Watched => ci[local[p]][Preflight(p)] = "success"
    BY <2>3, <2>4 DEF Labels, Publishing, Unpushed, Watched, Retested
  <2> QED
    BY <1>1, <2>1, <2>2, <2>3, <2>4, <2>5, GotoKeeps
<1> QED
  BY <1>2, <1>3

\* A step that leaves the flags and what was said alone.
LEMMA FetchKeeps == ASSUME IInv, NEW p \in Publishers, Fetch(p) PROVE StepOK(p)
<1>1. Types /\ RunOK(p)
  BY DEF IInv
<1>2. /\ pc[p] = "fetch" /\ pc' = [pc EXCEPT ![p] = "baseline"]
      /\ local' = [local EXCEPT ![p] = head[p]] /\ origin' = [origin EXCEPT ![p] = Main]
      /\ UNCHANGED <<github, head, moves, runs>>
      /\ UNCHANGED <<mode, baseline, commits, polls, flags, outcome>>
  BY DEF Fetch, Goto
<1>3. GithubTypes' /\ Grows /\ (\A n \in Branch : Quiet(n)) /\ branch' = branch
  BY <1>1, <1>2, GithubStays, TypesAreGithubs DEF github
<1>4. Types'
  BY <1>1, <1>2, <1>3 DEF Types, TypeOK, GithubTypes, Labels
<1>5. /\ pc'[p] = "baseline" /\ local'[p] = head[p] /\ head[p] \in Commit
      /\ runs[p] \in 1..MaxRuns /\ outcome[p] = NoOutcome
      /\ Preflight(p)' = Preflight(p) /\ Preflight(p) \in Branch
  BY <1>1, <1>2, NameFacts DEF Types, TypeOK, RunOK, Begun, Preflight
<1>6. \A q \in Publishers \ {p} : Stays(q) /\ \A k \in 1..MaxRuns : Quiet(<<q, k>>)
  BY <1>1, <1>2, <1>3, <1>5, OthersStay DEF Types, TypeOK
<1>7. Fresh(p)'
  BY <1>1, <1>2, <1>3, <1>5, FreshStays DEF RunOK, Unpushed
<1>8. Begun(p)' /\ Seen(p)' /\ Audited(p)' /\ Published(p)'
  <2>1. outcome'[p] = NoOutcome /\ runs'[p] = runs[p] /\ head'[p] = head[p]
    BY <1>2, <1>5
  <2>2. Begun(p)'
    BY <1>5, <2>1 DEF Begun, NoOutcome, Publishing
  <2>3. Seen(p)'
    BY <1>5 DEF Seen, Publishing, Watched, Retested
  <2>4. Audited(p)'
    BY <1>5, <2>1 DEF Audited, Publishing
  <2>5. Published(p)'
    BY <2>1 DEF Published, NoOutcome
  <2> QED
    BY <2>2, <2>3, <2>4, <2>5
<1>9. "lost" \notin Faults => FlagsRight(p)'
  BY <1>1, <1>2, <1>3, <1>5 DEF RunOK, FlagsRight, Unpushed
<1> QED
  BY <1>3, <1>4, <1>6, <1>7, <1>8, <1>9 DEF StepOK, RunOK

\* What is listed is what HEAD has then; it is $LocalHead, or HEAD has moved.
LEMMA AuditKeeps == ASSUME IInv, NEW p \in Publishers, Audit(p) PROVE StepOK(p)
<1>1. Types /\ RunOK(p) /\ pc[p] = "baseline" /\ origin' = origin /\ head' = head
      /\ UNCHANGED <<github, moves, runs>> /\ origin \in [Publishers -> Commit]
  BY DEF IInv, Types, TypeOK, Audit, clone
<1>2. CASE Throw(p)
  BY <1>1, <1>2, ThrowKeeps
<1>3. CASE ~Throw(p)
  <2>1. /\ pc' = [pc EXCEPT ![p] = "stale"] /\ baseline' = [baseline EXCEPT ![p] = Main]
        /\ commits' = [commits EXCEPT ![p] = Ahead(p)]
        /\ UNCHANGED <<mode, local, polls, flags, outcome>>
    BY <1>3 DEF Audit, Goto
  <2>2. GithubTypes' /\ Grows /\ (\A n \in Branch : Quiet(n)) /\ branch' = branch
    BY <1>1, GithubStays, TypesAreGithubs DEF github
  <2>3. Ahead(p) \subseteq Past[head[p]] /\ Ahead(p) \subseteq Commit /\ Main \in Commit
    BY <1>1, PastFacts DEF Types, TypeOK, Ahead
  <2>4. Types'
    BY <1>1, <2>1, <2>2, <2>3 DEF Types, TypeOK, GithubTypes, Labels
  <2>5. /\ pc'[p] = "stale" /\ commits'[p] = Ahead(p)
        /\ runs[p] \in 1..MaxRuns /\ outcome[p] = NoOutcome /\ local[p] \in Commit
        /\ Preflight(p)' = Preflight(p) /\ Preflight(p) \in Branch
    BY <1>1, <2>1, NameFacts DEF Types, TypeOK, RunOK, Begun, Preflight
  <2>6. \A q \in Publishers \ {p} : Stays(q) /\ \A k \in 1..MaxRuns : Quiet(<<q, k>>)
    BY <1>1, <2>1, <2>2, <2>5, OthersStay DEF Types, TypeOK
  <2>7. Fresh(p)'
    BY <1>1, <2>2, <2>5, FreshStays DEF RunOK, Unpushed
  <2>8. Audited(p)'
    BY <1>1, <2>1, <2>3, <2>5 DEF RunOK, Audited
  <2>9. Begun(p)' /\ Seen(p)' /\ Published(p)'
    <3>1. outcome'[p] = NoOutcome /\ runs'[p] = runs[p] /\ local'[p] = local[p]
      BY <1>1, <2>1, <2>5
    <3>2. Begun(p)'
      BY <2>5, <3>1 DEF Begun, NoOutcome, Publishing
    <3>3. Seen(p)'
      BY <2>5 DEF Seen, Publishing, Watched, Retested
    <3>4. Published(p)'
      BY <3>1 DEF Published, NoOutcome
    <3> QED
      BY <3>2, <3>3, <3>4
  <2>10. "lost" \notin Faults => FlagsRight(p)'
    BY <1>1, <2>1, <2>2, <2>5 DEF RunOK, FlagsRight, Unpushed
  <2> QED
    BY <2>2, <2>4, <2>6, <2>7, <2>8, <2>9, <2>10 DEF StepOK, RunOK
<1> QED
  BY <1>2, <1>3

\* PASS: of an audit, or of a run that has found everything as it wants it.
LEMMA PassKeeps ==
    ASSUME IInv, NEW p \in Publishers, pc[p] # "ended", Pass(p), UNCHANGED github,
           head' = head, moves' = moves, runs' = runs, origin' \in [Publishers -> Commit],
           mode[p] = "Audit" \/ (pc[p] = "final" /\ Main = local[p] /\ head[p] = local[p])
    PROVE  StepOK(p)
<1>1. Types /\ RunOK(p)
  BY DEF IInv
<1>2. /\ pc' = [pc EXCEPT ![p] = "ended"]
      /\ outcome' = [outcome EXCEPT ![p] = [NoOutcome EXCEPT !.status = "PASS"]]
      /\ UNCHANGED <<mode, local, baseline, commits, polls, flags>>
  BY DEF Pass, Goto
<1>3. GithubTypes' /\ Grows /\ (\A n \in Branch : Quiet(n))
      /\ branch' = branch /\ ci' = ci
  BY <1>1, GithubStays, TypesAreGithubs DEF github
<1>4. Types'
  <2>1. [NoOutcome EXCEPT !.status = "PASS"] \in Outcome
    BY DEF NoOutcome, Outcome
  <2> QED
    BY <1>1, <1>2, <1>3, <2>1 DEF Types, TypeOK, GithubTypes, Labels
<1>5. /\ pc'[p] = "ended" /\ outcome'[p].status = "PASS" /\ ~outcome'[p].untouched
      /\ runs[p] \in 1..MaxRuns /\ Preflight(p)' = Preflight(p) /\ Preflight(p) \in Branch
  BY <1>1, <1>2, NameFacts DEF Types, RunOK, Begun, Preflight, NoOutcome
<1>6. \A q \in Publishers \ {p} : Stays(q) /\ \A k \in 1..MaxRuns : Quiet(<<q, k>>)
  BY <1>1, <1>2, <1>3, <1>5, OthersStay DEF Types, TypeOK
<1>7. Fresh(p)'
  BY <1>1, <1>3, <1>5, FreshStays DEF RunOK, Unpushed
<1>8. Published(p)'
  <2>1. CASE mode[p] = "Audit"
    BY <1>2, <2>1 DEF Published
  <2>2. CASE pc[p] = "final" /\ Main = local[p] /\ head[p] = local[p]
    <3>1. Main' = Main /\ local[p] \in Past[Main] /\ moves' = moves /\ moves \in Nat
      BY <1>1, <1>3, <2>2, PastFacts DEF Types, TypeOK, Main
    <3>2. /\ commits[p] \subseteq Verified /\ branch[Preflight(p)] = None
          /\ ci[local[p]][MainRef] = "success" /\ ci[local[p]][Preflight(p)] = "success"
      BY <1>1, <2>2 DEF RunOK, Seen, Watched, Retested, Publishing
    <3>3. moves <= 1 => commits[p] \subseteq Past[Main]
      BY <1>1, <2>2, <3>1 DEF RunOK, Audited, Publishing
    <3> QED
      BY <1>2, <1>3, <1>5, <3>1, <3>2, <3>3 DEF Published
  <2> QED
    BY <2>1, <2>2
<1>9. Begun(p)' /\ Seen(p)' /\ Audited(p)'
  BY <1>5 DEF Begun, Seen, Audited, Publishing, Watched, Retested
<1>10. "lost" \notin Faults => FlagsRight(p)'
  BY <1>1, <1>2, <1>5 DEF RunOK, FlagsRight, Unpushed
<1> QED
  BY <1>3, <1>4, <1>6, <1>7, <1>8, <1>9, <1>10 DEF StepOK, RunOK

LEMMA CheckStaleKeeps == ASSUME IInv, NEW p \in Publishers, CheckStale(p) PROVE StepOK(p)
<1>1. Types /\ RunOK(p) /\ pc[p] = "stale" /\ origin \in [Publishers -> Commit]
      /\ UNCHANGED <<github, head, origin, moves, runs>>
  BY DEF IInv, Types, TypeOK, CheckStale, clone
<1>2. CASE Throw(p)
  BY <1>1, <1>2, ThrowKeeps
<1>3. CASE mode[p] = "Audit" /\ Pass(p)
  BY <1>1, <1>3, PassKeeps
<1>4. CASE mode[p] = "Publish" /\ Goto(p, "preflight") /\ UNCHANGED script
  <2>1. polls' \in [Publishers -> 0..(Attempts - 1)]
    BY <1>1, <1>4 DEF Types, TypeOK, script
  <2>2. /\ "preflight" \in Labels \ {"ended", "baseline"} /\ "preflight" \notin Watched
        /\ "preflight" \notin Retested /\ pc[p] \in Unpushed
    BY <1>1 DEF Labels, Publishing, Watched, Retested, Unpushed
  <2> QED
    BY <1>1, <1>4, <2>1, <2>2, GotoKeeps DEF script
<1> QED
  BY <1>2, <1>3, <1>4 DEF CheckStale

LEMMA FinalKeeps == ASSUME IInv, NEW p \in Publishers, Final(p) PROVE StepOK(p)
<1>1. Types /\ pc[p] = "final" /\ UNCHANGED <<github, head, moves, runs>>
      /\ origin' = [origin EXCEPT ![p] = Main]
  BY DEF IInv, Final
<1>2. origin' \in [Publishers -> Commit]
  BY <1>1 DEF Types, TypeOK
<1>3. Throw(p) \/ (Pass(p) /\ Main = local[p] /\ head[p] = local[p])
  BY DEF Final
<1> QED
  BY <1>1, <1>2, <1>3, ThrowKeeps, PassKeeps

\* The preflight branch, which nobody has pushed before.
LEMMA PushPreflightKeeps ==
    ASSUME IInv, NEW p \in Publishers, PushPreflight(p) PROVE StepOK(p)
<1>1. /\ Types /\ RunOK(p) /\ pc[p] = "preflight" /\ origin' \in [Publishers -> Commit]
      /\ UNCHANGED <<head, origin, moves, runs>> /\ head[p] \in Commit
  BY DEF IInv, Types, TypeOK, PushPreflight, clone
<1>2. CASE Throw(p) /\ UNCHANGED github
  BY <1>1, <1>2, ThrowKeeps
<1>3. CASE Admits(Preflight(p), head[p]) /\ Apply(Preflight(p), head[p])
  <2>1. /\ runs[p] \in 1..MaxRuns /\ Preflight(p) \in Branch /\ Preflight(p) # MainRef
        /\ Preflight(p)' = Preflight(p) /\ outcome[p] = NoOutcome /\ local[p] \in Commit
        /\ mode[p] = "Publish"
    BY <1>1, NameFacts DEF RunOK, Begun, Preflight, Publishing
  <2>2. /\ GithubTypes' /\ Grows /\ \A n \in Branch \ {Preflight(p)} : Quiet(n)
        /\ branch'[Preflight(p)] = head[p]
    BY <1>1, <1>3, <2>1, ApplyKeeps, TypesAreGithubs
  <2>3. CASE "lost" \in Faults /\ Throw(p)
    <3>1. flags[p] \in Flag
      BY <1>1 DEF Types
    <3> QED
      BY <1>1, <2>2, <2>3, <3>1, CatchKeeps DEF Throw
  <2>4. CASE /\ flags' = [flags EXCEPT ![p].preflight = TRUE]
             /\ Goto(p, "find")
             /\ UNCHANGED <<mode, local, baseline, commits, polls, outcome>>
    <3>1. pc' = [pc EXCEPT ![p] = "find"] /\ pc'[p] = "find"
      BY <1>1, <2>4 DEF Goto, Types
    <3>2. flags' \in [Publishers -> Flag] /\ flags'[p].preflight = TRUE
          /\ flags'[p].deleted = flags[p].deleted /\ flags'[p].main = flags[p].main
          /\ flags'[p].applied = flags[p].applied
      BY <1>1, <2>4 DEF Types, Flag
    <3>3. Types'
      BY <1>1, <2>2, <2>4, <3>1, <3>2 DEF Types, TypeOK, GithubTypes, Labels, Publishing
    <3>4. \A q \in Publishers \ {p} : Stays(q) /\ \A k \in 1..MaxRuns : Quiet(<<q, k>>)
      BY <1>1, <2>1, <2>2, <2>4, <3>1, OthersStay DEF Types, TypeOK
    <3>5. Fresh(p)'
      BY <1>1, <2>1, <2>2, <3>1, FreshStays DEF RunOK, Unpushed
    <3>6. Begun(p)'
      BY <1>1, <2>1, <2>4, <3>1 DEF Begun, NoOutcome
    <3>7. Seen(p)'
      BY <3>1 DEF Seen, Watched, Retested
    <3>8. Audited(p)'
      BY <1>1, <2>4, <3>1 DEF RunOK, Audited, Publishing
    <3>9. Published(p)'
      BY <2>1, <2>4 DEF Published, NoOutcome
    <3>10. "lost" \notin Faults => FlagsRight(p)'
      BY <1>1, <2>1, <2>4, <3>1, <3>2 DEF RunOK, FlagsRight, NoOutcome, Unpushed
    <3> QED
      BY <2>2, <3>3, <3>4, <3>5, <3>6, <3>7, <3>8, <3>9, <3>10 DEF StepOK, RunOK
  <2> QED
    BY <1>1, <1>2, <1>3, <2>3, <2>4 DEF PushPreflight
<1> QED
  BY <1>2, <1>3 DEF PushPreflight

\* main, which git and the ruleset let go forward only.
LEMMA PushMainKeeps ==
    ASSUME IInv, NEW p \in Publishers, PushMain(p) PROVE StepOK(p)
<1>1. /\ Types /\ RunOK(p) /\ pc[p] = "push" /\ origin' \in [Publishers -> Commit]
      /\ UNCHANGED <<head, origin, moves, runs>> /\ head[p] \in Commit
  BY DEF IInv, Types, TypeOK, PushMain, clone
<1>2. CASE Throw(p) /\ UNCHANGED github
  BY <1>1, <1>2, ThrowKeeps
<1>3. CASE Admits(MainRef, head[p]) /\ Apply(MainRef, head[p])
  <2>1. /\ runs[p] \in 1..MaxRuns /\ Preflight(p) \in Branch /\ Preflight(p) # MainRef
        /\ Preflight(p)' = Preflight(p) /\ outcome[p] = NoOutcome /\ local[p] \in Commit
        /\ mode[p] = "Publish" /\ ci[local[p]][Preflight(p)] = "success"
    BY <1>1, NameFacts DEF RunOK, Begun, Seen, Preflight, Publishing, Watched
  <2>2. /\ GithubTypes' /\ Grows /\ MainRef \in Branch
        /\ \A n \in Branch \ {MainRef} : Quiet(n) /\ branch'[n] = branch[n]
    BY <1>1, <1>3, ApplyKeeps, TypesAreGithubs DEF Branch
  <2>3. CASE "lost" \in Faults /\ Catch(p, [flags[p] EXCEPT !.applied = head[p]])
    <3>1. [flags[p] EXCEPT !.applied = head[p]] \in Flag
      BY <1>1 DEF Types, Flag
    <3> QED
      BY <1>1, <2>2, <2>3, <3>1, CatchKeeps
  <2>4. CASE /\ flags' = [flags EXCEPT ![p].main = TRUE, ![p].applied = head[p]]
             /\ Goto(p, "confirm")
             /\ UNCHANGED <<mode, local, baseline, commits, polls, outcome>>
    <3>1. pc' = [pc EXCEPT ![p] = "confirm"] /\ pc'[p] = "confirm"
      BY <1>1, <2>4 DEF Goto, Types
    <3>2. flags' \in [Publishers -> Flag] /\ flags'[p].main = TRUE
          /\ flags'[p].preflight = flags[p].preflight
          /\ flags'[p].deleted = flags[p].deleted
      BY <1>1, <2>4 DEF Types, Flag
    <3>3. Types'
      BY <1>1, <2>2, <2>4, <3>1, <3>2 DEF Types, TypeOK, GithubTypes, Labels, Publishing
    <3>4. \A q \in Publishers \ {p} : Stays(q) /\ \A k \in 1..MaxRuns : Quiet(<<q, k>>)
      BY <1>1, <2>1, <2>2, <2>4, <3>1, OthersStay DEF Types, TypeOK
    <3>5. Fresh(p)'
      BY <1>1, <2>1, <2>2, <3>1, FreshStays DEF RunOK, Unpushed
    <3>6. Begun(p)'
      BY <1>1, <2>1, <2>4, <3>1 DEF Begun, NoOutcome
    <3>7. Seen(p)'
      BY <2>1, <2>2, <2>4, <3>1 DEF Seen, Watched, Retested, Grows
    <3>8. Audited(p)'
      BY <1>1, <2>4, <3>1 DEF RunOK, Audited, Publishing
    <3>9. Published(p)'
      BY <2>1, <2>4 DEF Published, NoOutcome
    <3>10. "lost" \notin Faults => FlagsRight(p)'
      BY <1>1, <2>1, <2>2, <2>4, <3>1, <3>2 DEF RunOK, FlagsRight, NoOutcome, Unpushed
    <3> QED
      BY <2>2, <3>3, <3>4, <3>5, <3>6, <3>7, <3>8, <3>9, <3>10 DEF StepOK, RunOK
  <2> QED
    BY <1>1, <1>2, <1>3, <2>3, <2>4 DEF PushMain
<1> QED
  BY <1>2, <1>3 DEF PushMain

\* Only the catch block and Start touch what a failed run says.
LEMMA DeleteKeeps == ASSUME IInv, NEW p \in Publishers, Delete(p) PROVE StepOK(p)
<1>1. /\ Types /\ RunOK(p) /\ pc[p] = "delete" /\ origin' \in [Publishers -> Commit]
      /\ UNCHANGED <<ci, enforced, head, origin, moves, runs>>
  BY DEF IInv, Types, TypeOK, Delete, clone
<1>2. /\ runs[p] \in 1..MaxRuns /\ Preflight(p) \in Branch /\ Preflight(p) # MainRef
      /\ Preflight(p)' = Preflight(p) /\ outcome[p] = NoOutcome /\ local[p] \in Commit
      /\ mode[p] = "Publish" /\ commits[p] \subseteq Verified
      /\ ci[local[p]][Preflight(p)] = "success" /\ ci[local[p]][MainRef] = "success"
  BY <1>1, NameFacts DEF RunOK, Begun, Seen, Preflight, Publishing, Watched, Retested
<1>3. CASE Throw(p) /\ UNCHANGED branch
  BY <1>1, <1>3, ThrowKeeps DEF github
<1>4. CASE /\ branch' = [branch EXCEPT ![Preflight(p)] = None]
           /\ flags' = [flags EXCEPT ![p].deleted = TRUE]
           /\ Goto(p, "final")
           /\ UNCHANGED <<mode, local, baseline, commits, polls, outcome>>
  <2>1. /\ GithubTypes' /\ Grows /\ (\A n \in Branch : Quiet(n))
        /\ branch'[Preflight(p)] = None
    <3>1. /\ branch \in [Branch -> Commit \cup {None}] /\ Main \in Commit
          /\ MainRef \in Branch
      BY <1>1 DEF Types, TypeOK, Branch
    <3>2. Main' = Main
      BY <1>2, <1>4, <3>1 DEF Main
    <3> QED
      BY <1>1, <1>2, <1>4, <3>1, <3>2, PastFacts
         DEF Types, TypeOK, GithubTypes, Grows, Quiet
  <2>2. pc' = [pc EXCEPT ![p] = "final"] /\ pc'[p] = "final"
    BY <1>1, <1>4 DEF Goto, Types
  <2>3. flags' \in [Publishers -> Flag] /\ flags'[p].main = flags[p].main
        /\ flags'[p].applied = flags[p].applied
    BY <1>1, <1>4 DEF Types, Flag
  <2>4. Types'
    BY <1>1, <1>4, <2>1, <2>2, <2>3 DEF Types, TypeOK, GithubTypes, Labels, Publishing
  <2>5. \A q \in Publishers \ {p} : Stays(q) /\ \A k \in 1..MaxRuns : Quiet(<<q, k>>)
    BY <1>1, <1>2, <1>4, <2>1, <2>2, OthersStay DEF Types, TypeOK
  <2>6. Fresh(p)'
    BY <1>1, <1>2, <2>1, <2>2, FreshStays DEF RunOK, Unpushed
  <2>7. Begun(p)'
    BY <1>1, <1>2, <1>4, <2>2 DEF Begun, NoOutcome
  <2>8. Seen(p)'
    BY <1>1, <1>2, <1>4, <2>1, <2>2 DEF Seen
  <2>9. Audited(p)'
    BY <1>1, <1>4, <2>2 DEF RunOK, Audited, Publishing
  <2>10. Published(p)'
    BY <1>2, <1>4 DEF Published, NoOutcome
  <2>11. "lost" \notin Faults => FlagsRight(p)'
    BY <1>1, <1>2, <1>4, <2>1, <2>2, <2>3 DEF RunOK, FlagsRight, NoOutcome, Unpushed
  <2> QED
    BY <2>1, <2>4, <2>5, <2>6, <2>7, <2>8, <2>9, <2>10, <2>11 DEF StepOK, RunOK
<1> QED
  BY <1>3, <1>4 DEF Delete

LEMMA NetErrorKeeps == ASSUME IInv, NEW p \in Publishers, NetError(p) PROVE StepOK(p)
<1>1. /\ pc[p] # "ended" /\ Throw(p) /\ origin' \in [Publishers -> Commit]
      /\ UNCHANGED <<github, head, moves, runs>>
  BY DEF IInv, Types, TypeOK, NetError, clone
<1> QED
  BY <1>1, ThrowKeeps

\* A run that is stopped says nothing.
LEMMA InterruptKeeps == ASSUME IInv, NEW p \in Publishers, Interrupt(p) PROVE StepOK(p)
<1>1. /\ Types /\ RunOK(p) /\ pc[p] # "ended" /\ pc' = [pc EXCEPT ![p] = "ended"]
      /\ UNCHANGED <<github, head, origin, moves, runs>>
      /\ UNCHANGED <<mode, local, baseline, commits, polls, flags, outcome>>
  BY DEF IInv, Interrupt, Goto, clone, script
<1>2. GithubTypes' /\ Grows /\ (\A n \in Branch : Quiet(n)) /\ branch' = branch
  BY <1>1, GithubStays, TypesAreGithubs DEF github
<1>3. Types'
  BY <1>1, <1>2 DEF Types, TypeOK, GithubTypes, Labels
<1>4. /\ pc'[p] = "ended" /\ runs[p] \in 1..MaxRuns /\ outcome'[p] = NoOutcome
      /\ Preflight(p)' = Preflight(p)
  BY <1>1 DEF Types, RunOK, Begun, Preflight
<1>5. \A q \in Publishers \ {p} : Stays(q) /\ \A k \in 1..MaxRuns : Quiet(<<q, k>>)
  BY <1>1, <1>2, <1>4, OthersStay DEF Types
<1>6. Fresh(p)'
  BY <1>1, <1>2, <1>4, FreshStays DEF RunOK, Unpushed
<1>7. Begun(p)' /\ Seen(p)' /\ Audited(p)' /\ Published(p)'
  BY <1>4 DEF Begun, Seen, Audited, Published, NoOutcome, Publishing, Watched, Retested
<1>8. "lost" \notin Faults => FlagsRight(p)'
  BY <1>1, <1>4 DEF RunOK, FlagsRight, NoOutcome, Unpushed
<1> QED
  BY <1>2, <1>3, <1>5, <1>6, <1>7, <1>8 DEF StepOK, RunOK

-----------------------------------------------------------------------------
(* What is no step of a run *)

\* A developer's move counts, and leaves the rest of the run alone.
LEMMA MoveKeeps ==
    ASSUME IInv, NEW p \in Publishers, NEW c \in Commit, Move(p, c) PROVE IInv'
<1>1. /\ Types /\ moves' = moves + 1 /\ moves \in Nat /\ head' = [head EXCEPT ![p] = c]
      /\ UNCHANGED <<github, origin, runs, pc>>
      /\ UNCHANGED <<mode, local, baseline, commits, polls, flags, outcome>>
  BY DEF IInv, Types, Move, script
<1>2. GithubTypes' /\ Grows /\ (\A n \in Branch : Quiet(n))
      /\ branch' = branch /\ ci' = ci
  BY <1>1, GithubStays, TypesAreGithubs DEF github
<1>3. Types'
  BY <1>1, <1>2 DEF Types, TypeOK, GithubTypes
<1>4. ASSUME NEW q \in Publishers PROVE RunOK(q)'
  <2>1. CASE q # p
    <3>1. Stays(q)
      BY <1>1, <2>1 DEF Stays, Types, TypeOK
    <3> QED
      BY <1>1, <1>2, <3>1, OwnNames, OthersKeep DEF IInv
  <2>2. CASE q = p
    <3>1. RunOK(p)
      BY DEF IInv
    <3>2. Begun(p)' /\ Fresh(p)' /\ Seen(p)'
      BY <1>1, <1>2, <3>1 DEF RunOK, Begun, Fresh, Seen, Preflight
    <3>3. Audited(p)'
      BY <1>1, <3>1 DEF RunOK, Audited
    <3>4. Published(p)'
      BY <1>1, <1>2, <3>1, OwnNames, PublishedStays DEF RunOK
    <3>5. "lost" \notin Faults => FlagsRight(p)'
      BY <1>1, <1>2, <3>1 DEF RunOK, FlagsRight, Preflight
    <3> QED
      BY <2>2, <3>2, <3>3, <3>4, <3>5 DEF RunOK
  <2> QED
    BY <2>1, <2>2
<1> QED
  BY <1>3, <1>4 DEF IInv

\* GitHub by itself ends CI runs; people remove branches and the ruleset.
LEMMA GithubKeeps ==
    ASSUME IInv, UNCHANGED <<clone, runs, pc, script>>,
           GithubTypes', Grows, \A n \in Name : Quiet(n)
    PROVE  IInv'
<1>1. /\ Types /\ UNCHANGED <<head, origin, moves, runs, pc>>
      /\ UNCHANGED <<mode, local, baseline, commits, polls, flags, outcome>>
  BY DEF IInv, clone, script
<1>2. Types'
  BY <1>1 DEF Types, TypeOK, GithubTypes
<1>3. ASSUME NEW q \in Publishers PROVE RunOK(q)'
  <2>1. Stays(q) /\ moves' \in Nat
    BY <1>1 DEF Stays, Types
  <2> QED
    BY <1>1, <2>1, OwnNames, OthersKeep DEF IInv
<1> QED
  BY <1>2, <1>3 DEF IInv

LEMMA EnvironmentKeeps ==
    ASSUME IInv, Builds \/ DropRuleset \/ \E n \in Name : RemoveStale(n)
    PROVE  IInv'
<1>1. /\ GithubTypes /\ moves \in Nat
      /\ MainRef \in Branch /\ Name \subseteq Branch \ {MainRef}
  BY TypesAreGithubs, OwnNames, BoundAssumption DEF IInv, Name, Branch
<1>2. CASE DropRuleset
  <2>1. branch' = branch /\ ci' = ci /\ moves' = moves
    BY <1>2 DEF DropRuleset, clone
  <2>2. GithubTypes' /\ Grows /\ \A n \in Name : Quiet(n)
    BY <1>1, <2>1, PastFacts DEF GithubTypes, Grows, Quiet, Main
  <2> QED
    BY <1>2, <2>2, GithubKeeps DEF DropRuleset
<1>3. CASE \E n \in Name : RemoveStale(n)
  <2>1. PICK n \in Name : RemoveStale(n)
    BY <1>3
  <2>2. branch' = [branch EXCEPT ![n] = None] /\ ci' = ci /\ moves' = moves
    BY <2>1 DEF RemoveStale, clone
  <2>3. Main' = Main
    BY <1>1, <2>2 DEF Main, GithubTypes
  <2>4. GithubTypes' /\ Grows /\ \A m \in Name : Quiet(m)
    BY <1>1, <2>2, <2>3, PastFacts DEF GithubTypes, Grows, Quiet
  <2> QED
    BY <2>1, <2>4, GithubKeeps DEF RemoveStale
<1>4. CASE Builds
  <2>1. PICK c \in Commit, b \in Branch : Build(c, b)
    BY <1>4 DEF Builds
  <2>2. /\ branch' = branch /\ moves' = moves /\ ci[c][b] # "success"
        /\ \E r \in {"running", "success", "failure"} : ci' = [ci EXCEPT ![c][b] = r]
    BY <2>1 DEF Build, clone
  <2>3. Main' = Main
    BY <2>2 DEF Main
  <2>4. ci' \in [Commit -> [Branch -> {"none", "due", "running", "success", "failure"}]]
    BY <1>1, <2>2 DEF GithubTypes
  <2>5. \A d \in Commit, n \in Branch : ci[d][n] = "success" => ci'[d][n] = "success"
    BY <1>1, <2>2 DEF GithubTypes
  <2>6. GithubTypes' /\ Grows /\ \A n \in Name : Quiet(n)
    BY <1>1, <2>2, <2>3, <2>4, <2>5, PastFacts DEF GithubTypes, Grows, Quiet
  <2> QED
    BY <2>1, <2>6, GithubKeeps DEF Build
<1> QED
  BY <1>2, <1>3, <1>4

LEMMA InitHolds == Init => IInv
<1> SUFFICES ASSUME Init PROVE IInv
  OBVIOUS
<1>1. Types
  <2>1. NoFlags \in Flag /\ NoOutcome \in Outcome
    BY DEF NoFlags, NoOutcome, Flag, Outcome
  <2>2. Attempts \in Nat \ {0} /\ MaxRuns \in Nat
    BY BoundAssumption
  <2>3. polls \in [Publishers -> 0..(Attempts - 1)]
    BY <2>2, PollBounds DEF Init
  <2>4. runs \in [Publishers -> 0..MaxRuns] /\ moves \in Nat
    BY <2>2 DEF Init
  <2>5. /\ branch \in [Branch -> Commit \cup {None}] /\ Main \in Commit
    BY CommitAssumption DEF Init, Main, Branch
  <2>6. ci \in [Commit -> [Branch -> {"none", "due", "running", "success", "failure"}]]
    BY DEF Init
  <2> QED
    BY <2>1, <2>3, <2>4, <2>5, <2>6, CommitAssumption DEF Init, Types, TypeOK, Labels
<1>2. ASSUME NEW p \in Publishers PROVE RunOK(p)
  <2>1. pc[p] = "ended" /\ outcome[p] = NoOutcome /\ flags[p] = NoFlags
    BY DEF Init
  <2>2. \A k \in 1..MaxRuns : branch[<<p, k>>] = None
    BY OwnNames DEF Init
  <2> QED
    BY <2>1, <2>2 DEF RunOK, Begun, Fresh, Seen, Audited, Published, FlagsRight,
         NoOutcome, NoFlags, Publishing, Watched, Retested, Unpushed
<1> QED
  BY <1>1, <1>2 DEF IInv

LEMMA IInvStep == IInv /\ [Next]_vars => IInv'
<1> SUFFICES ASSUME IInv, [Next]_vars PROVE IInv'
  OBVIOUS
<1>1. ASSUME NEW p \in Publishers, Start(p) \/ Step(p) \/ NetError(p) \/ Interrupt(p)
      PROVE  IInv'
  <2>1. CASE Start(p) \/ NetError(p) \/ Interrupt(p)
    BY <2>1, StartKeeps, NetErrorKeeps, InterruptKeeps, StepKeeps
  <2>2. CASE Step(p)
    BY <2>2, LookKeeps, FetchKeeps, AuditKeeps, CheckStaleKeeps, PushPreflightKeeps,
       FindKeeps, PushMainKeeps, DeleteKeeps, FinalKeeps, StepKeeps DEF Step
  <2> QED
    BY <1>1, <2>1, <2>2
<1>2. CASE \E p \in Publishers, c \in Commit : Move(p, c)
  BY <1>2, MoveKeeps
<1>3. CASE Builds \/ DropRuleset \/ \E n \in Name : RemoveStale(n)
  BY <1>3, EnvironmentKeeps
<1>4. CASE UNCHANGED vars
  <2>1. UNCHANGED <<clone, runs, pc, script, github>> /\ moves' = moves
    BY <1>4 DEF vars, clone
  <2>2. GithubTypes' /\ Grows /\ \A n \in Name : Quiet(n)
    BY <2>1, GithubStays, TypesAreGithubs DEF IInv, Branch
  <2> QED
    BY <2>1, <2>2, GithubKeeps
<1> QED
  BY <1>1, <1>2, <1>3, <1>4 DEF Next

-----------------------------------------------------------------------------
(* Theorems *)

LEMMA Invariance == Spec => []IInv
  BY InitHolds, IInvStep, PTL DEF Spec

\* The variables of GitHub, the clones and the script keep their types; a run polls
\* at most Attempts times for a CI run (Get-WorkflowRunForCommit).
THEOREM TypesStay == Spec => []TypeOK
<1>1. IInv => TypeOK
  BY DEF IInv, Types
<1> QED
  BY <1>1, Invariance, PTL

\* A run that printed SAFE-PUBLISH: PASS has published what it audited, and this is
\* not undone, however many clones publish and however often a HEAD moves.
THEOREM PassStaysPublished == Spec => []PassMeansPublished
<1>1. IInv => PassMeansPublished
  BY DEF IInv, RunOK, Published, PassMeansPublished
<1> QED
  BY <1>1, Invariance, PTL

\* Only the last push moves main.
LEMMA MainStays ==
    ASSUME IInv, Next, \A p \in Publishers : ~PushMain(p)
    PROVE  Main' = Main
<1>1. /\ GithubTypes /\ moves \in Nat
      /\ MainRef \in Branch /\ Name \subseteq Branch \ {MainRef}
  BY TypesAreGithubs, BoundAssumption DEF IInv, Name, Branch
<1>2. CASE branch' = branch
  BY <1>2 DEF Main
<1>3. CASE \E n \in Name : branch' = [branch EXCEPT ![n] = None]
  BY <1>1, <1>3 DEF Main, GithubTypes
<1>4. ASSUME NEW p \in Publishers, PushPreflight(p) PROVE Main' = Main
  <2>1. pc[p] = "preflight" /\ UNCHANGED moves
    BY <1>4 DEF PushPreflight, clone
  <2>2. Preflight(p) \in Branch /\ Preflight(p) # MainRef /\ head[p] \in Commit
    BY <2>1, NameFacts DEF IInv, RunOK, Begun, Types, TypeOK
  <2>3. CASE Admits(Preflight(p), head[p]) /\ Apply(Preflight(p), head[p])
    BY <1>1, <2>1, <2>2, <2>3, ApplyKeeps DEF Main
  <2>4. CASE UNCHANGED github
    BY <2>4 DEF github, Main
  <2> QED
    BY <1>4, <2>3, <2>4 DEF PushPreflight
<1>5. ASSUME NEW p \in Publishers, Delete(p) PROVE Main' = Main
  <2>1. Preflight(p) \in Name
    BY <1>5, NameFacts DEF Delete, IInv, RunOK, Begun
  <2> QED
    BY <1>2, <1>3, <1>5, <2>1 DEF Delete
<1>6. ASSUME NEW p \in Publishers, Start(p) \/ Step(p) \/ NetError(p) \/ Interrupt(p),
             ~PushPreflight(p), ~Delete(p)
      PROVE  branch' = branch
  BY <1>6 DEF Start, Step, NetError, Interrupt, AssertRuleset, Fetch, Audit, CheckStale,
     Find, Watch, Reread, Confirm, VerifySignatures, Final, github
<1>7. CASE \E p \in Publishers : Start(p) \/ Step(p) \/ NetError(p) \/ Interrupt(p)
  BY <1>2, <1>4, <1>5, <1>6, <1>7
<1>8. CASE (\E p \in Publishers, c \in Commit : Move(p, c)) \/ Builds \/ DropRuleset
  BY <1>2, <1>8 DEF Move, Builds, Build, DropRuleset, github
<1>9. CASE \E n \in Name : RemoveStale(n)
  BY <1>3, <1>9 DEF RemoveStale
<1> QED
  BY <1>7, <1>8, <1>9 DEF Next

\* What the last push puts on main was tested before, if the ruleset is on or HEAD has
\* not moved.
THEOREM MainAdvancesTestedAlways == Spec => MainAdvancesTested
<1>1. ASSUME IInv, [Next]_vars, Main' # Main
      PROVE  /\ Main \in Past[Main']
             /\ \E p \in Publishers :
                   /\ pc[p] = "push" /\ mode[p] = "Publish"
                   /\ enforced \/ head[p] = local[p] => Tested(Main')
  <2>1. Next
    BY <1>1 DEF vars, github, Main
  <2>2. PICK p \in Publishers : PushMain(p)
    BY <1>1, <2>1, MainStays
  <2>3. CASE UNCHANGED github
    BY <1>1, <2>3 DEF github, Main
  <2>4. CASE Admits(MainRef, head[p]) /\ Apply(MainRef, head[p])
    <3>1. GithubTypes /\ moves \in Nat /\ moves' = moves /\ MainRef \in Branch
          /\ head[p] \in Commit
      BY <1>1, <2>2, TypesAreGithubs DEF IInv, Types, TypeOK, PushMain, clone, Branch
    <3>2. Grows /\ Main' = head[p]
      BY <2>4, <3>1, ApplyKeeps DEF Main
    <3>3. /\ pc[p] = "push" /\ mode[p] = "Publish" /\ Preflight(p) \in Branch
          /\ ci[local[p]][Preflight(p)] = "success"
      BY <1>1, <2>2, NameFacts
         DEF PushMain, IInv, RunOK, Begun, Seen, Publishing, Watched
    <3>4. head[p] = local[p] => Tested(head[p])
      BY <3>3 DEF Tested
    <3>5. enforced => Tested(head[p])
      BY <2>4 DEF Admits
    <3> QED
      BY <3>2, <3>3, <3>4, <3>5 DEF Grows
  <2> QED
    BY <2>2, <2>3, <2>4 DEF PushMain
<1>2. IInv /\ [Next]_vars =>
        [Main' # Main =>
            /\ Main \in Past[Main']
            /\ \E p \in Publishers :
                  /\ pc[p] = "push" /\ mode[p] = "Publish"
                  /\ enforced \/ head[p] = local[p] => Tested(Main')]_vars
  BY <1>1
<1> QED
  BY <1>2, Invariance, PTL DEF Spec, MainAdvancesTested

\* When every push is answered, the catch block announces the branch it leaves.
THEOREM LeftBranchStaysAnnounced ==
    ASSUME "lost" \notin Faults PROVE Spec => []LeftBranchAnnounced
<1>1. IInv => LeftBranchAnnounced
  BY DEF IInv, RunOK, FlagsRight, LeftBranchAnnounced
<1> QED
  BY <1>1, Invariance, PTL

\* When every push is answered, a run that says that it left main alone did so.
THEOREM UntouchedStaysUntouched ==
    ASSUME "lost" \notin Faults PROVE Spec => []UntouchedMeansUntouched
<1>1. IInv => UntouchedMeansUntouched
  BY DEF IInv, RunOK, FlagsRight, UntouchedMeansUntouched
<1> QED
  BY <1>1, Invariance, PTL

=============================================================================
