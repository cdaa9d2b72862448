----------------------------- MODULE SafePublish -----------------------------
(***************************************************************************)
(* scripts/publish-protected-main.ps1: runs of the publisher in several    *)
(* clones of the repository, against one GitHub repository whose branches, *)
(* workflow runs and ruleset change meanwhile.                             *)
(*                                                                         *)
(* A run audits (ruleset, clone, HEAD, remote main, stale branches), then  *)
(* pushes HEAD to a ci/publish-* branch, waits for the CI run of the       *)
(* commit it audited, reads remote main once more, pushes HEAD to main,    *)
(* waits for the CI run on main, verifies the signatures at GitHub,        *)
(* deletes the branch and compares everything once more.                   *)
(*                                                                         *)
(* Commits are known by what they contain: Past[c] is c and its ancestors. *)
(* The worktree and the gh account are what the script wants them to be.   *)
(***************************************************************************)
EXTENDS Naturals, FiniteSets

CONSTANTS
    Commit,         \* commits, in any clone
    Past,           \* the commits reachable from each one, itself included
    Root,           \* where every branch starts
    Verified,       \* commits whose signature verifies, locally and at GitHub
    Publishers,     \* clones in which the script is run
    MaxRuns,        \* bound on the runs per clone (for TLC)
    MaxMoves,       \* bound on how often a developer moves a HEAD (for TLC)
    MaxCommits,     \* the script's limit on the commits it publishes
    Attempts,       \* polls for a CI run (60 in the script)
    MainRef,        \* refs/heads/main
    None,           \* no commit
    Faults          \* what may go wrong: see FaultsAssumption

\* "net": a command fails; "lost": a push is applied and reported as failed;
\* "interrupt": the script is stopped; "ruleset": it is switched off during a run.
ASSUME FaultsAssumption == Faults \subseteq {"net", "lost", "interrupt", "ruleset"}
ASSUME CommitAssumption ==
    /\ Root \in Commit /\ None \notin Commit /\ Verified \subseteq Commit
    /\ Past \in [Commit -> SUBSET Commit]
    /\ \A c \in Commit : c \in Past[c] /\ \A d \in Past[c] : Past[d] \subseteq Past[c]
ASSUME BoundAssumption ==
    /\ MainRef \notin Publishers \X (1..MaxRuns)
    /\ MaxRuns \in Nat /\ MaxMoves \in Nat
    /\ MaxCommits \in Nat \ {0} /\ Attempts \in Nat \ {0}

\* ci/publish-<stamp>-<head>: the stamp tells the runs of all clones apart.
Name   == Publishers \X (1..MaxRuns)
Branch == Name \cup {MainRef}

VARIABLES
    branch,         \* GitHub: the commit of each branch
    ci,             \* GitHub: the CI run of each commit on each branch
    enforced,       \* GitHub: the ruleset is active
    head,           \* clone: HEAD, on branch main
    origin,         \* clone: origin/main
    moves,          \* how often a developer moved a HEAD
    runs,           \* how often the script was started in each clone
    pc,             \* the step each run is at
    mode,           \* Audit or Publish
    local,          \* $LocalHead
    baseline,       \* $BaselineRemoteMain
    commits,        \* $commitsToPublish
    polls,          \* attempts made by Get-WorkflowRunForCommit
    flags,          \* the three flags, and what the run really put on main
    outcome         \* what the script printed last

github == <<branch, ci, enforced>>
clone  == <<head, origin, moves>>
script == <<mode, local, baseline, commits, polls, flags, outcome>>
vars   == <<github, clone, runs, pc, script>>

Main      == branch[MainRef]
Preflight(p) == <<p, runs[p]>>
\* $PreflightPushed, $MainPushed, $PreflightDeleted; applied: what GitHub put on main.
NoFlags   == [preflight |-> FALSE, main |-> FALSE, deleted |-> FALSE, applied |-> None]
NoOutcome == [status |-> "none", mayExist |-> FALSE, untouched |-> FALSE]

-----------------------------------------------------------------------------
(* GitHub *)

Init ==
    /\ branch = [b \in Branch |-> IF b = MainRef THEN Root ELSE None]
    /\ ci = [c \in Commit |-> [b \in Branch |-> "none"]]
    /\ enforced = TRUE
    /\ head \in [Publishers -> Commit] /\ origin = [p \in Publishers |-> Root]
    /\ moves = 0
    /\ runs = [p \in Publishers |-> 0]
    /\ pc = [p \in Publishers |-> "ended"]
    /\ mode = [p \in Publishers |-> "Audit"]
    /\ local = [p \in Publishers |-> None]
    /\ baseline = [p \in Publishers |-> None]
    /\ commits = [p \in Publishers |-> {}]
    /\ polls = [p \in Publishers |-> 0]
    /\ flags = [p \in Publishers |-> NoFlags]
    /\ outcome = [p \in Publishers |-> NoOutcome]

\* The job results GitHub has for a commit, on whatever branch it was built.
Tested(c) == \E b \in Branch : ci[c][b] = "success"

\* git push refuses anything but a fast-forward; on main the ruleset wants signed
\* and tested commits.
Admits(b, c) ==
    /\ branch[b] = None \/ branch[b] \in Past[c]
    /\ b = MainRef /\ enforced => Past[c] \ Past[Main] \subseteq Verified /\ Tested(c)

\* A push that changes a branch starts a CI run of that commit.
Apply(b, c) ==
    /\ branch' = [branch EXCEPT ![b] = c]
    /\ ci' = IF branch[b] = c \/ ci[c][b] # "none" THEN ci
             ELSE [ci EXCEPT ![c][b] = "due"]
    /\ UNCHANGED enforced

\* A CI run becomes visible, and ends.
Build(c, b) ==
    /\ \/ ci[c][b] = "due" /\ ci' = [ci EXCEPT ![c][b] = "running"]
       \/ ci[c][b] = "running"
          /\ \E r \in {"success", "failure"} : ci' = [ci EXCEPT ![c][b] = r]
    /\ UNCHANGED <<branch, enforced, clone, runs, pc, script>>

\* Somebody removes a ci/publish-* branch, as the script asks for.
RemoveStale(n) ==
    /\ branch[n] # None
    /\ branch' = [branch EXCEPT ![n] = None]
    /\ UNCHANGED <<ci, enforced, clone, runs, pc, script>>

\* An administrator switches the ruleset off.
DropRuleset ==
    /\ "ruleset" \in Faults /\ enforced
    /\ enforced' = FALSE
    /\ UNCHANGED <<branch, ci, clone, runs, pc, script>>

\* A developer commits on top of HEAD, or resets it.
Move(p, c) ==
    /\ moves < MaxMoves
    /\ moves' = moves + 1
    /\ head' = [head EXCEPT ![p] = c]
    /\ UNCHANGED <<github, origin, runs, pc, script>>

-----------------------------------------------------------------------------
(* The script *)

\* The next step of the run in p; everything of the script not named stays.
Goto(p, l) == pc' = [pc EXCEPT ![p] = l]

\* The catch block: what it says depends on the flags f.
Catch(p, f) ==
    /\ Goto(p, "ended")
    /\ flags' = [flags EXCEPT ![p] = f]
    /\ outcome' = [outcome EXCEPT ![p] = [status    |-> "FAILED",
                                         mayExist  |-> f.preflight /\ ~f.deleted,
                                         untouched |-> ~f.main]]
    /\ UNCHANGED <<mode, local, baseline, commits, polls>>

Throw(p) == Catch(p, flags[p])

Pass(p) ==
    /\ Goto(p, "ended")
    /\ outcome' = [outcome EXCEPT ![p] = [NoOutcome EXCEPT !.status = "PASS"]]
    /\ UNCHANGED <<mode, local, baseline, commits, polls, flags>>

Start(p) ==
    /\ pc[p] = "ended" /\ runs[p] < MaxRuns
    /\ runs' = [runs EXCEPT ![p] = @ + 1]
    /\ \E m \in {"Audit", "Publish"} : mode' = [mode EXCEPT ![p] = m]
    /\ local' = [local EXCEPT ![p] = None]
    /\ baseline' = [baseline EXCEPT ![p] = None]
    /\ commits' = [commits EXCEPT ![p] = {}]
    /\ polls' = [polls EXCEPT ![p] = 0]
    /\ flags' = [flags EXCEPT ![p] = NoFlags]
    /\ outcome' = [outcome EXCEPT ![p] = NoOutcome]
    /\ Goto(p, "audit")
    /\ UNCHANGED <<github, clone>>

\* Assert-WorkflowAndRuleset.
AssertRuleset(p) ==
    /\ pc[p] = "audit"
    /\ \/ enforced /\ Goto(p, "fetch") /\ UNCHANGED script
       \/ ~enforced /\ Throw(p)
    /\ UNCHANGED <<github, clone, runs>>

\* git fetch, and the HEAD the rest of the run is about.
Fetch(p) ==
    /\ pc[p] = "fetch"
    /\ origin' = [origin EXCEPT ![p] = Main]
    /\ local' = [local EXCEPT ![p] = head[p]]
    /\ Goto(p, "baseline")
    /\ UNCHANGED <<github, head, moves, runs,
                   mode, baseline, commits, polls, flags, outcome>>

Ahead(p) == Past[head[p]] \ Past[origin[p]]

\* What the script asks of HEAD and origin/main; git looks HEAD up again.
FitToPublish(p) ==
    /\ origin[p] = Main
    /\ origin[p] \in Past[head[p]]
    /\ Cardinality(Ahead(p)) <= MaxCommits
    /\ {head[p]} \cup Ahead(p) \subseteq Verified

\* Remote main through the API; fast-forward, ahead, limit and signatures.
Audit(p) ==
    /\ pc[p] = "baseline"
    /\ \/ /\ FitToPublish(p)
          /\ baseline' = [baseline EXCEPT ![p] = Main]
          /\ commits' = [commits EXCEPT ![p] = Ahead(p)]
          /\ Goto(p, "stale")
          /\ UNCHANGED <<mode, local, polls, flags, outcome>>
       \/ ~FitToPublish(p) /\ Throw(p)
    /\ UNCHANGED <<github, clone, runs>>

Stale == \E n \in Name : branch[n] # None

\* git ls-remote of ci/publish-*; an audit ends here.
CheckStale(p) ==
    /\ pc[p] = "stale"
    /\ \/ Stale /\ Throw(p)
       \/ ~Stale /\ mode[p] = "Audit" /\ Pass(p)
       \/ ~Stale /\ mode[p] = "Publish" /\ commits[p] = {} /\ Throw(p)
       \/ /\ ~Stale /\ mode[p] = "Publish" /\ commits[p] # {}
          /\ Goto(p, "preflight") /\ UNCHANGED script
    /\ UNCHANGED <<github, clone, runs>>

\* Mutant of PushPreflight: the flag is set once the CI run has been seen.
PushPreflightLate(p) ==
    /\ pc[p] = "preflight"
    /\ \/ /\ Admits(Preflight(p), head[p]) /\ Apply(Preflight(p), head[p])
          /\ Goto(p, "find")
          /\ UNCHANGED script
       \/ ~Admits(Preflight(p), head[p]) /\ Throw(p) /\ UNCHANGED github
    /\ UNCHANGED <<clone, runs>>

\* git push origin HEAD:refs/heads/ci/publish-...
PushPreflight(p) ==
    /\ pc[p] = "preflight"
    /\ \/ /\ Admits(Preflight(p), head[p]) /\ Apply(Preflight(p), head[p])
          /\ \/ /\ flags' = [flags EXCEPT ![p].preflight = TRUE]
                /\ Goto(p, "find")
                /\ UNCHANGED <<mode, local, baseline, commits, polls, outcome>>
             \/ "lost" \in Faults /\ Throw(p)
       \/ ~Admits(Preflight(p), head[p]) /\ Throw(p) /\ UNCHANGED github
    /\ UNCHANGED <<clone, runs>>

\* Mutant of Find: it polls until there is a run.
FindForEver(p, at, on, next) ==
    /\ pc[p] = at
    /\ \/ ci[local[p]][on] \notin {"none", "due"} /\ Goto(p, next)
       \/ ci[local[p]][on] \in {"none", "due"} /\ UNCHANGED pc
    /\ UNCHANGED <<github, clone, runs, script>>

\* Mutant of Find: one poll too many.
FindOnceMore(p, at, on, next) ==
    /\ pc[p] = at
    /\ \/ ci[local[p]][on] \notin {"none", "due"} /\ Goto(p, next) /\ UNCHANGED polls
       \/ /\ ci[local[p]][on] \in {"none", "due"} /\ polls[p] < Attempts
          /\ polls' = [polls EXCEPT ![p] = @ + 1]
          /\ UNCHANGED pc
    /\ UNCHANGED <<github, clone, runs, mode, local, baseline, commits, flags, outcome>>

\* Get-WorkflowRunForCommit: the CI run of $LocalHead on a branch, if one shows up.
Find(p, at, on, next) ==
    /\ pc[p] = at
    /\ \/ /\ ci[local[p]][on] \notin {"none", "due"}
          /\ polls' = [polls EXCEPT ![p] = 0]
          /\ Goto(p, next)
          /\ UNCHANGED <<mode, local, baseline, commits, flags, outcome>>
       \/ /\ ci[local[p]][on] \in {"none", "due"}
          /\ polls[p] + 1 < Attempts
          /\ polls' = [polls EXCEPT ![p] = @ + 1]
          /\ UNCHANGED <<pc, mode, local, baseline, commits, flags, outcome>>
       \/ /\ ci[local[p]][on] \in {"none", "due"}
          /\ polls[p] + 1 >= Attempts
          /\ Throw(p)
    /\ UNCHANGED <<github, clone, runs>>

\* Mutant of Watch: any run that has ended will do.
WatchAny(p, at, on, next) ==
    /\ pc[p] = at /\ ci[local[p]][on] \in {"success", "failure"}
    /\ Goto(p, next)
    /\ UNCHANGED <<github, clone, runs, script>>

\* Watch-And-VerifyRun: waits until the run has ended; every job must have passed.
Watch(p, at, on, next) ==
    /\ pc[p] = at
    /\ \/ ci[local[p]][on] = "success" /\ Goto(p, next) /\ UNCHANGED script
       \/ ci[local[p]][on] = "failure" /\ Throw(p)
    /\ UNCHANGED <<github, clone, runs>>

\* Remote main is read once more after the preflight.
Reread(p) ==
    /\ pc[p] = "reread"
    /\ \/ Main = baseline[p] /\ Goto(p, "push") /\ UNCHANGED script
       \/ Main # baseline[p] /\ Throw(p)
    /\ UNCHANGED <<github, clone, runs>>

\* Mutant of PushMain: the flag is left for later, when main has been looked at.
PushMainLate(p) ==
    /\ pc[p] = "push"
    /\ \/ /\ Admits(MainRef, head[p]) /\ Apply(MainRef, head[p])
          /\ flags' = [flags EXCEPT ![p].applied = head[p]]
          /\ Goto(p, "confirm")
          /\ UNCHANGED <<mode, local, baseline, commits, polls, outcome>>
       \/ ~Admits(MainRef, head[p]) /\ Throw(p) /\ UNCHANGED github
    /\ UNCHANGED <<clone, runs>>

\* git push origin HEAD:refs/heads/main.
PushMain(p) ==
    /\ pc[p] = "push"
    /\ \/ /\ Admits(MainRef, head[p]) /\ Apply(MainRef, head[p])
          /\ \/ /\ flags' = [flags EXCEPT ![p].main = TRUE, ![p].applied = head[p]]
                /\ Goto(p, "confirm")
                /\ UNCHANGED <<mode, local, baseline, commits, polls, outcome>>
             \/ "lost" \in Faults /\ Catch(p, [flags[p] EXCEPT !.applied = head[p]])
       \/ ~Admits(MainRef, head[p]) /\ Throw(p) /\ UNCHANGED github
    /\ UNCHANGED <<clone, runs>>

\* Remote main must be the audited HEAD.
Confirm(p) ==
    /\ pc[p] = "confirm"
    /\ \/ Main = local[p] /\ Goto(p, "find main") /\ UNCHANGED script
       \/ Main # local[p] /\ Throw(p)
    /\ UNCHANGED <<github, clone, runs>>

\* Every commit that was pushed stays at GitHub, and so does what it is based on.
AtGitHub ==
    UNION {Past[c] : c \in
              {d \in Commit : \E b \in Branch : branch[b] = d \/ ci[d][b] # "none"}}

\* Verify-GitHubCommitSignatures.
VerifySignatures(p) ==
    /\ pc[p] = "signatures"
    /\ \/ /\ commits[p] \subseteq AtGitHub \cap Verified
          /\ Goto(p, "delete") /\ UNCHANGED script
       \/ ~(commits[p] \subseteq AtGitHub \cap Verified) /\ Throw(p)
    /\ UNCHANGED <<github, clone, runs>>

\* git push origin --delete, which fails when the branch is gone.
Delete(p) ==
    /\ pc[p] = "delete"
    /\ \/ /\ branch[Preflight(p)] # None
          /\ branch' = [branch EXCEPT ![Preflight(p)] = None]
          /\ flags' = [flags EXCEPT ![p].deleted = TRUE]
          /\ Goto(p, "final")
          /\ UNCHANGED <<mode, local, baseline, commits, polls, outcome>>
       \/ branch[Preflight(p)] = None /\ Throw(p) /\ UNCHANGED branch
    /\ UNCHANGED <<ci, enforced, clone, runs>>

\* The final fetch and comparison.
Final(p) ==
    /\ pc[p] = "final"
    /\ origin' = [origin EXCEPT ![p] = Main]
    /\ \/ Main = local[p] /\ head[p] = local[p] /\ Pass(p)
       \/ (Main # local[p] \/ head[p] # local[p]) /\ Throw(p)
    /\ UNCHANGED <<github, head, moves, runs>>

\* A git or gh command fails without any effect.
NetError(p) ==
    /\ "net" \in Faults
    /\ pc[p] # "ended"
    /\ Throw(p)
    /\ UNCHANGED <<github, clone, runs>>

\* The script is stopped where it is, and says nothing.
Interrupt(p) ==
    /\ "interrupt" \in Faults
    /\ pc[p] # "ended"
    /\ Goto(p, "ended")
    /\ UNCHANGED <<github, clone, runs, script>>

Step(p) ==
    \/ AssertRuleset(p) \/ Fetch(p) \/ Audit(p) \/ CheckStale(p)
    \/ PushPreflight(p)
    \/ Find(p, "find", Preflight(p), "watch")
    \/ Watch(p, "watch", Preflight(p), "reread")
    \/ Reread(p) \/ PushMain(p) \/ Confirm(p)
    \/ Find(p, "find main", MainRef, "watch main")
    \/ Watch(p, "watch main", MainRef, "signatures")
    \/ VerifySignatures(p) \/ Delete(p) \/ Final(p)

Builds == \E c \in Commit, b \in Branch : Build(c, b)

Next ==
    \/ \E p \in Publishers : Start(p) \/ Step(p) \/ NetError(p) \/ Interrupt(p)
    \/ \E p \in Publishers, c \in Commit : Move(p, c)
    \/ Builds \/ DropRuleset
    \/ \E n \in Name : RemoveStale(n)

Spec == Init /\ [][Next]_vars

\* The shell runs the script, and GitHub ends the builds it has started.
FairSpec ==
    /\ Spec
    /\ \A p \in Publishers : WF_vars(Step(p))
    /\ \A c \in Commit, b \in Branch : WF_vars(Build(c, b))

-----------------------------------------------------------------------------
(* Properties *)

\* Type correctness of GitHub, the clones and the script's variables.
TypeOK ==
    /\ branch \in [Branch -> Commit \cup {None}] /\ Main \in Commit
    /\ ci \in [Commit -> [Branch -> {"none", "due", "running", "success", "failure"}]]
    /\ head \in [Publishers -> Commit] /\ origin \in [Publishers -> Commit]
    /\ runs \in [Publishers -> 0..MaxRuns]
    /\ local \in [Publishers -> Commit \cup {None}]
    /\ baseline \in [Publishers -> Commit \cup {None}]
    /\ commits \in [Publishers -> SUBSET Commit]
    /\ polls \in [Publishers -> 0..(Attempts - 1)]

\* A run that reports SAFE-PUBLISH: PASS has published: main has the commit it
\* audited, CI passed on both branches, what it was to publish is signed, and the
\* branch is gone.  This holds when it ends, whatever other clones and developers do
\* meanwhile.  That main has all it was to publish takes a HEAD that does not move
\* away and back again: the commits are listed after $LocalHead is read.
PassMeansPublished ==
    \A p \in Publishers : outcome[p].status = "PASS" /\ mode[p] = "Publish" =>
        /\ local[p] \in Past[Main] /\ commits[p] \subseteq Verified
        /\ moves <= 1 => commits[p] \subseteq Past[Main]
        /\ ci[local[p]][MainRef] = "success"
        /\ ci[local[p]][Preflight(p)] = "success"
        /\ branch[Preflight(p)] = None

\* main only moves forward, only by a publishing run, and to a commit whose CI has
\* passed when the ruleset is still there or HEAD is still what was audited: either
\* of the two is enough.
MainAdvancesTested ==
    [][Main' # Main =>
          /\ Main \in Past[Main']
          /\ \E p \in Publishers :
                /\ pc[p] = "push" /\ mode[p] = "Publish"
                /\ enforced \/ head[p] = local[p] => Tested(Main')]_vars

\* A ci/publish-* branch that is left when its run has reported a failure was
\* announced by it, so that it is no surprise to the next run, which refuses to
\* work beside it (the catch block).
LeftBranchAnnounced ==
    \A p \in Publishers :
        outcome[p].status = "FAILED" /\ branch[Preflight(p)] # None
            => outcome[p].mayExist

\* publish-protected-main.ps1, catch block: "Remote main nebol tymto behom
\* aktualizovany" -- this run has not updated remote main.
UntouchedMeansUntouched ==
    \A p \in Publishers : outcome[p].untouched => flags[p].applied = None

\* publish-protected-main.ps1, header: the SHA pushed to main is the one whose
\* checks were awaited.
SameShaPushed == \A p \in Publishers : flags[p].applied \in {None, local[p]}

\* Every run ends, also when the CI run it waits for never shows up.
EveryRunEnds == \A p \in Publishers : pc[p] # "ended" ~> pc[p] = "ended"

=============================================================================
