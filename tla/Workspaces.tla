----------------------------- MODULE Workspaces -----------------------------
(* The workspace of one task on the host (workspaces.py) and the push of its       *)
(* candidates (git_transport.py): the ownership manifest beside the repository,    *)
(* the branch and the working tree, the commits the host makes, and the branch at  *)
(* GitHub.                                                                         *)
(*                                                                                 *)
(* Every operation holds the lock of the registry from its first look to its last  *)
(* write, but for the time a push spends on the network. What an operation writes  *)
(* is a step each: the agent may die after any of them, and a configured run may   *)
(* write to the working tree between any two. Commit 0 is the frozen base; the     *)
(* contents of a path are a number.                                                *)
EXTENDS Naturals, Sequences, FiniteSets

CONSTANTS
    Paths,            \* the paths of the repository
    ProhibitedPaths,  \* configuration.prohibited_paths
    Contents,         \* what a path may contain; 0 is what the base has
    Callers,          \* the jobs that may push
    MaxCandidateCommits,  \* bound: the commits of the host
    NoCommit

ASSUME WorkspaceAssumption ==
    /\ 0 \in Contents
    /\ NoCommit \notin Nat

VARIABLES
    manifest,   \* the ownership record: [state, candidate]
    branch,     \* the head of the task branch, or NoCommit
    worktree,   \* "ABSENT", "PARTIAL" or "READY"
    staged,      \* the staged tree
    files,      \* the working tree
    commits,    \* what the host committed: [parent, tree]
    op,         \* the operation that holds the lock
    push,       \* each caller's push
    running,    \* a configured run may write to the working tree
    recorded,   \* the commits the manifest has named as candidates
    published   \* the head of the branch at GitHub, or NoCommit

wsvars == <<manifest, branch, worktree, staged, files, commits, op, push, running,
            recorded, published>>

repository == <<branch, worktree, staged, files>>
elsewhere  == <<push, running, recorded, published>>

Trees    == [Paths -> Contents]
BaseTree == [p \in Paths |-> 0]

Tree(n)   == IF n = 0 THEN BaseTree ELSE commits[n].tree
Parent(n) == commits[n].parent

\* WorkspaceOwnership; the task, the configuration and the places in it are fixed.
Manifest(state, candidate) == [state |-> state, candidate |-> candidate]

-----------------------------------------------------------------------------
(* What an operation looks at *)

Nothing == [step |-> "NONE", expected |-> 0, paths |-> {}, old |-> NoCommit, new |-> 0]
LockIsFree == op.step = "NONE"
Release == op' = Nothing
Continue(step) == op' = [op EXCEPT !.step = step]

\* _active_ownership: there is a manifest of the task, and it is ACTIVE.
IsActive == manifest.state = "ACTIVE"

\* _repository_state: the working tree is there, and on the branch.
IsUsable == worktree = "READY" /\ branch # NoCommit

IsClean == staged = Tree(branch) /\ files = staged

\* _git_boundary_state: the base is an ancestor of the head, whose author is the host.
WithinBoundary == IsActive /\ IsUsable

\* _changed_paths
ChangedPaths == {p \in Paths : files[p] # staged[p] \/ staged[p] # Tree(branch)[p]}

\* _candidate_history_paths: what a commit changes of the base.
HistoryPaths(n) == {p \in Paths : Tree(n)[p] # 0}

\* _assert_paths_allowed
AreAllowed(paths) == paths \cap ProhibitedPaths = {}

\* What push_candidate and execution_context ask of the head.
IsOwnedCandidate(h) ==
    /\ WithinBoundary
    /\ branch = h /\ h # 0
    /\ manifest.candidate = h
    /\ Parent(h) = 0
    /\ IsClean
    /\ AreAllowed(HistoryPaths(h))

-----------------------------------------------------------------------------
(* Creation and cleanup *)

\* _create without a manifest; a path or a branch that is there already is refused.
BeginCreate ==
    /\ LockIsFree
    /\ manifest.state = "NONE"
    /\ worktree = "ABSENT" /\ branch = NoCommit
    /\ manifest' = Manifest("CREATING", NoCommit)
    /\ Continue("ADD")
    /\ UNCHANGED <<repository, commits, elsewhere>>

\* _create with the manifest of a creation that did not end.
ResumeCreate ==
    /\ LockIsFree
    /\ manifest.state = "CREATING"
    /\ Continue("ADD")
    /\ UNCHANGED <<manifest, repository, commits, elsewhere>>

\* _resume_creation: git worktree add, with or without its branch.
AddWorktree ==
    /\ op.step = "ADD"
    /\ worktree = "ABSENT" /\ branch \in {NoCommit, 0}
    /\ branch' = 0 /\ worktree' = "READY"
    /\ staged' = BaseTree /\ files' = BaseTree
    /\ Continue("ACTIVATE")
    /\ UNCHANGED <<manifest, commits, elsewhere>>

\* It fails or is interrupted, after the branch or with some of the files.
AddWorktreeFails ==
    /\ op.step = "ADD"
    /\ worktree = "ABSENT" /\ branch \in {NoCommit, 0}
    /\ \/ branch' = branch /\ worktree' = "ABSENT"
       \/ branch' = 0 /\ worktree' \in {"ABSENT", "PARTIAL"}
    /\ Release
    /\ UNCHANGED <<manifest, staged, files, commits, elsewhere>>

\* The path is there: the working tree of a creation that did not get to its record, or
\* a part of one, which only a cleanup takes away.
FindWorktree ==
    /\ op.step = "ADD"
    /\ worktree # "ABSENT"
    /\ IF IsUsable THEN Continue("ACTIVATE") ELSE Release
    /\ UNCHANGED <<manifest, repository, commits, elsewhere>>

\* The head is the base: the workspace is the task's.
RecordActive ==
    /\ op.step = "ACTIVATE"
    /\ manifest' = IF branch = 0 THEN Manifest("ACTIVE", NoCommit) ELSE manifest
    /\ Release
    /\ UNCHANGED <<repository, commits, elsewhere>>

\* _cleanup: nothing to do without a manifest, or a second time.
BeginCleanup ==
    /\ LockIsFree
    /\ manifest.state \in {"CREATING", "ACTIVE"}
    /\ Continue("REMOVE")
    /\ UNCHANGED <<manifest, repository, commits, elsewhere>>

\* The registered working tree, or the part of one, is removed, or what is left of its
\* registration is.
RemoveWorktree ==
    /\ op.step = "REMOVE"
    /\ worktree' = "ABSENT" /\ staged' = BaseTree /\ files' = BaseTree
    /\ Continue("DELETE_BRANCH")
    /\ UNCHANGED <<manifest, branch, commits, elsewhere>>

\* The removal stops half-way.
RemoveWorktreeFails ==
    /\ op.step = "REMOVE"
    /\ worktree # "ABSENT"
    /\ worktree' = "PARTIAL"
    /\ Release
    /\ UNCHANGED <<manifest, branch, staged, files, commits, elsewhere>>

DeleteBranch ==
    /\ op.step = "DELETE_BRANCH"
    /\ branch' = NoCommit
    /\ Continue("RECORD_CLEANED")
    /\ UNCHANGED <<manifest, worktree, staged, files, commits, elsewhere>>

RecordCleaned ==
    /\ op.step = "RECORD_CLEANED"
    /\ manifest' = [manifest EXCEPT !.state = "CLEANED"]
    /\ Release
    /\ UNCHANGED <<repository, commits, elsewhere>>

-----------------------------------------------------------------------------
(* Changes and commits *)

\* The working tree with some of the changes: each file is replaced whole.
SomeApplied(changes) ==
    {[p \in Paths |-> IF p \in done THEN changes[p] ELSE files[p]] :
        done \in SUBSET DOMAIN changes}

\* apply_file_changes: what fails, or leaves a prohibited path changed, is rolled back;
\* when the agent dies, or the rollback fails, some of the changes stay.
ApplyFileChanges(changes) ==
    /\ LockIsFree
    /\ IsActive /\ worktree = "READY"
    /\ AreAllowed(DOMAIN changes)
    /\ files' \in SomeApplied(changes)
    /\ UNCHANGED <<manifest, branch, worktree, staged, commits, op, elsewhere>>

\* commit_candidate up to the list of what changed: the head is the one the caller
\* names, and the base or the candidate.
BeginCommit(h) ==
    /\ LockIsFree
    /\ WithinBoundary
    /\ branch = h
    /\ h \in {0, manifest.candidate}
    /\ ChangedPaths # {}
    /\ AreAllowed(ChangedPaths)
    /\ op' = [Nothing EXCEPT !.step = "STAGE", !.expected = h, !.paths = ChangedPaths,
                             !.old = manifest.candidate]
    /\ UNCHANGED <<manifest, repository, commits, elsewhere>>

\* _create_isolated_commit: the listed paths are added to the tree of the head.
StagedTree == [p \in Paths |-> IF p \in op.paths THEN files[p] ELSE Tree(op.expected)[p]]

\* Mutant of StepAfter: the branch moves before the candidate is recorded.
StepAfter_RefFirst(step) ==
    CASE step = "STAGE"      -> "READ_TREE"
      [] step = "READ_TREE"  -> "UPDATE_REF"
      [] step = "UPDATE_REF" -> "RECORD"
      [] step = "RECORD"     -> "VERIFY"

\* The order in which a commit becomes the candidate.
StepAfter(step) ==
    CASE step = "STAGE"      -> "RECORD"
      [] step = "RECORD"     -> "READ_TREE"
      [] step = "READ_TREE"  -> "UPDATE_REF"
      [] step = "UPDATE_REF" -> "VERIFY"

\* The commit, whose parent is the base, and the second list of what changed.
Stage ==
    /\ op.step = "STAGE"
    /\ IF StagedTree # Tree(op.expected) /\ ChangedPaths = op.paths
       THEN /\ Len(commits) < MaxCandidateCommits
            /\ commits' = Append(commits, [parent |-> 0, tree |-> StagedTree])
            /\ op' = [op EXCEPT !.step = StepAfter("STAGE"), !.new = Len(commits) + 1]
       ELSE Release /\ UNCHANGED commits
    /\ UNCHANGED <<manifest, repository, elsewhere>>

\* _write_ownership: the manifest is replaced whole.
RecordOwnership ==
    /\ op.step = "RECORD"
    /\ manifest' = [manifest EXCEPT !.candidate = op.new]
    /\ recorded' = recorded \cup {op.new}
    /\ Continue(StepAfter("RECORD"))
    /\ UNCHANGED <<repository, commits, push, running, published>>

ReadTree ==
    /\ op.step = "READ_TREE"
    /\ staged' = Tree(op.new)
    /\ Continue(StepAfter("READ_TREE"))
    /\ UNCHANGED <<manifest, branch, worktree, files, commits, elsewhere>>

UpdateRef ==
    /\ op.step = "UPDATE_REF"
    /\ branch' = op.new
    /\ Continue(StepAfter("UPDATE_REF"))
    /\ UNCHANGED <<manifest, worktree, staged, files, commits, elsewhere>>

\* git fails before the branch has moved.
UpdateFails ==
    /\ op.step \in {"READ_TREE", "UPDATE_REF"}
    /\ Continue("UNDO_INDEX")
    /\ UNCHANGED <<manifest, repository, commits, elsewhere>>

\* What was committed is what the working tree holds, or the commit is taken back.
Verify ==
    /\ op.step = "VERIFY"
    /\ IF IsClean THEN Release ELSE Continue("UNDO_REF")
    /\ UNCHANGED <<manifest, repository, commits, elsewhere>>

UndoRef ==
    /\ op.step = "UNDO_REF"
    /\ branch' = op.expected
    /\ Continue("UNDO_INDEX")
    /\ UNCHANGED <<manifest, worktree, staged, files, commits, elsewhere>>

UndoIndex ==
    /\ op.step = "UNDO_INDEX"
    /\ staged' = Tree(op.expected)
    /\ Continue("UNDO_RECORD")
    /\ UNCHANGED <<manifest, branch, worktree, files, commits, elsewhere>>

\* The record is again what the operation found.
UndoRecord ==
    /\ op.step = "UNDO_RECORD"
    /\ manifest' = [manifest EXCEPT !.candidate = op.old]
    /\ Release
    /\ UNCHANGED <<repository, commits, elsewhere>>

-----------------------------------------------------------------------------
(* Pushes *)

Silent == [step |-> "NONE", head |-> 0, seen |-> Manifest("NONE", NoCommit)]

PushIs(c, step) == push[c].step = step
PushGoesOn(c, next) == push' = [push EXCEPT ![c] = next]

\* push_candidate up to the transport, which does not hold the lock.
BeginPush(c, h) ==
    /\ LockIsFree
    /\ push[c].step \in {"NONE", "GOOD", "CHANGED"}
    /\ IsOwnedCandidate(h)
    /\ PushGoesOn(c, [step |-> "SEND", head |-> h, seen |-> manifest])
    /\ UNCHANGED <<manifest, repository, commits, op, running, recorded, published>>

\* What GitHub takes without force: a new branch, or a child of the head it has.
IsTaken(h) == published = NoCommit \/ (published # h /\ Parent(h) = published)

\* GitCredentialPushTransport.push: the remote is read, and has the commit; or it takes
\* it and is read again.
Send(c) ==
    /\ PushIs(c, "SEND")
    /\ LET h == push[c].head
       IN  /\ published = h \/ IsTaken(h)
           /\ published' = h
           /\ PushGoesOn(c, [push[c] EXCEPT !.step = "CHECK"])
    /\ UNCHANGED <<manifest, repository, commits, op, running, recorded>>

\* The push is refused, or its answer does not come, whether it was taken or not.
SendFails(c) ==
    /\ PushIs(c, "SEND")
    /\ \/ published' = published
       \/ IsTaken(push[c].head) /\ published' = push[c].head
    /\ PushGoesOn(c, Silent)
    /\ UNCHANGED <<manifest, repository, commits, op, running, recorded>>

\* The second look: the push is good when nothing here changed during it.
CheckPush(c) ==
    /\ LockIsFree
    /\ PushIs(c, "CHECK")
    /\ LET unchanged == /\ WithinBoundary /\ manifest = push[c].seen
                        /\ branch = push[c].head /\ IsClean
       IN  PushGoesOn(c, [Silent EXCEPT !.step = IF unchanged THEN "GOOD" ELSE "CHANGED"])
    /\ UNCHANGED <<manifest, repository, commits, op, running, recorded, published>>

-----------------------------------------------------------------------------
(* What happens beside it *)

\* execution_context: a configured run starts on the clean candidate, and writes what it
\* likes into the working tree until it has ended.
StartRun ==
    /\ LockIsFree /\ ~running
    /\ IsOwnedCandidate(branch)
    /\ running' = TRUE
    /\ UNCHANGED <<manifest, repository, commits, op, push, recorded, published>>

RunWrites(p, v) ==
    /\ running /\ worktree = "READY"
    /\ files' = [files EXCEPT ![p] = v]
    /\ UNCHANGED <<manifest, branch, worktree, staged, commits, op, elsewhere>>

EndRun ==
    /\ running
    /\ running' = FALSE
    /\ UNCHANGED <<manifest, repository, commits, op, push, recorded, published>>

\* The agent dies, or git fails where nothing is taken back; what was written stays.
Interrupted ==
    /\ ~LockIsFree \/ \E c \in Callers : push[c].step \in {"SEND", "CHECK"}
    /\ Release
    /\ push' = [c \in Callers |-> Silent]
    /\ UNCHANGED <<manifest, repository, commits, running, recorded, published>>

-----------------------------------------------------------------------------

WsInit ==
    /\ manifest = Manifest("NONE", NoCommit)
    /\ branch = NoCommit /\ worktree = "ABSENT"
    /\ staged = BaseTree /\ files = BaseTree
    /\ commits = << >> /\ recorded = {} /\ published = NoCommit
    /\ op = Nothing /\ push = [c \in Callers |-> Silent]
    /\ running = FALSE

Changes == UNION {[S -> Contents] : S \in SUBSET (Paths \ ProhibitedPaths) \ {{}}}

Lifecycle ==
    \/ BeginCreate \/ ResumeCreate \/ AddWorktree \/ AddWorktreeFails \/ FindWorktree
    \/ RecordActive
    \/ BeginCleanup \/ RemoveWorktree \/ RemoveWorktreeFails \/ DeleteBranch \/ RecordCleaned

Committing ==
    \/ \E changes \in Changes : ApplyFileChanges(changes)
    \/ \E h \in 0 .. Len(commits) : BeginCommit(h)
    \/ Stage \/ RecordOwnership \/ ReadTree \/ UpdateRef \/ UpdateFails \/ Verify
    \/ UndoRef \/ UndoIndex \/ UndoRecord

Pushing ==
    \E c \in Callers :
       \/ \E h \in 1 .. Len(commits) : BeginPush(c, h)
       \/ Send(c) \/ SendFails(c) \/ CheckPush(c)

WsNext ==
    \/ Lifecycle \/ Committing \/ Pushing
    \/ StartRun \/ EndRun \/ \E p \in Paths, v \in Contents : RunWrites(p, v)
    \/ Interrupted

WsSpec == WsInit /\ [][WsNext]_wsvars

-----------------------------------------------------------------------------
(* Properties *)

\* Every variable stays in its type.
WsTypeOK ==
    /\ manifest.state \in {"NONE", "CREATING", "ACTIVE", "CLEANED"}
    /\ manifest.candidate \in recorded \cup {NoCommit}
    /\ branch \in 0 .. Len(commits) \cup {NoCommit}
    /\ worktree \in {"ABSENT", "PARTIAL", "READY"}
    /\ staged \in Trees /\ files \in Trees
    /\ \A n \in 1 .. Len(commits) : commits[n] \in [parent : {0}, tree : Trees]
    /\ recorded \subseteq 1 .. Len(commits)
    /\ published \in recorded \cup {NoCommit}

\* LAUNCHD.md:28 "Candidate ownership is persisted before the task ref advances, making
\* an interrupted commit either retryable from the frozen base or pushable from its
\* recorded SHA": wherever the agent dies, the branch is on the base or on a commit the
\* manifest names or has named, none of which changes a prohibited path, and what is not
\* owned any more is gone. That the manifest names it still is true of a first candidate
\* only: the commit of a repair, when interrupted, leaves the branch on the candidate
\* before, which the manifest has forgotten, and which can be neither built on nor pushed.
ManifestIsTrue ==
    /\ manifest.state \in {"NONE", "CLEANED"} => branch = NoCommit /\ worktree = "ABSENT"
    /\ branch \in recorded \cup {0, NoCommit}
    /\ LockIsFree /\ Cardinality(recorded) <= 1
          => branch \in {0, NoCommit, manifest.candidate}
    /\ \A n \in recorded : AreAllowed(HistoryPaths(n))
=============================================================================
