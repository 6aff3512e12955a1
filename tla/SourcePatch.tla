---------------------------- MODULE SourcePatch ----------------------------
(***************************************************************************)
(* A patch script run over an extracted source tree, again and again: the  *)
(* build scripts start it on every build and extract only into a missing   *)
(* directory.  A run may be killed between two writes, or within one, when *)
(* the file is already truncated and not yet written; an anchor that has   *)
(* moved, or an exception, ends it.  The next run starts from what is left.*)
(***************************************************************************)
EXTENDS SourceEdits, Naturals

CONSTANTS
  Jobs,        \* scripts, each with the tree it starts from
  Steps,       \* job -> its steps, in the order its main() takes them
  Origin,      \* job -> file -> text before the first run
  Archive,     \* job -> file -> text in the archive it restores from
  Stamps,      \* jobs that mark the tree as patched and then return at once
  Goals,       \* job -> file -> [has, lacks]: what the patch is there for
  Ends,        \* job -> whole file -> texts it may end with
  Reach,       \* job -> file -> position -> texts it may have there
  MaxRuns      \* bound: runs of the script over one tree

ASSUME SourceAssumption ==
  /\ MaxRuns \in Nat \ {0}
  /\ \A j \in Jobs :
       /\ Len(Steps[j]) \in Nat /\ DOMAIN Steps[j] = 1 .. Len(Steps[j])
       /\ DOMAIN Origin[j] = FilesOf(Steps[j])

VARIABLES
  job,      \* the script at work
  tree,     \* file -> text
  torn,     \* files whose write was cut off
  pc,       \* the next step of the run
  status,   \* "running" | "killed" | "failed" | "done"
  runs,     \* runs started
  changed,  \* the function under way has changed its first file
  stamp     \* the stamp file is there

vars == <<job, tree, torn, pc, status, runs, changed, stamp>>

Size == Len(Steps[job])
This == Steps[job][pc]
Before == IF This.restore THEN Archive[job][This.file] ELSE tree[This.file]
Result == Outcome(This, Before)
Running == status = "running" /\ pc <= Size
Due == Running /\ (This.chained => changed)
Writes == This.always \/ Result.text # tree[This.file]

Init ==
  /\ job \in Jobs /\ tree = Origin[job] /\ torn = {}
  /\ pc = 1 /\ status = "running" /\ runs = 1 /\ changed = FALSE /\ stamp = FALSE

\* The function returned before it came to this file.
Pass ==
  /\ Running /\ This.chained /\ ~changed
  /\ pc' = pc + 1
  /\ UNCHANGED <<job, tree, torn, status, runs, changed, stamp>>

Apply ==
  /\ Due /\ Result.ok
  /\ tree' = [tree EXCEPT ![This.file] = Result.text]
  /\ torn' = IF This.restore THEN torn \ {This.file} ELSE torn
  /\ changed' = IF This.chained THEN changed ELSE Result.text # tree[This.file]
  /\ pc' = pc + 1
  /\ UNCHANGED <<job, status, runs, stamp>>

\* fail(), SystemExit or an exception: nothing of this step is written.
Fail ==
  /\ Due /\ ~Result.ok
  /\ status' = "failed"
  /\ UNCHANGED <<job, tree, torn, pc, runs, changed, stamp>>

\* Killed inside write_text(), after the open that truncates.  At most one
\* write of a behaviour is cut off.
Tear ==
  /\ Due /\ Result.ok /\ Writes /\ torn = {}
  /\ tree' = [tree EXCEPT ![This.file] = EmptyBag]
  /\ torn' = {This.file}
  /\ status' = "killed"
  /\ UNCHANGED <<job, pc, runs, changed, stamp>>

Kill ==
  /\ status = "running"
  /\ status' = "killed"
  /\ UNCHANGED <<job, tree, torn, pc, runs, changed, stamp>>

Finish ==
  /\ status = "running" /\ pc = Size + 1
  /\ status' = "done"
  /\ stamp' = (job \in Stamps)
  /\ UNCHANGED <<job, tree, torn, pc, runs, changed>>

Rerun ==
  /\ status # "running" /\ runs < MaxRuns /\ ~stamp
  /\ pc' = 1 /\ status' = "running" /\ runs' = runs + 1 /\ changed' = FALSE
  /\ UNCHANGED <<job, tree, torn, stamp>>

\* The stamp is there: the run reports "already applied" and returns 0.
StampedRerun ==
  /\ status # "running" /\ runs < MaxRuns /\ stamp
  /\ status' = "done" /\ runs' = runs + 1
  /\ UNCHANGED <<job, tree, torn, pc, changed, stamp>>

Next == Pass \/ Apply \/ Fail \/ Tear \/ Kill \/ Finish \/ Rerun \/ StampedRerun

Spec == Init /\ [][Next]_vars

-----------------------------------------------------------------------------
(***************************************************************************)
(* Properties.                                                             *)
(***************************************************************************)
Files(j) == FilesOf(Steps[j])

After(steps, f, k) == \A i \in k .. Len(steps) : steps[i].file # f
Past(f) == After(Steps[job], f, pc)

\* A step that no text satisfies: it raises on every tree that lacks its marker.
Doomed(step) == \E e \in ToSet(step.edits) : Unbound \in e.old

\* Files that no function edits after another file: what a kill inside such a
\* function leaves of the others is half the patch for good, and nothing is
\* claimed of them.
Whole(j) ==
  {f \in Files(j) : \A i \in 1 .. Len(Steps[j]) : Steps[j][i].file = f => ~Steps[j][i].chained}

\* Between the writes, a kill leaves no trace: a whole file no write was cut
\* off in has, once a run has passed its last step, a text of Ends, which for
\* all but two files is the one text of an undisturbed run (rewrite_in_place
\* and the marker tests of every transform).
Settled == \A f \in Whole(job) \ torn : Past(f) => tree[f] \in Ends[job][f]

\* A run stops on "context not found" at a file that no kill cut off only at
\* a step that stops on every tree: never because an earlier run has already
\* consumed the anchor.
NoFalseAlarm == status = "failed" => This.file \in torn \/ Doomed(This)

Meets(t, goal) == HasAll(t, goal.has) /\ ~Skips(goal.lacks, t)

\* What the patch is there for holds of every file with a goal that the run has
\* passed and no write was cut off in: the order of the calls in main() lets
\* each transform find what it needs.  Only whole files have goals.
GoalsMet ==
  \A f \in DOMAIN Goals[job] \ torn : Past(f) => Meets(tree[f], Goals[job][f])

\* "re-running the script over an already-patched tree should produce no
\* changes and exit 0" (patch_xorg_sources.py, module docstring): the exit.
RerunsSucceed == status = "failed" /\ runs > 1 => torn # {}

\* "legacy24 is the older [...] workaround set (simplified launcher/server
\* shells, connect-free input pump, select clamp, ...), kept opt-in"
\* (build_opie_rootfs.sh:54-57): a finished run of the other set leaves none of
\* it in the tree that both sets share.
NothingForeign ==
  status = "done" => \A f \in DOMAIN Goals[job] \ torn : ~Skips(Goals[job][f].lacks, tree[f])

-----------------------------------------------------------------------------
(***************************************************************************)
(* The texts of one file, one run after the other, on their own: Reach is  *)
(* closed under the steps and under starting again.  Files share nothing   *)
(* but the chain of a function, so this is a check of one file at a time.  *)
(***************************************************************************)
Taken(step, archived, t) == Outcome(step, IF step.restore THEN archived ELSE t)

ClosedFor(j, f) ==
  \A steps \in {Steps[j]}, archived \in {Archive[j][f]}, reach \in {Reach[j][f]} :
    LET N == Len(steps) IN
    /\ Origin[j][f] \in reach[1] /\ reach[N + 1] \subseteq reach[1]
    /\ \A k \in 1 .. N : \A t \in reach[k] :
         /\ t \in reach[1]
         /\ steps[k].file # f \/ steps[k].chained => t \in reach[k + 1]
         /\ steps[k].file = f =>
              IF Taken(steps[k], archived, t).ok THEN Taken(steps[k], archived, t).text \in reach[k + 1]
              ELSE Doomed(steps[k])
    /\ \A k \in 1 .. N :
         steps[k].file = f /\ steps[k].restore => Taken(steps[k], archived, EmptyBag).text \in reach[k + 1]
    /\ f \in Whole(j) =>
         \A k \in 1 .. N + 1 : After(steps, f, k) => reach[k] \subseteq Ends[j][f]

\* One file at a time, Reach holds what the runs can make of it and, of a whole
\* file, ends in Ends: the sequential check from which the theorems of
\* SourcePatchProofs follow for any number of runs and kills.
Closed == \A f \in Files(job) : ClosedFor(job, f)

\* Each text a file with a goal may end with is one the patch is there for.
Fulfilled ==
  /\ DOMAIN Goals[job] \subseteq Whole(job)
  /\ \A f \in DOMAIN Goals[job] : \A t \in Ends[job][f] : Meets(t, Goals[job][f])

\* Every run over an extracted tree starts from such a script: whatever texts
\* kills between the writes and reruns leave of a file, no step of the script
\* finds its anchor consumed, a write cut off in a file that is restored from
\* the archive leaves no trace, and a whole file ends in Ends, its goals met.
StartsClosed == pc = 1 /\ runs = 1 => Closed /\ Fulfilled
=============================================================================
