------------------------- MODULE SourcePatchProofs -------------------------
(***************************************************************************)
(* From the sequential check Closed, one file at a time, to the runs: any  *)
(* number of them, killed at any point.  The inductive invariant says that *)
(* a file no write was cut off in has a text that Reach allows where the   *)
(* run stands; Closed, which speaks of job alone, is part of it.           *)
(***************************************************************************)
EXTENDS SourcePatch, TLAPS

Within == \A f \in Files(job) \ torn : tree[f] \in Reach[job][f][pc]

IInv ==
  /\ job \in Jobs
  /\ Len(Steps[job]) \in Nat
  /\ pc \in 1 .. Len(Steps[job]) + 1
  /\ DOMAIN tree = Files(job)
  /\ Closed
  /\ Within
  /\ NoFalseAlarm

\* The file of a step is a file of its job.
LEMMA StepFile ==
  ASSUME NEW j \in Jobs, NEW k \in 1 .. Len(Steps[j])
  PROVE  Steps[j][k].file \in Files(j)
BY DEF Files, FilesOf

\* A run of nothing starts within Reach.
LEMMA InitWithin == Init /\ Closed => IInv
<1> SUFFICES ASSUME Init, Closed PROVE IInv
  OBVIOUS
<1>1. job \in Jobs /\ Len(Steps[job]) \in Nat /\ DOMAIN Origin[job] = Files(job)
  BY SourceAssumption DEF Init, Files
<1>2. pc = 1 /\ pc \in 1 .. Len(Steps[job]) + 1
  BY <1>1 DEF Init
<1>3. DOMAIN tree = Files(job)
  BY <1>1 DEF Init
<1>4. Within
  BY <1>2 DEF Init, Closed, ClosedFor, Within
<1>5. NoFalseAlarm
  BY DEF Init, NoFalseAlarm
<1> QED
  BY <1>1, <1>2, <1>3, <1>4, <1>5 DEF IInv

\* What a step leaves of a file it may take further: a text that Reach allows
\* next, or, where the step fails, one that no text would satisfy.
LEMMA TakenFurther ==
  ASSUME NEW j, NEW f, ClosedFor(j, f),
         NEW k \in 1 .. Len(Steps[j]), NEW t \in Reach[j][f][k]
  PROVE  /\ t \in Reach[j][f][1]
         /\ Steps[j][k].file # f \/ Steps[j][k].chained => t \in Reach[j][f][k + 1]
         /\ Steps[j][k].file = f /\ Taken(Steps[j][k], Archive[j][f], t).ok
              => Taken(Steps[j][k], Archive[j][f], t).text \in Reach[j][f][k + 1]
         /\ Steps[j][k].file = f /\ ~Taken(Steps[j][k], Archive[j][f], t).ok => Doomed(Steps[j][k])
BY DEF ClosedFor

\* Wherever a run was left, its texts may start the next.
LEMMA StartsAgain ==
  ASSUME NEW j, NEW f, ClosedFor(j, f), Len(Steps[j]) \in Nat,
         NEW k \in 1 .. Len(Steps[j]) + 1, NEW t \in Reach[j][f][k]
  PROVE  t \in Reach[j][f][1]
<1>1. CASE k \in 1 .. Len(Steps[j])
  BY <1>1, TakenFurther
<1>2. CASE k = Len(Steps[j]) + 1
  BY <1>2 DEF ClosedFor
<1> QED
  BY <1>1, <1>2

\* What Apply writes is what the check Closed takes the step to write.
LEMMA AppliesAsTaken ==
  ASSUME NEW t, t = tree[This.file]
  PROVE  Result = Taken(This, Archive[job][This.file], t)
BY DEF Result, Taken, Before, This

LEMMA ApplyWithin == IInv /\ Apply => IInv'
<1> SUFFICES ASSUME IInv, Apply PROVE IInv'
  OBVIOUS
<1>1. /\ job' = job /\ pc' = pc + 1 /\ status' = status /\ status = "running"
      /\ Result.ok /\ pc \in 1 .. Len(Steps[job])
      /\ tree' = [tree EXCEPT ![This.file] = Result.text]
      /\ torn' = IF This.restore THEN torn \ {This.file} ELSE torn
  BY DEF Apply, Due, Running, Size, IInv
<1>2. pc' \in 1 .. Len(Steps[job]) + 1
  BY <1>1 DEF IInv
<1>3. This.file \in Files(job) /\ This.file \in DOMAIN tree
  BY <1>1, StepFile DEF This, IInv
<1>4. ASSUME NEW f \in Files(job) \ torn' PROVE tree'[f] \in Reach[job][f][pc + 1]
  <2>0. ClosedFor(job, f)
    BY DEF IInv, Closed
  <2>1. CASE f # This.file
    <3>1. f \notin torn /\ tree'[f] = tree[f] /\ tree[f] \in Reach[job][f][pc]
      BY <1>1, <2>1 DEF IInv, Within
    <3>2. Steps[job][pc].file # f
      BY <2>1 DEF This
    <3> QED
      BY <1>1, <2>0, <3>1, <3>2, TakenFurther
  <2>2. CASE f = This.file /\ f \notin torn
    <3>1. tree'[f] = Result.text /\ tree[f] \in Reach[job][f][pc]
      BY <1>1, <1>3, <2>2 DEF IInv, Within
    <3>2. Result = Taken(This, Archive[job][f], tree[f])
      BY <2>2, AppliesAsTaken
    <3>3. Steps[job][pc].file = f
      BY <2>2 DEF This
    <3> QED
      BY <1>1, <2>0, <3>1, <3>2, <3>3, TakenFurther DEF This
  <2>3. CASE f = This.file /\ f \in torn
    <3>1. This.restore /\ tree'[f] = Result.text
      BY <1>1, <1>3, <2>3
    <3>2. Result = Taken(This, Archive[job][f], EmptyBag)
      BY <2>3, <3>1 DEF Result, Taken, Before, This
    <3>3. Taken(This, Archive[job][f], EmptyBag).text \in Reach[job][f][pc + 1]
      BY <1>1, <2>0, <2>3, <3>1 DEF ClosedFor, This
    <3> QED
      BY <3>1, <3>2, <3>3
  <2> QED
    BY <2>1, <2>2, <2>3
<1>5. Within'
  BY <1>1, <1>4 DEF Within, Files
<1>6. Closed'
  BY <1>1 DEF IInv, Closed, Files
<1>7. NoFalseAlarm'
  BY <1>1 DEF NoFalseAlarm
<1>8. (DOMAIN tree = Files(job))'
  BY <1>1 DEF IInv, Files
<1> QED
  BY <1>1, <1>2, <1>5, <1>6, <1>7, <1>8 DEF IInv

LEMMA PassWithin == IInv /\ Pass => IInv'
<1> SUFFICES ASSUME IInv, Pass PROVE IInv'
  OBVIOUS
<1>1. /\ job' = job /\ pc' = pc + 1 /\ status' = status /\ status = "running"
      /\ tree' = tree /\ torn' = torn /\ pc \in 1 .. Len(Steps[job]) /\ Steps[job][pc].chained
  BY DEF Pass, Running, Size, This, IInv
<1>2. pc' \in 1 .. Len(Steps[job]) + 1
  BY <1>1 DEF IInv
<1>3. ASSUME NEW f \in Files(job) \ torn PROVE tree[f] \in Reach[job][f][pc + 1]
  <2>1. ClosedFor(job, f) /\ tree[f] \in Reach[job][f][pc]
    BY DEF IInv, Closed, Within
  <2> QED
    BY <1>1, <2>1, TakenFurther
<1>4. Within' /\ Closed' /\ NoFalseAlarm'
  BY <1>1, <1>3 DEF Within, IInv, Closed, NoFalseAlarm, Files
<1> QED
  BY <1>1, <1>2, <1>4 DEF IInv, Files

LEMMA FailWithin == IInv /\ Fail => IInv'
<1> SUFFICES ASSUME IInv, Fail PROVE IInv'
  OBVIOUS
<1>1. /\ job' = job /\ pc' = pc /\ tree' = tree /\ torn' = torn
      /\ ~Result.ok /\ pc \in 1 .. Len(Steps[job])
  BY DEF Fail, Due, Running, Size, IInv
<1>2. ASSUME This.file \notin torn PROVE Doomed(This)
  <2>1. This.file \in Files(job)
    BY <1>1, StepFile DEF This, IInv
  <2>2. ClosedFor(job, This.file) /\ tree[This.file] \in Reach[job][This.file][pc]
    BY <1>2, <2>1 DEF IInv, Closed, Within
  <2>3. ~Taken(This, Archive[job][This.file], tree[This.file]).ok
    BY <1>1, AppliesAsTaken
  <2> QED
    BY <1>1, <2>2, <2>3, TakenFurther DEF This
<1>3. (This.file \in torn \/ Doomed(This))'
  BY <1>1, <1>2 DEF This, Doomed
<1>4. Within' /\ Closed'
  BY <1>1 DEF Within, IInv, Closed, Files
<1> QED
  BY <1>1, <1>3, <1>4 DEF IInv, Files, NoFalseAlarm

LEMMA TearWithin == IInv /\ Tear => IInv'
<1> SUFFICES ASSUME IInv, Tear PROVE IInv'
  OBVIOUS
<1>1. /\ job' = job /\ pc' = pc /\ torn = {} /\ torn' = {This.file} /\ status' = "killed"
      /\ tree' = [tree EXCEPT ![This.file] = EmptyBag]
  BY DEF Tear
<1>2. Within'
  BY <1>1 DEF IInv, Within, Files
<1>3. Closed' /\ NoFalseAlarm' /\ (DOMAIN tree = Files(job))'
  BY <1>1 DEF IInv, Closed, NoFalseAlarm, Files
<1> QED
  BY <1>1, <1>2, <1>3 DEF IInv

LEMMA RerunWithin == IInv /\ Rerun => IInv'
<1> SUFFICES ASSUME IInv, Rerun PROVE IInv'
  OBVIOUS
<1>1. job' = job /\ pc' = 1 /\ tree' = tree /\ torn' = torn /\ status' = "running"
  BY DEF Rerun
<1>2. ASSUME NEW f \in Files(job) \ torn PROVE tree[f] \in Reach[job][f][1]
  <2>1. ClosedFor(job, f) /\ tree[f] \in Reach[job][f][pc]
    BY DEF IInv, Closed, Within
  <2> QED
    BY <2>1, StartsAgain DEF IInv
<1>3. Within' /\ Closed' /\ NoFalseAlarm'
  BY <1>1, <1>2 DEF Within, IInv, Closed, NoFalseAlarm, Files
<1>4. pc' \in 1 .. Len(Steps[job]) + 1
  BY <1>1 DEF IInv
<1> QED
  BY <1>1, <1>3, <1>4 DEF IInv, Files

\* The other steps leave the tree and the place in it as they are.
LEMMA RestWithin ==
  IInv /\ (Kill \/ Finish \/ StampedRerun \/ UNCHANGED vars) => IInv'
<1> SUFFICES ASSUME IInv, Kill \/ Finish \/ StampedRerun \/ UNCHANGED vars PROVE IInv'
  OBVIOUS
<1>1. /\ job' = job /\ pc' = pc /\ tree' = tree /\ torn' = torn
      /\ status' = status \/ status' \in {"killed", "done"}
  BY DEF Kill, Finish, StampedRerun, vars
<1>2. Within' /\ Closed' /\ NoFalseAlarm'
  BY <1>1 DEF IInv, Within, Closed, NoFalseAlarm, Files, This, Doomed
<1> QED
  BY <1>1, <1>2 DEF IInv, Files

LEMMA NextWithin == IInv /\ [Next]_vars => IInv'
BY ApplyWithin, PassWithin, FailWithin, TearWithin, RerunWithin, RestWithin DEF Next

\* The inductive invariant, from Closed in the first state.
LEMMA AlwaysWithin == Spec /\ Closed => []IInv
BY InitWithin, NextWithin, PTL DEF Spec

\* A whole file past its last step holds a text it may end with.
LEMMA WithinSettles == IInv => Settled
<1> SUFFICES ASSUME IInv, NEW f \in Whole(job) \ torn, Past(f)
             PROVE  tree[f] \in Ends[job][f]
  BY DEF Settled
<1>1. ClosedFor(job, f) /\ tree[f] \in Reach[job][f][pc]
  BY DEF IInv, Closed, Within, Whole
<1>2. pc \in 1 .. Len(Steps[job]) + 1 /\ After(Steps[job], f, pc)
  BY DEF IInv, Past
<1> QED
  BY <1>1, <1>2 DEF ClosedFor

\* However often a script is run over a tree and wherever it is killed (the
\* build scripts start it on every build), a whole file it has passed and no
\* write was cut off in holds a text of Ends: rewrite_in_place and its
\* transforms.
THEOREM SettledAlways == Spec /\ Closed => []Settled
<1>1. IInv => Settled
  BY WithinSettles
<1> QED
  BY <1>1, AlwaysWithin, PTL

\* No run stops on a missing context because an earlier one has consumed it:
\* only at a file a kill cut off, or at a step that stops on every tree
\* (fail() and the anchors of rewrite_in_place).
THEOREM NoFalseAlarmAlways == Spec /\ Closed => []NoFalseAlarm
<1>1. IInv => NoFalseAlarm
  BY DEF IInv
<1> QED
  BY <1>1, AlwaysWithin, PTL

\* So does what the patch is there for, if each text a file may end with has
\* it.
LEMMA SettledMeets == IInv /\ Fulfilled => GoalsMet
<1> SUFFICES ASSUME IInv, Fulfilled, NEW f \in DOMAIN Goals[job] \ torn, Past(f)
             PROVE  Meets(tree[f], Goals[job][f])
  BY DEF GoalsMet
<1>1. f \in Whole(job) \ torn
  BY DEF Fulfilled
<1>2. tree[f] \in Ends[job][f]
  BY <1>1, WithinSettles DEF Settled
<1> QED
  BY <1>2 DEF Fulfilled

LEMMA SameGoals == IInv /\ Fulfilled /\ [Next]_vars => Fulfilled'
<1> SUFFICES ASSUME Fulfilled, [Next]_vars PROVE Fulfilled'
  OBVIOUS
<1>1. job' = job
  BY DEF Next, Pass, Apply, Fail, Tear, Kill, Finish, Rerun, StampedRerun, vars
<1> QED
  BY <1>1 DEF Fulfilled, Files, Whole

\* Whatever runs were killed before, every file with a goal that a run has
\* passed and no write was cut off in holds what its patch is there for and
\* nothing it removes: main() of every script.
THEOREM GoalsMetAlways == Spec /\ Closed /\ Fulfilled => []GoalsMet
<1>1. Fulfilled /\ IInv => GoalsMet
  BY SettledMeets
<1>2. IInv /\ Fulfilled /\ [Next]_vars => Fulfilled'
  BY SameGoals
<1> QED
  BY <1>1, <1>2, AlwaysWithin, PTL DEF Spec
=============================================================================
