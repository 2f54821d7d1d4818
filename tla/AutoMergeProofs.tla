-------------------------- MODULE AutoMergeProofs --------------------------
(***************************************************************************)
(* Proofs about WorkerJob and AutoMerge for any number of jobs, branches   *)
(* and pull requests: what a report of completion means, whose commits may *)
(* reach the main branch, and that the registry agrees with GitHub.        *)
(***************************************************************************)
EXTENDS AutoMerge, SequenceTheorems, TLAPS

\* How far a job is: it reports when its thread is done, its container starts
\* with the thread's polls, and its file appears with the end of its agent.
JobsInOrder ==
    \A j \in Jobs :
        /\ thread[j] \in {"none", "prepare", "poll", "grace"} => report[j] = "none"
        /\ thread[j] \in {"none", "prepare"} => box[j] = "none"
        /\ box[j] \in {"none", "agent"} => file[j] = "none"
        /\ thread[j] = "grace" => file[j] = "json"

JobInv == JobTypeOK /\ JobsInOrder /\ JobCompletedIsDone

LEMMA JobInitInv == JobInit => JobInv
  BY DEF JobInit, JobInv, JobTypeOK, JobsInOrder, JobCompletedIsDone, ThreadPlaces,
         BoxPlaces, Outputs

\* A job's own steps keep the invariant, and no step takes a completion back.
LEMMA JobSteps ==
    ASSUME JobInv, NEW j \in Jobs,
           \/ StartJob(j) \/ ThreadStep(j) \/ ThreadEnds(j) \/ BoxExits(j)
           \/ \E code \in {"ok", "bad"}, output \in Outputs : AgentEnds(j, code, output)
    PROVE  JobInv' /\ \A k \in Jobs : report[k] = "completed" => report'[k] = "completed"
<1> USE DEF JobInv, JobTypeOK, JobsInOrder, JobCompletedIsDone, Directory
<1>1. CASE StartJob(j)
  BY <1>1 DEF StartJob, Goto, ThreadPlaces
<1>2. CASE PrepareFails(j)
  BY <1>2 DEF PrepareFails, Reports, Goto, ThreadPlaces
<1>3. CASE Launch(j)
  BY <1>3 DEF Launch, Goto, ThreadPlaces, BoxPlaces
<1>4. CASE PollFindsExit(j)
  BY <1>4 DEF PollFindsExit, StatusOfExit, Reports, Goto, ThreadPlaces
<1>5. CASE PollFindsResult(j)
  BY <1>5 DEF PollFindsResult, Goto, ThreadPlaces
<1>6. CASE ForceStop(j)
  BY <1>6 DEF ForceStop, Reports, Goto, ThreadPlaces, BoxPlaces
<1>7. CASE TimesOut(j)
  BY <1>7 DEF TimesOut, Reports, Goto, ThreadPlaces
<1>8. CASE ThreadEnds(j)
  BY <1>8 DEF ThreadEnds, Goto, ThreadPlaces
<1>9. CASE BoxExits(j)
  BY <1>9 DEF BoxExits, BoxPlaces
<1>10. ASSUME NEW code \in {"ok", "bad"}, NEW output \in Outputs, AgentEnds(j, code, output)
       PROVE  JobInv' /\ report' = report
  BY <1>10 DEF AgentEnds, BoxPlaces, Outputs
<1> QED
  BY <1>1, <1>2, <1>3, <1>4, <1>5, <1>6, <1>7, <1>8, <1>9, <1>10 DEF ThreadStep

LEMMA RestartKeepsJobs == JobInv /\ ThreadsDie => JobInv' /\ report' = report
  BY DEF JobInv, JobTypeOK, JobsInOrder, JobCompletedIsDone, Directory, ThreadsDie, ThreadPlaces

-----------------------------------------------------------------------------
(* Pull requests *)

PullsOK == pulls \in Seq(Pulls) /\ Len(pulls) <= MaxPulls
AnyMerged == \E i \in DOMAIN pulls : pulls[i].merged

\* Pull requests are not deleted, renamed or reopened.
PullsGrow ==
    /\ Len(pulls) <= Len(pulls')
    /\ \A i \in DOMAIN pulls :
          /\ i \in DOMAIN pulls' /\ pulls'[i].branch = pulls[i].branch
          /\ pulls[i].merged => pulls'[i].merged

LEMMA PullFacts ==
    ASSUME PullsOK
    PROVE  /\ Len(pulls) \in Nat /\ DOMAIN pulls = 1..Len(pulls)
           /\ \A i \in DOMAIN pulls : pulls[i].branch \in Branches /\ pulls[i].merged \in BOOLEAN
<1>1. Len(pulls) \in Nat /\ DOMAIN pulls = 1..Len(pulls)
  BY LenProperties DEF PullsOK
<1>2. \A i \in DOMAIN pulls : pulls[i] \in Pulls
  BY <1>1, ElementOfSeq DEF PullsOK
<1> QED
  BY <1>1, <1>2 DEF Pulls

LEMMA OpeningPulls ==
    ASSUME PullsOK, NEW b \in Branches, MayOpen(b), pulls' = Opened(b)
    PROVE  /\ PullsOK' /\ PullsGrow /\ (AnyMerged' <=> AnyMerged)
           /\ Len(pulls') = Len(pulls) + 1 /\ pulls'[Len(pulls) + 1].branch = b
<1> DEFINE p == [branch |-> b, merged |-> FALSE]
<1>1. p \in Pulls /\ p.branch = b /\ ~p.merged
  BY DEF Pulls
<1>2. pulls \in Seq(Pulls) /\ pulls' = Append(pulls, p) /\ Len(pulls) < MaxPulls
  BY DEF PullsOK, Opened, MayOpen
<1> HIDE DEF p
<1>3. /\ pulls' \in Seq(Pulls) /\ Len(pulls') = Len(pulls) + 1
      /\ \A i \in 1..Len(pulls) : pulls'[i] = pulls[i]
      /\ pulls'[Len(pulls) + 1] = p
  BY <1>1, <1>2, AppendProperties
<1>4. /\ Len(pulls) \in Nat /\ DOMAIN pulls = 1..Len(pulls)
      /\ DOMAIN pulls' = 1..(Len(pulls) + 1)
  BY <1>2, <1>3, LenProperties
<1>5. PullsOK'
  BY <1>2, <1>3, <1>4, MergeAssumption DEF PullsOK
<1>6. PullsGrow
  BY <1>3, <1>4 DEF PullsGrow
<1>7. AnyMerged' <=> AnyMerged
  BY <1>1, <1>3, <1>4 DEF AnyMerged
<1> QED
  BY <1>1, <1>3, <1>5, <1>6, <1>7

LEMMA MergingPulls ==
    ASSUME PullsOK, NEW n \in DOMAIN pulls, pulls' = [pulls EXCEPT ![n].merged = TRUE]
    PROVE  PullsOK' /\ PullsGrow /\ pulls'[n].merged
<1>1. pulls \in Seq(Pulls) /\ Len(pulls) \in Nat /\ DOMAIN pulls = 1..Len(pulls)
  BY PullFacts DEF PullsOK
<1> DEFINE p == [pulls[n] EXCEPT !.merged = TRUE]
<1>2. pulls[n] \in Pulls
  BY <1>1, ElementOfSeq
<1>3. p \in Pulls /\ p.branch = pulls[n].branch /\ p.merged
  BY <1>2 DEF Pulls
<1>4. pulls' = [pulls EXCEPT ![n] = p]
  OBVIOUS
<1> HIDE DEF p
<1>5. /\ pulls' \in Seq(Pulls) /\ Len(pulls') = Len(pulls)
      /\ \A i \in 1..Len(pulls) : pulls'[i] = IF i = n THEN p ELSE pulls[i]
  <2> DEFINE q == [pulls EXCEPT ![n] = p]
  <2>1. n \in 1..Len(pulls)
    BY <1>1
  <2>2. /\ q \in Seq(Pulls) /\ Len(q) = Len(pulls)
        /\ \A i \in 1..Len(pulls) : q[i] = IF i = n THEN p ELSE pulls[i]
    BY <1>1, <1>3, <2>1, ExceptSeq
  <2> HIDE DEF q
  <2>3. pulls' = q
    BY <1>4 DEF q
  <2> QED
    BY <2>2, <2>3
<1>6. DOMAIN pulls' = DOMAIN pulls
  BY <1>4
<1> QED
  BY <1>1, <1>3, <1>5, <1>6 DEF PullsOK, PullsGrow

-----------------------------------------------------------------------------
(* The invariant *)

\* Who pushed what.
PushedInv == \A b \in Branches : \A j \in commits[b] : b \in pushed[j]

\* Up to the merge the pump works for one completed job, on a branch or a
\* pull request that its result names.
MergesNamed(h) == pull \in DOMAIN pulls /\ pulls[pull].branch \in Named(h)
PumpInv ==
    /\ pump \in {"find", "open", "merge"} =>
          \E h \in Jobs :
              /\ handling = {h} /\ report[h] = "completed"
              /\ pump \in {"find", "open"} => claim[h].branch # {}
              /\ pump = "merge" => pull = claim[h].pull \/ MergesNamed(h)
    /\ pump \in {"delete", "approve"} => pull \in DOMAIN pulls /\ pulls[pull].merged

\* What is merged is settled, or the pump is about to settle it.
SettledInv ==
    /\ status = "approved" => AnyMerged
    /\ AnyMerged =>
          status # "running" \/ unsettled \/ pump \in {"delete", "approve", "notify"}

HubTypeOK ==
    /\ commits \in [Branches -> SUBSET Jobs]
    /\ PullsOK
    /\ main \in SUBSET Jobs
    /\ claim \in [Jobs -> Claims]
    /\ pushed \in [Jobs -> SUBSET Branches]

PumpTypeOK ==
    /\ bus \in SUBSET Jobs
    /\ pump \in {"idle", "find", "open", "merge", "delete", "approve", "notify"}
    /\ handling \in SUBSET Jobs
    /\ pull \in 0..MaxPulls
    /\ status \in {"running", "approved", "waiting_review"}
    /\ unsettled \in BOOLEAN

IInv ==
    /\ JobInv /\ HubTypeOK /\ PumpTypeOK
    /\ PushedInv /\ PumpInv /\ UnreportedOnlyIfNamed /\ SettledInv

LEMMA Implied == IInv => TypeOK /\ CompletedIsDone /\ UnreportedOnlyIfNamed /\ MergedIsSettled
<1> SUFFICES ASSUME IInv PROVE TypeOK /\ CompletedIsDone /\ UnreportedOnlyIfNamed /\ MergedIsSettled
  OBVIOUS
<1>2. TypeOK
  BY DEF IInv, JobInv, HubTypeOK, PumpTypeOK, PullsOK, TypeOK
<1>3. MergedIsSettled
  BY DEF IInv, SettledInv, AnyMerged, MergedIsSettled
<1> QED
  BY <1>2, <1>3 DEF IInv, JobInv, CompletedIsDone

LEMMA InitInv == Init => IInv
<1> SUFFICES ASSUME Init PROVE IInv
  OBVIOUS
<1>1. JobInv
  BY JobInitInv DEF Init
<1>2. PullsOK /\ DOMAIN pulls = {} /\ Len(pulls) = 0
  BY MergeAssumption DEF Init, PullsOK
<1>3. HubTypeOK
  <2>1. NoClaim \in Claims
    BY MergeAssumption DEF NoClaim, Claims
  <2>2. PullsOK /\ claim \in [Jobs -> Claims]
    BY <1>2, <2>1 DEF Init
  <2> QED
    BY <2>2 DEF Init, HubTypeOK
<1>4. PumpTypeOK
  <2>1. pull \in 0..MaxPulls
    BY MergeAssumption DEF Init
  <2> QED
    BY <2>1 DEF Init, PumpTypeOK
<1>5. PushedInv /\ PumpInv
  BY DEF Init, PushedInv, PumpInv, NoClaim
<1>6. UnreportedOnlyIfNamed /\ SettledInv
  BY <1>2 DEF Init, UnreportedOnlyIfNamed, SettledInv, AnyMerged
<1> QED
  BY <1>1, <1>3, <1>4, <1>5, <1>6 DEF IInv

\* What a result names, it goes on to name.
LEMMA NamesGrow ==
    ASSUME NEW j \in Jobs, PullsGrow, claim'[j] = claim[j]
    PROVE  Named(j) \subseteq Named(j)'
  BY DEF Named, PullsGrow

\* What remains true of the pump and the main branch when branches and pull
\* requests grow, jobs go on, and the pump and the main branch stay.
LEMMA PumpStays ==
    ASSUME IInv, JobInv', HubTypeOK', PullsGrow, AnyMerged' <=> AnyMerged,
           \A j \in Jobs : report[j] = "completed" => report'[j] = "completed",
           \A j \in Jobs : report[j] = "completed" => claim'[j] = claim[j],
           \A j \in Jobs : pushed[j] \subseteq pushed'[j],
           UNCHANGED <<main, pump, handling, pull, status, unsettled>>,
           bus' \in SUBSET Jobs
    PROVE  PumpTypeOK' /\ PumpInv' /\ UnreportedOnlyIfNamed' /\ SettledInv'
<1>1. PumpTypeOK'
  BY DEF IInv, PumpTypeOK
<1>2. \A j \in Jobs : report[j] = "completed" => Named(j) \subseteq Named(j)'
  BY NamesGrow
<1>3. PumpInv'
  <2>1. ASSUME pump \in {"find", "open", "merge"}
        PROVE  \E h \in Jobs :
                  /\ handling' = {h} /\ report'[h] = "completed"
                  /\ pump' \in {"find", "open"} => claim'[h].branch # {}
                  /\ pump' = "merge" => pull' = claim'[h].pull \/ MergesNamed(h)'
    <3>1. PICK h \in Jobs :
              /\ handling = {h} /\ report[h] = "completed"
              /\ pump \in {"find", "open"} => claim[h].branch # {}
              /\ pump = "merge" => pull = claim[h].pull \/ MergesNamed(h)
      BY <2>1 DEF IInv, PumpInv
    <3>2. MergesNamed(h) => MergesNamed(h)'
      BY <1>2, <3>1 DEF PullsGrow, MergesNamed
    <3> QED
      BY <3>1, <3>2
  <2>2. pump \in {"delete", "approve"} => pull \in DOMAIN pulls' /\ pulls'[pull].merged
    BY DEF IInv, PumpInv, PullsGrow
  <2> QED
    BY <2>1, <2>2 DEF PumpInv
<1>4. UnreportedOnlyIfNamed'
  <2> SUFFICES ASSUME NEW j \in main, report'[j] # "completed"
               PROVE  \E k \in Jobs : report'[k] = "completed" /\ pushed'[j] \cap Named(k)' # {}
    BY DEF UnreportedOnlyIfNamed
  <2>1. j \in Jobs
    BY DEF IInv, HubTypeOK
  <2>2. PICK k \in Jobs : report[k] = "completed" /\ pushed[j] \cap Named(k) # {}
    BY <2>1 DEF IInv, UnreportedOnlyIfNamed
  <2>3. pushed'[j] \cap Named(k)' # {}
    BY <1>2, <2>1, <2>2
  <2> QED
    BY <2>2, <2>3
<1>5. SettledInv'
  BY DEF IInv, SettledInv
<1> QED
  BY <1>1, <1>3, <1>4, <1>5

LEMMA SamePulls ==
    ASSUME PullsOK, pulls' = pulls
    PROVE  PullsOK' /\ PullsGrow /\ (AnyMerged' <=> AnyMerged)
  BY PullFacts DEF PullsOK, PullsGrow, AnyMerged

\* Steps of the jobs' threads, the end of a container, and a restart.
LEMMA ThreadSteps ==
    ASSUME IInv, NEW j \in Jobs, JobBoxExits(j) \/ JobStarts(j) \/ JobThread(j) \/ JobReports(j)
    PROVE  IInv'
<1>1. JobInv' /\ \A k \in Jobs : report[k] = "completed" => report'[k] = "completed"
  BY JobSteps DEF IInv, JobBoxExits, JobStarts, JobThread, JobReports
<1>2. /\ UNCHANGED <<commits, pulls, main, claim, pump, handling, pull, status, pushed, unsettled>>
      /\ bus' \in SUBSET Jobs
  BY DEF IInv, PumpTypeOK, JobBoxExits, JobStarts, JobThread, JobReports, hubVars, pumpVars
<1>3. PullsOK' /\ PullsGrow /\ (AnyMerged' <=> AnyMerged)
  BY <1>2, SamePulls DEF IInv, HubTypeOK
<1>4. HubTypeOK'
  BY <1>2, <1>3 DEF IInv, HubTypeOK
<1>5. PushedInv'
  BY <1>2 DEF IInv, PushedInv
<1>6. \A k \in Jobs : pushed[k] \subseteq pushed'[k]
  BY <1>2
<1> QED
  BY <1>1, <1>2, <1>3, <1>4, <1>5, <1>6, PumpStays DEF IInv

LEMMA RestartStep ==
    ASSUME IInv, Restart
    PROVE  IInv'
<1>1. JobInv' /\ report' = report
  BY RestartKeepsJobs DEF IInv, Restart
<1>2. UNCHANGED <<commits, pulls, main, claim, status, pushed>>
  BY DEF Restart, hubVars
<1>3. PullsOK' /\ (AnyMerged' <=> AnyMerged)
  BY <1>2, SamePulls DEF IInv, HubTypeOK
<1>4. HubTypeOK'
  BY <1>2, <1>3 DEF IInv, HubTypeOK
<1>5. PushedInv'
  BY <1>2 DEF IInv, PushedInv
<1>6. PumpTypeOK' /\ PumpInv'
  BY <1>2, MergeAssumption DEF IInv, PumpTypeOK, PumpInv, Restart
<1>7. UnreportedOnlyIfNamed'
  BY <1>1, <1>2 DEF IInv, UnreportedOnlyIfNamed, Named
<1>8. SettledInv'
  BY <1>2, <1>3 DEF IInv, SettledInv, Restart, PumpTypeOK
<1> QED
  BY <1>1, <1>4, <1>5, <1>6, <1>7, <1>8 DEF IInv

\* An agent pushes, or opens a pull request.
LEMMA HubSteps ==
    ASSUME IInv, NEW j \in Jobs, NEW b \in Branches, Push(j, b) \/ AgentOpens(j, b)
    PROVE  IInv'
<1>1. UNCHANGED <<jobVars, main, claim, pumpVars, status, unsettled>>
  BY DEF Push, AgentOpens
<1>2. JobInv'
  BY <1>1 DEF IInv, JobInv, JobTypeOK, JobsInOrder, JobCompletedIsDone, jobVars
<1>3. PullsOK' /\ PullsGrow /\ (AnyMerged' <=> AnyMerged)
  <2>1. CASE Push(j, b)
    BY <2>1, SamePulls DEF IInv, HubTypeOK, Push
  <2>2. CASE AgentOpens(j, b)
    BY <2>2, OpeningPulls DEF IInv, HubTypeOK, AgentOpens
  <2> QED
    BY <2>1, <2>2
<1>4. /\ commits' \in [Branches -> SUBSET Jobs] /\ pushed' \in [Jobs -> SUBSET Branches]
      /\ \A k \in Jobs : pushed[k] \subseteq pushed'[k]
      /\ \A c \in Branches : \A k \in commits'[c] : c \in pushed'[k]
  BY DEF IInv, HubTypeOK, PushedInv, Push, AgentOpens
<1>5. HubTypeOK'
  BY <1>1, <1>3, <1>4 DEF IInv, HubTypeOK
<1>6. PushedInv'
  BY <1>1, <1>3, <1>4 DEF IInv, PushedInv, PullsGrow
<1>7. UNCHANGED <<report, main, claim, pump, handling, pull, status, unsettled, bus>>
  BY <1>1 DEF jobVars, pumpVars
<1>8. bus' \in SUBSET Jobs
  BY <1>7 DEF IInv, PumpTypeOK
<1>9. PumpTypeOK' /\ PumpInv' /\ UnreportedOnlyIfNamed' /\ SettledInv'
  BY <1>2, <1>3, <1>4, <1>5, <1>7, <1>8, PumpStays
<1> QED
  BY <1>2, <1>5, <1>6, <1>9 DEF IInv

LEMMA AgentEndsStep ==
    ASSUME IInv, NEW j \in Jobs, NEW code \in {"ok", "bad"}, NEW output \in Outputs,
           JobAgentEnds(j, code, output)
    PROVE  IInv'
<1>1. JobInv' /\ \A k \in Jobs : report[k] = "completed" => report'[k] = "completed"
  BY JobSteps DEF IInv, JobAgentEnds
<1>2. UNCHANGED <<commits, pulls, main, bus, pump, handling, pull, status, pushed, unsettled>>
  BY DEF JobAgentEnds, hubVars, pumpVars
<1>3. PullsOK' /\ PullsGrow /\ (AnyMerged' <=> AnyMerged)
  BY <1>2, SamePulls DEF IInv, HubTypeOK
<1>4. \E c \in Claims : claim' = [claim EXCEPT ![j] = c]
  BY DEF JobAgentEnds
<1>5. /\ claim' \in [Jobs -> Claims]
      /\ \A k \in Jobs \ {j} : claim'[k] = claim[k]
  BY <1>4 DEF IInv, HubTypeOK
<1>6. HubTypeOK'
  BY <1>2, <1>3, <1>5 DEF IInv, HubTypeOK
<1>7. PushedInv'
  BY <1>2 DEF IInv, PushedInv
<1>8. report[j] # "completed"
  BY DEF IInv, JobInv, JobCompletedIsDone, JobAgentEnds, AgentEnds
<1>9. /\ \A k \in Jobs : report[k] = "completed" => claim'[k] = claim[k]
      /\ \A k \in Jobs : pushed[k] \subseteq pushed'[k]
      /\ bus' \in SUBSET Jobs
  BY <1>2, <1>5, <1>8 DEF IInv, PumpTypeOK
<1>10. PumpTypeOK' /\ PumpInv' /\ UnreportedOnlyIfNamed' /\ SettledInv'
  BY <1>1, <1>2, <1>3, <1>6, <1>9, PumpStays
<1> QED
  BY <1>1, <1>6, <1>7, <1>10 DEF IInv

-----------------------------------------------------------------------------
(* Steps of the pump *)

\* A step of the pump that leaves jobs, names and branches alone keeps what
\* does not depend on the pump.
LEMMA PumpBase ==
    ASSUME IInv, UNCHANGED <<jobVars, claim, pushed>>, PullsOK', PullsGrow,
           commits' \in [Branches -> SUBSET Jobs], main' \in SUBSET Jobs,
           \A b \in Branches : commits'[b] \subseteq commits[b]
    PROVE  JobInv' /\ HubTypeOK' /\ PushedInv'
<1>1. JobInv'
  BY DEF IInv, JobInv, JobTypeOK, JobsInOrder, JobCompletedIsDone, jobVars
<1>2. HubTypeOK'
  BY DEF IInv, HubTypeOK
<1>3. PushedInv'
  BY DEF IInv, PushedInv, PullsGrow
<1> QED
  BY <1>1, <1>2, <1>3

LEMMA MainStays ==
    ASSUME IInv, UNCHANGED <<report, pushed, main, claim>>, PullsGrow
    PROVE  UnreportedOnlyIfNamed'
<1>1. \A k \in Jobs : Named(k) \subseteq Named(k)'
  BY NamesGrow
<1>2. \A j \in main : j \in Jobs
  BY DEF IInv, HubTypeOK
<1> QED
  BY <1>1, <1>2 DEF IInv, UnreportedOnlyIfNamed

LEMMA TakeStep ==
    ASSUME IInv, NEW j \in Jobs, PumpTakes(j)
    PROVE  IInv'
<1>1. UNCHANGED <<jobVars, commits, pulls, main, claim, status, pushed, unsettled>>
  BY DEF PumpTakes, hubVars
<1>2. PullsOK' /\ PullsGrow /\ (AnyMerged' <=> AnyMerged)
  BY <1>1, SamePulls DEF IInv, HubTypeOK
<1>3. JobInv' /\ HubTypeOK' /\ PushedInv'
  BY <1>1, <1>2, PumpBase DEF IInv, HubTypeOK
<1>4. UnreportedOnlyIfNamed'
  BY <1>1, <1>2, MainStays DEF jobVars
<1>5. claim[j].pull \in 0..MaxPulls
  BY DEF IInv, HubTypeOK, Claims
<1>6. report' = report /\ claim' = claim /\ pushed' = pushed /\ pulls' = pulls
  BY <1>1 DEF jobVars
<1>7. PumpTypeOK'
  BY <1>1, <1>5 DEF IInv, PumpTypeOK, PumpTakes
<1>8. PumpInv'
  <2>1. CASE ~Concerns(j)
    BY <1>6, <2>1 DEF PumpTakes, PumpInv
  <2>2. CASE Concerns(j)
    BY <1>5, <1>6, <2>2 DEF PumpTakes, PumpInv, Concerns
  <2> QED
    BY <2>1, <2>2
<1>9. SettledInv'
  BY <1>1, <1>2 DEF IInv, SettledInv, PumpTakes
<1> QED
  BY <1>3, <1>4, <1>7, <1>8, <1>9 DEF IInv

\* While the pump works up to the merge, it works for one completed job.
LEMMA PumpsJob ==
    ASSUME IInv, pump \in {"find", "open", "merge"}
    PROVE  /\ Handled \in Jobs /\ handling = {Handled} /\ report[Handled] = "completed"
           /\ pump \in {"find", "open"} =>
                 /\ claim[Handled].branch # {} /\ HeldBranch \in Branches
                 /\ HeldBranch \in Named(Handled)
           /\ pump = "merge" /\ pull \in DOMAIN pulls => pulls[pull].branch \in Named(Handled)
<1>1. PICK h \in Jobs :
          /\ handling = {h} /\ report[h] = "completed"
          /\ pump \in {"find", "open"} => claim[h].branch # {}
          /\ pump = "merge" => pull = claim[h].pull \/ MergesNamed(h)
  BY DEF IInv, PumpInv
<1>2. Handled = h
  BY <1>1 DEF Handled
<1>3. claim[h].branch \subseteq Branches /\ claim[h].branch \subseteq Named(h)
  BY DEF IInv, HubTypeOK, Claims, Named
<1>4. pump \in {"find", "open"} => HeldBranch \in claim[h].branch
  BY <1>1, <1>2 DEF HeldBranch
<1>5. pump = "merge" /\ pull \in DOMAIN pulls => pulls[pull].branch \in Named(h)
  BY <1>1 DEF Named, MergesNamed
<1> QED
  BY <1>1, <1>2, <1>3, <1>4, <1>5

LEMMA FindStep == IInv /\ PumpFinds => IInv'
<1> SUFFICES ASSUME IInv, PumpFinds PROVE IInv'
  OBVIOUS
<1>1. UNCHANGED <<jobVars, commits, pulls, main, claim, bus, handling, status, pushed, unsettled>>
  BY DEF PumpFinds, PumpGoes, hubVars
<1>2. PullsOK' /\ PullsGrow /\ (AnyMerged' <=> AnyMerged)
  BY <1>1, SamePulls DEF IInv, HubTypeOK
<1>3. JobInv' /\ HubTypeOK' /\ PushedInv'
  BY <1>1, <1>2, PumpBase DEF IInv, HubTypeOK
<1>4. UnreportedOnlyIfNamed'
  BY <1>1, <1>2, MainStays DEF jobVars
<1>5. /\ Len(pulls) \in Nat /\ DOMAIN pulls = 1..Len(pulls)
      /\ Handled \in Jobs /\ handling = {Handled} /\ report[Handled] = "completed"
      /\ HeldBranch \in Named(Handled) /\ claim[Handled].branch # {}
      /\ Len(pulls) <= MaxPulls
  BY PullFacts, PumpsJob DEF IInv, HubTypeOK, PullsOK, PumpFinds
<1>6. \/ pump' = "open" /\ pull' = pull
      \/ pump' = "merge" /\ pull' \in DOMAIN pulls /\ pulls[pull'].branch = HeldBranch
  BY DEF PumpFinds, PumpGoes, OpenPulls
<1>7. /\ report' = report /\ claim' = claim /\ pulls' = pulls /\ handling' = handling
      /\ Named(Handled)' = Named(Handled)
  BY <1>1 DEF jobVars, Named, Handled
<1>8. PumpTypeOK'
  BY <1>1, <1>5, <1>6, MergeAssumption DEF IInv, PumpTypeOK
<1>11. PICK h \in Jobs : h = Handled
  BY <1>5
<1>12. Named(h)' = Named(h)
  BY <1>7 DEF Named
<1>13. pump' = "merge" => MergesNamed(h)'
  BY <1>5, <1>6, <1>7, <1>11, <1>12 DEF MergesNamed
<1>9. PumpInv'
  BY <1>5, <1>6, <1>7, <1>11, <1>13 DEF PumpInv
<1>10. SettledInv'
  BY <1>1, <1>2, <1>6 DEF IInv, SettledInv, PumpFinds
<1> QED
  BY <1>3, <1>4, <1>8, <1>9, <1>10 DEF IInv

LEMMA OpenStep == IInv /\ PumpOpens => IInv'
<1> SUFFICES ASSUME IInv, PumpOpens PROVE IInv'
  OBVIOUS
<1>1. UNCHANGED <<jobVars, commits, main, claim, bus, handling, status, pushed, unsettled>>
  BY DEF PumpOpens, PumpGoes
<1>2. /\ Handled \in Jobs /\ handling = {Handled} /\ report[Handled] = "completed"
      /\ HeldBranch \in Named(Handled) /\ HeldBranch \in Branches
  BY PumpsJob DEF PumpOpens
<1>3. PullsOK
  BY DEF IInv, HubTypeOK
<1>4. \/ pulls' = pulls /\ pump' = "notify" /\ pull' = pull
      \/ /\ MayOpen(HeldBranch) /\ pulls' = Opened(HeldBranch)
         /\ \/ pump' = "notify" /\ pull' = pull
            \/ pump' = "merge" /\ pull' = Len(pulls) + 1
  BY DEF PumpOpens, PumpGoes
<1>5. PullsOK' /\ PullsGrow /\ (AnyMerged' <=> AnyMerged)
  BY <1>2, <1>3, <1>4, SamePulls, OpeningPulls
<1>6. JobInv' /\ HubTypeOK' /\ PushedInv'
  BY <1>1, <1>5, PumpBase DEF IInv, HubTypeOK
<1>7. UnreportedOnlyIfNamed'
  BY <1>1, <1>5, MainStays DEF jobVars
<1>8. /\ pull' \in 0..MaxPulls
      /\ pump' = "merge" => pull' \in DOMAIN pulls' /\ pulls'[pull'].branch = HeldBranch
  <2>1. Len(pulls) \in Nat /\ pull \in 0..MaxPulls
    BY <1>3, PullFacts DEF IInv, PumpTypeOK
  <2>2. CASE pulls' = pulls /\ pump' = "notify" /\ pull' = pull
    BY <2>1, <2>2
  <2>3. CASE MayOpen(HeldBranch) /\ pulls' = Opened(HeldBranch)
    <3>4. Len(pulls') <= MaxPulls
      BY <1>5 DEF PullsOK
    <3>1. Len(pulls') = Len(pulls) + 1 /\ pulls'[Len(pulls) + 1].branch = HeldBranch
      BY <1>2, <1>3, <2>3, OpeningPulls
    <3>2. DOMAIN pulls' = 1..Len(pulls')
      BY <1>5, LenProperties DEF PullsOK
    <3>3. (pull' = pull /\ pump' = "notify") \/ pull' = Len(pulls) + 1
      BY <1>4
    <3> QED
      BY <2>1, <3>1, <3>2, <3>3, <3>4, MergeAssumption
  <2> QED
    BY <1>4, <2>2, <2>3
<1>9. PumpTypeOK'
  BY <1>1, <1>4, <1>8 DEF IInv, PumpTypeOK
<1>10. report' = report /\ claim' = claim /\ handling' = handling
  BY <1>1 DEF jobVars
<1>13. PICK h \in Jobs : h = Handled
  BY <1>2
<1>14. pump' = "merge" => MergesNamed(h)'
  <2>1. Named(h) \subseteq Named(h)'
    BY <1>5, <1>10, NamesGrow
  <2> QED
    BY <1>2, <1>8, <1>13, <2>1 DEF MergesNamed
<1>11. PumpInv'
  BY <1>2, <1>4, <1>10, <1>13, <1>14 DEF PumpInv
<1>12. SettledInv'
  BY <1>1, <1>4, <1>5 DEF IInv, SettledInv, PumpOpens
<1> QED
  BY <1>6, <1>7, <1>9, <1>11, <1>12 DEF IInv

LEMMA MergeStep == IInv /\ PumpMerges => IInv'
<1> SUFFICES ASSUME IInv, PumpMerges PROVE IInv'
  OBVIOUS
<1>1. UNCHANGED <<jobVars, commits, pull, claim, bus, handling, status, pushed, unsettled>>
  BY DEF PumpMerges, PumpGoes
<1>2. /\ Handled \in Jobs /\ handling = {Handled} /\ report[Handled] = "completed"
      /\ pull \in DOMAIN pulls => pulls[pull].branch \in Named(Handled)
  BY PumpsJob DEF PumpMerges
<1>3. PullsOK /\ (pull \in DOMAIN pulls => pulls[pull].branch \in Branches)
  BY PullFacts DEF IInv, HubTypeOK
<1>4. \/ pulls' = pulls /\ main' = main /\ pump' = "notify"
      \/ /\ pull \in DOMAIN pulls
         /\ pulls' = [pulls EXCEPT ![pull].merged = TRUE]
         /\ main' = main \cup commits[pulls[pull].branch]
         /\ pump' \in {"delete", "notify"}
  BY DEF PumpMerges, PumpGoes
<1>5. /\ PullsOK' /\ PullsGrow
      /\ (AnyMerged' <=> AnyMerged) \/ pulls'[pull].merged
      /\ pump' = "delete" => pull \in DOMAIN pulls /\ pulls'[pull].merged
  BY <1>2, <1>3, <1>4, SamePulls, MergingPulls
<1>6. /\ main' \in SUBSET Jobs
      /\ \A j \in main' \ main :
            j \in Jobs /\ pull \in DOMAIN pulls /\ pulls[pull].branch \in pushed[j]
  BY <1>3, <1>4 DEF IInv, HubTypeOK, PushedInv
<1>7. JobInv' /\ HubTypeOK' /\ PushedInv'
  BY <1>1, <1>5, <1>6, PumpBase DEF IInv, HubTypeOK
<1>8. /\ report' = report /\ pushed' = pushed
      /\ \A k \in Jobs : Named(k) \subseteq Named(k)'
  BY <1>1, <1>5, NamesGrow DEF jobVars
<1>9. UnreportedOnlyIfNamed'
  <2> SUFFICES ASSUME NEW j \in main', report[j] # "completed"
               PROVE  \E k \in Jobs : report[k] = "completed" /\ pushed[j] \cap Named(k) # {}
    BY <1>8 DEF UnreportedOnlyIfNamed
  <2>1. CASE j \in main
    BY <2>1 DEF IInv, UnreportedOnlyIfNamed
  <2>2. CASE j \notin main
    <3>1. pulls[pull].branch \in pushed[j] \cap Named(Handled)
      BY <1>2, <1>6, <2>2
    <3> QED
      BY <1>2, <3>1
  <2> QED
    BY <2>1, <2>2
<1>10. pump' = "delete" => pull \in DOMAIN pulls'
  BY <1>5 DEF PullsGrow
<1>11. PumpTypeOK'
  BY <1>1, <1>4 DEF IInv, PumpTypeOK
<1>12. PumpInv'
  BY <1>1, <1>4, <1>5, <1>10 DEF PumpInv
<1>13. SettledInv'
  <2>1. AnyMerged => AnyMerged'
    BY <1>5 DEF AnyMerged, PullsGrow
  <2>2. pump' \in {"delete", "notify"}
    BY <1>4
  <2> QED
    BY <1>1, <2>1, <2>2 DEF IInv, SettledInv
<1> QED
  BY <1>7, <1>9, <1>11, <1>12, <1>13 DEF IInv

LEMMA LastSteps == IInv /\ (PumpDeletes \/ PumpApproves \/ PumpNotifies) => IInv'
<1> SUFFICES ASSUME IInv, PumpDeletes \/ PumpApproves \/ PumpNotifies PROVE IInv'
  OBVIOUS
<1>1. UNCHANGED <<jobVars, pulls, main, claim, bus, pushed>>
  BY DEF PumpDeletes, PumpApproves, PumpNotifies, PumpGoes, PumpEnds, hubVars
<1>2. PullsOK' /\ PullsGrow /\ (AnyMerged' <=> AnyMerged)
  BY <1>1, SamePulls DEF IInv, HubTypeOK
<1>3. /\ commits' \in [Branches -> SUBSET Jobs]
      /\ \A b \in Branches : commits'[b] \subseteq commits[b]
  <2>1. commits \in [Branches -> SUBSET Jobs]
    BY DEF IInv, HubTypeOK
  <2>2. \/ commits' = commits
        \/ \E b \in {pulls[pull].branch} : commits' = [commits EXCEPT ![b] = {}]
    BY DEF PumpDeletes, PumpApproves, PumpNotifies, PumpEnds, hubVars
  <2> QED
    BY <2>1, <2>2
<1>4. JobInv' /\ HubTypeOK' /\ PushedInv'
  BY <1>1, <1>2, <1>3, PumpBase DEF IInv, HubTypeOK
<1>5. UnreportedOnlyIfNamed'
  BY <1>1, <1>2, MainStays DEF jobVars
<1>7. PumpTypeOK'
  <2>1. pull' \in {pull, 0}
    BY DEF PumpDeletes, PumpApproves, PumpNotifies, PumpEnds
  <2>2. pull' \in 0..MaxPulls
    BY <2>1, MergeAssumption DEF IInv, PumpTypeOK
  <2>3. bus' \in SUBSET Jobs
    BY <1>1 DEF IInv, PumpTypeOK
  <2> QED
    BY <2>2, <2>3 DEF IInv, PumpTypeOK, PumpDeletes, PumpApproves, PumpNotifies, PumpGoes, PumpEnds
<1>8. PumpInv'
  BY <1>1 DEF IInv, PumpInv, PumpDeletes, PumpApproves, PumpNotifies, PumpGoes, PumpEnds
<1>9. SettledInv'
  <2>1. CASE PumpDeletes
    BY <1>2, <2>1 DEF IInv, SettledInv, PumpDeletes, PumpGoes
  <2>2. CASE PumpApproves
    <3>1. AnyMerged
      BY <2>2 DEF IInv, PumpInv, PumpApproves, AnyMerged
    <3> QED
      BY <1>2, <2>2, <3>1 DEF SettledInv, PumpApproves
  <2>3. CASE PumpNotifies
    BY <1>2, <2>3 DEF IInv, SettledInv, PumpNotifies, PumpEnds, PumpTypeOK
  <2> QED
    BY <2>1, <2>2, <2>3
<1> QED
  BY <1>4, <1>5, <1>7, <1>8, <1>9 DEF IInv

LEMMA StepInv == IInv /\ [Next]_vars => IInv'
<1> SUFFICES ASSUME IInv, [Next]_vars PROVE IInv'
  OBVIOUS
<1>1. CASE \E j \in Jobs : AgentStep(j) \/ JobStarts(j) \/ HostStep(j) \/ PumpTakes(j)
  BY <1>1, ThreadSteps, HubSteps, AgentEndsStep, TakeStep DEF AgentStep, HostStep
<1>2. CASE PumpStep
  BY <1>2, FindStep, OpenStep, MergeStep, LastSteps DEF PumpStep
<1>3. CASE Restart
  BY <1>3, RestartStep
<1>4. CASE UNCHANGED vars
  <2>1. JobInv' /\ PushedInv' /\ PumpInv' /\ UnreportedOnlyIfNamed' /\ SettledInv'
    BY <1>4 DEF IInv, JobInv, JobTypeOK, JobsInOrder, JobCompletedIsDone, PushedInv, PumpInv,
                MergesNamed, Named, UnreportedOnlyIfNamed, SettledInv, AnyMerged, vars, jobVars, hubVars, pumpVars
  <2>2. HubTypeOK' /\ PumpTypeOK'
    BY <1>4 DEF IInv, HubTypeOK, PullsOK, PumpTypeOK, vars, hubVars, pumpVars
  <2> QED
    BY <2>1, <2>2 DEF IInv
<1> QED
  BY <1>1, <1>2, <1>3, <1>4 DEF Next

LEMMA Inductive == Spec => []IInv
  BY InitInv, StepInv, PTL DEF Spec

\* Every variable keeps its type, for any number of jobs, branches and pull
\* requests, whatever results name (worker.py, auto_review_merge.py).
THEOREM TypeCorrect == Spec => []TypeOK
  BY Implied, Inductive, PTL

\* A job reported as completed has ended, well or with a JSON object of its
\* own (worker.py:703): timeouts, forced stops and restarts included.
THEOREM CompletedHasEnded == Spec => []CompletedIsDone
  BY Implied, Inductive, PTL

\* Commits of a job that has not completed reach the main branch only through
\* a branch or pull request that the result of one that has names
\* (auto_review_merge.py, _merge_pr).
THEOREM MainIsReported == Spec => []UnreportedOnlyIfNamed
  BY Implied, Inductive, PTL

\* Only what was merged is approved, and what was merged is approved or told
\* to the administrator, whichever calls failed (runtime_service.py,
\* _dispatch_hook_event).
THEOREM MergesAreSettled == Spec => []MergedIsSettled
  BY Implied, Inductive, PTL
=============================================================================
