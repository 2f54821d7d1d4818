----------------------------- MODULE AutoMerge -----------------------------
(***************************************************************************)
(* From the result of a code worker to an approved incident                *)
(* (RuntimeService._dispatch_hook_event, src/src/app/auto_review_merge.py):*)
(* the hook pump takes a result, finds or opens the pull request it names, *)
(* approves it, merges it, deletes its branch and approves the incident;   *)
(* whatever fails on the way becomes a message to the administrator.       *)
(*                                                                         *)
(* GitHub is another system: a call may be refused, and its answer may be  *)
(* lost after it took effect.  The pump blocks while it calls, but the     *)
(* agents of other jobs, and of jobs that timed out, go on pushing.        *)
(* One incident; its other statuses, the administrator and the watcher are *)
(* in IncidentLifecycle, the order and the loss of results in HookBus.     *)
(***************************************************************************)
EXTENDS Naturals, Sequences, WorkerJob

CONSTANTS
    Branches,       \* the branches agents push to or name
    MaxPulls        \* pull requests of a behaviour (a bound)

ASSUME MergeAssumption == MaxPulls \in Nat

VARIABLES
    commits,        \* the jobs with commits on a branch
    pulls,          \* pull requests: their branch, and whether they are merged
    main,           \* the jobs whose commits are merged
    claim,          \* the branch and pull request a job's result names
    bus,            \* jobs whose result waits for the pump
    pump,           \* where the pump is
    handling,       \* the job whose result it handles (at most one)
    pull,           \* the pull request it works on, 0 for none
    status,         \* registry status of the incident
    pushed,         \* history: the branches a job has pushed to
    unsettled       \* history: a notification failed, or a restart interrupted

hubVars == <<commits, pulls, main>>
pumpVars == <<bus, pump, handling, pull>>
vars == <<jobVars, hubVars, claim, pumpVars, status, pushed, unsettled>>

NoClaim == [branch |-> {}, pull |-> 0]
Claims == [branch : SUBSET Branches, pull : 0..MaxPulls]
Pulls == [branch : Branches, merged : BOOLEAN]

TypeOK ==
    /\ JobTypeOK
    /\ commits \in [Branches -> SUBSET Jobs]
    /\ pulls \in Seq(Pulls) /\ Len(pulls) <= MaxPulls
    /\ main \in SUBSET Jobs
    /\ claim \in [Jobs -> Claims]
    /\ bus \in SUBSET Jobs
    /\ pump \in {"idle", "find", "open", "merge", "delete", "approve", "notify"}
    /\ handling \in SUBSET Jobs
    /\ pull \in 0..MaxPulls
    /\ status \in {"running", "approved", "waiting_review"}
    /\ pushed \in [Jobs -> SUBSET Branches]
    /\ unsettled \in BOOLEAN

Init ==
    /\ JobInit
    /\ commits = [b \in Branches |-> {}]
    /\ pulls = <<>> /\ main = {}
    /\ claim = [j \in Jobs |-> NoClaim]
    /\ bus = {} /\ pump = "idle" /\ handling = {} /\ pull = 0
    /\ status = "running"
    /\ pushed = [j \in Jobs |-> {}]
    /\ unsettled = FALSE

-----------------------------------------------------------------------------
(* The agents *)

OpenPulls(b) == {i \in DOMAIN pulls : pulls[i].branch = b /\ ~pulls[i].merged}

\* GitHub opens a request for a branch that exists and has none open.
MayOpen(b) == commits[b] # {} /\ OpenPulls(b) = {} /\ Len(pulls) < MaxPulls
Opened(b) == Append(pulls, [branch |-> b, merged |-> FALSE])

\* An agent works on one branch (a bound), which may be another agent's too.
Push(j, b) ==
    /\ box[j] = "agent"
    /\ pushed[j] \subseteq {b}
    /\ commits' = [commits EXCEPT ![b] = @ \cup {j}]
    /\ pushed' = [pushed EXCEPT ![j] = @ \cup {b}]
    /\ UNCHANGED <<jobVars, pulls, main, claim, pumpVars, status, unsettled>>

AgentOpens(j, b) ==
    /\ box[j] = "agent"
    /\ b \in pushed[j]
    /\ MayOpen(b)
    /\ pulls' = Opened(b)
    /\ UNCHANGED <<jobVars, commits, main, claim, pumpVars, status, pushed, unsettled>>

\* The agent ends.  A JSON result may name any pull request, or else any
\* branch, its own or not, which may not exist or not yet; a branch that comes
\* with a pull request counts for nothing (auto_review_merge.py:41).
JobAgentEnds(j, code, output) ==
    /\ AgentEnds(j, code, output)
    /\ output = "none" => pushed[j] = {}
    /\ \E c \in Claims :
        /\ Cardinality(c.branch) <= IF c.pull = 0 THEN 1 ELSE 0
        /\ output # "json" => c = NoClaim
        /\ claim' = [claim EXCEPT ![j] = c]
    /\ UNCHANGED <<hubVars, pumpVars, status, pushed, unsettled>>

JobBoxExits(j) == BoxExits(j) /\ UNCHANGED <<hubVars, claim, pumpVars, status, pushed, unsettled>>
JobStarts(j) == StartJob(j) /\ UNCHANGED <<hubVars, claim, pumpVars, status, pushed, unsettled>>
JobThread(j) == ThreadStep(j) /\ UNCHANGED <<hubVars, claim, pumpVars, status, pushed, unsettled>>

\* The thread stores its report, pushes the event and ends.
JobReports(j) ==
    /\ ThreadEnds(j)
    /\ bus' = bus \cup {j}
    /\ UNCHANGED <<hubVars, claim, pump, handling, pull, status, pushed, unsettled>>

-----------------------------------------------------------------------------
(* The pump *)

Handled == CHOOSE j \in handling : TRUE
HeldBranch == CHOOSE b \in claim[Handled].branch : TRUE

PumpGoes(place) ==
    /\ pump' = place
    /\ UNCHANGED <<jobVars, claim, bus, handling, pushed>>

PumpEnds ==
    /\ pump' = "idle" /\ handling' = {} /\ pull' = 0
    /\ UNCHANGED <<jobVars, hubVars, claim, bus, pushed>>

\* Mutant of Concerns: failed results are merged too.
ConcernsAll(j) == report[j] # "none"

\* Only completed results go beyond the leader.
Concerns(j) == report[j] = "completed"

\* The pump takes a result.  Automatic merging may be switched off, and the
\* token may be missing.
PumpTakes(j) ==
    /\ pump = "idle"
    /\ j \in bus
    /\ bus' = bus \ {j}
    /\ \/ ~Concerns(j) /\ UNCHANGED <<pump, handling, pull>>
       \/ /\ Concerns(j)
          /\ handling' = {j}
          /\ \/ pump' = "notify" /\ UNCHANGED pull
             \/ /\ claim[j].pull # 0
                /\ pump' = "merge" /\ pull' = claim[j].pull
             \/ /\ claim[j].pull = 0 /\ claim[j].branch # {}
                /\ pump' = "find" /\ UNCHANGED pull
    /\ UNCHANGED <<jobVars, hubVars, claim, status, pushed, unsettled>>

\* _ensure_pr_for_branch asks for an open request of the branch ...
PumpFinds ==
    /\ pump = "find"
    /\ \/ \E i \in OpenPulls(HeldBranch) : pull' = i /\ PumpGoes("merge")
       \/ PumpGoes("open") /\ UNCHANGED pull
    /\ UNCHANGED <<hubVars, status, unsettled>>

\* ... and opens one.  The call may be refused, or its answer lost.
PumpOpens ==
    /\ pump = "open"
    /\ \/ /\ MayOpen(HeldBranch)
          /\ pulls' = Opened(HeldBranch)
          /\ \/ pull' = Len(pulls) + 1 /\ PumpGoes("merge")
             \/ PumpGoes("notify") /\ UNCHANGED pull
       \/ PumpGoes("notify") /\ UNCHANGED <<pulls, pull>>
    /\ UNCHANGED <<commits, main, status, unsettled>>

\* _approve_pr, whose outcome nothing depends on, and _merge_pr: the head of
\* the branch is merged, whoever pushed it.  GitHub may refuse (and does for
\* a merged or unknown request), or the answer may be lost.
PumpMerges ==
    /\ pump = "merge"
    /\ \/ /\ pull \in DOMAIN pulls
          /\ ~pulls[pull].merged
          /\ pulls' = [pulls EXCEPT ![pull].merged = TRUE]
          /\ main' = main \cup commits[pulls[pull].branch]
          /\ PumpGoes("delete") \/ PumpGoes("notify")
       \/ PumpGoes("notify") /\ UNCHANGED <<pulls, main>>
    /\ UNCHANGED <<commits, pull, status, unsettled>>

\* _delete_pr_branch, after a merge whose answer arrived.
PumpDeletes ==
    /\ pump = "delete"
    /\ PumpGoes("approve")
    /\ commits' = [commits EXCEPT ![pulls[pull].branch] = {}] \/ UNCHANGED commits
    /\ UNCHANGED <<pulls, main, pull, status, unsettled>>

PumpApproves ==
    /\ pump = "approve"
    /\ status' = "approved"
    /\ PumpEnds
    /\ UNCHANGED unsettled

\* Mutant of PumpNotifies: the status is left alone.
PumpTells ==
    /\ pump = "notify"
    /\ PumpEnds
    /\ UNCHANGED <<status, unsettled>>

\* send_review_notification; a message that is not sent is not sent again.
PumpNotifies ==
    /\ pump = "notify"
    /\ \/ status' = "waiting_review" /\ UNCHANGED unsettled
       \/ UNCHANGED status /\ unsettled' = TRUE
    /\ PumpEnds

Restart ==
    /\ ThreadsDie
    /\ bus' = {} /\ pump' = "idle" /\ handling' = {} /\ pull' = 0
    /\ unsettled' = (unsettled \/ pump # "idle")
    /\ UNCHANGED <<hubVars, claim, status, pushed>>

PumpStep ==
    \/ PumpFinds \/ PumpOpens \/ PumpMerges
    \/ PumpDeletes \/ PumpApproves \/ PumpNotifies

AgentStep(j) ==
    \/ \E b \in Branches : Push(j, b) \/ AgentOpens(j, b)
    \/ \E code \in {"ok", "bad"}, output \in Outputs : JobAgentEnds(j, code, output)
    \/ JobBoxExits(j)

HostStep(j) == JobThread(j) \/ JobReports(j)

Next ==
    \/ \E j \in Jobs : AgentStep(j) \/ JobStarts(j) \/ HostStep(j) \/ PumpTakes(j)
    \/ PumpStep
    \/ Restart

Spec == Init /\ [][Next]_vars

\* The service's threads run on; agents and containers may hang.
FairSpec == Spec /\ \A j \in Jobs : WF_vars(HostStep(j))

-----------------------------------------------------------------------------
(* Properties *)

\* A job reported as completed is over: its own agent has ended, with exit
\* code 0 or with a JSON object as its last message (worker.py:724), and not
\* some other worker's result has been read; so nothing is pushed for it any
\* more, before or after its merge.
CompletedIsDone == JobCompletedIsDone

\* The branches that the result of a job stands for.
Named(j) == claim[j].branch \cup {pulls[i].branch : i \in DOMAIN pulls \cap {claim[j].pull}}

\* Commits of a job that failed, timed out, or has not reported reach the
\* main branch only through a branch that a completed result names or whose
\* pull request it names, rightly or not: a container outlives its thread
\* (worker.py:703), a merge takes the head, and nobody compares what a result
\* names with what the job pushed (worker.py:861).
UnreportedOnlyIfNamed ==
    \A j \in main : report[j] # "completed" =>
        \E k \in Jobs : report[k] = "completed" /\ pushed[j] \cap Named(k) # {}

\* Every job reports in the end, even if its agent hangs, unless the service
\* restarts (worker.py:702).
JobReportsBack == \A j \in Jobs : thread[j] = "prepare" ~> thread[j] \in {"ended", "gone"}

\* The registry agrees with GitHub, whichever answers were lost: only what was
\* merged is approved; and when the pump is done, what it merged is approved
\* or the administrator has a message, unless a restart came in between or
\* the message was not sent.
MergedIsSettled ==
    LET merged == \E i \in DOMAIN pulls : pulls[i].merged
    IN  /\ status = "approved" => merged
        /\ pump = "idle" /\ merged => status # "running" \/ unsettled
=============================================================================
