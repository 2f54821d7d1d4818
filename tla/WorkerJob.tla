----------------------------- MODULE WorkerJob -----------------------------
(***************************************************************************)
(* The jobs of code workers (src/src/agents/worker.py).  A thread of the   *)
(* service writes the assignment into a directory, starts a docker client  *)
(* whose container runs a coding agent, and polls the client and the       *)
(* result file until one of them or the clock ends the wait.  Stopping the *)
(* client does not stop the container: bash, its first process, ignores    *)
(* SIGTERM, and the client is then killed.                                 *)
(*                                                                         *)
(* A poll looks at the client, then at the file, then at the clock; it is  *)
(* one step here.  What the agent does, how it ends and what it prints are *)
(* free choices.                                                           *)
(***************************************************************************)
EXTENDS FiniteSets

CONSTANTS
    Jobs            \* the worker calls of a behaviour (a bound of the model)

VARIABLES
    thread,         \* where the thread of a job is
    box,            \* where its container is
    exit,           \* how its agent ended
    file,           \* the result file in a directory
    report          \* the status the thread reports

jobVars == <<thread, box, exit, file, report>>

ThreadPlaces == {"none", "prepare", "poll", "grace", "report", "ended", "gone"}
BoxPlaces == {"none", "agent", "copied", "exited"}
Outputs == {"none", "text", "json"}

\* The directory of a job: <task>__<subworker>, a new subworker id per call.
Directory(j) == j

JobTypeOK ==
    /\ thread \in [Jobs -> ThreadPlaces]
    /\ box \in [Jobs -> BoxPlaces]
    /\ exit \in [Jobs -> {"none", "ok", "bad"}]
    /\ file \in [Jobs -> Outputs]
    /\ report \in [Jobs -> {"none", "completed", "failed"}]

JobInit ==
    /\ thread = [j \in Jobs |-> "none"]
    /\ box = [j \in Jobs |-> "none"]
    /\ exit = [j \in Jobs |-> "none"]
    /\ file = [j \in Jobs |-> "none"]
    /\ report = [j \in Jobs |-> "none"]

Goto(j, place) == thread' = [thread EXCEPT ![j] = place]

Reports(j, status) ==
    /\ report' = [report EXCEPT ![j] = status]
    /\ Goto(j, "report")
    /\ UNCHANGED <<box, exit, file>>

-----------------------------------------------------------------------------
(* The container *)

\* The agent ends and its final message is copied to the result file; or the
\* script ends before it, for want of a configuration.
AgentEnds(j, code, output) ==
    /\ box[j] = "agent"
    /\ output = "none" => code = "bad"
    /\ exit' = [exit EXCEPT ![j] = code]
    /\ file' = [file EXCEPT ![Directory(j)] = IF output = "none" THEN @ ELSE output]
    /\ box' = [box EXCEPT ![j] = IF output = "none" THEN "exited" ELSE "copied"]
    /\ UNCHANGED <<thread, report>>

\* The script has copied the logs: the client ends with the agent's status.
BoxExits(j) ==
    /\ box[j] = "copied"
    /\ box' = [box EXCEPT ![j] = "exited"]
    /\ UNCHANGED <<thread, exit, file, report>>

-----------------------------------------------------------------------------
(* The thread *)

\* CallCodeWorkerTool writes the assignment and starts the thread.
StartJob(j) ==
    /\ thread[j] = "none"
    /\ Goto(j, "prepare")
    /\ UNCHANGED <<box, exit, file, report>>

\* A check fails (docker, image, files), or docker cannot be started.
PrepareFails(j) ==
    /\ thread[j] = "prepare"
    /\ Reports(j, "failed")

Launch(j) ==
    /\ thread[j] = "prepare"
    /\ Goto(j, "poll")
    /\ box' = [box EXCEPT ![j] = "agent"]
    /\ UNCHANGED <<exit, file, report>>

\* Mutant of StatusOfExit: whatever the agent printed counts.
StatusOfOutput(j) == IF file[Directory(j)] # "none" THEN "completed" ELSE "failed"

\* The status of a job whose client has ended by itself.
StatusOfExit(j) == IF exit[j] = "ok" THEN "completed" ELSE "failed"

\* A poll finds that the client has ended.
PollFindsExit(j) ==
    /\ thread[j] \in {"poll", "grace"}
    /\ box[j] = "exited"
    /\ Reports(j, StatusOfExit(j))

\* A poll finds a JSON object: the client gets five seconds to end.
PollFindsResult(j) ==
    /\ thread[j] = "poll"
    /\ box[j] # "exited"
    /\ file[Directory(j)] = "json"
    /\ Goto(j, "grace")
    /\ UNCHANGED <<box, exit, file, report>>

\* The client has not ended: it is stopped, and the job counts as completed.
ForceStop(j) ==
    /\ thread[j] = "grace"
    /\ box[j] # "exited"
    /\ Reports(j, "completed")

\* Mutant of TimesOut: the clock is looked at once there is a file.
TimesOutWithFile(j) ==
    /\ thread[j] = "poll"
    /\ box[j] # "exited"
    /\ file[Directory(j)] = "text"
    /\ Reports(j, "failed")

\* The deadline passes: the client is stopped, the container is left alone.
TimesOut(j) ==
    /\ thread[j] = "poll"
    /\ box[j] # "exited"
    /\ file[Directory(j)] # "json"
    /\ Reports(j, "failed")

\* The report is stored and the thread ends; AutoMerge has the event it pushes.
ThreadEnds(j) ==
    /\ thread[j] = "report"
    /\ Goto(j, "ended")
    /\ UNCHANGED <<box, exit, file, report>>

ThreadStep(j) ==
    \/ PrepareFails(j) \/ Launch(j)
    \/ PollFindsExit(j) \/ PollFindsResult(j) \/ ForceStop(j) \/ TimesOut(j)

\* The service restarts: its threads are gone, containers are not.
ThreadsDie ==
    /\ thread' = [j \in Jobs |-> IF thread[j] \in {"none", "ended"} THEN thread[j] ELSE "gone"]
    /\ UNCHANGED <<box, exit, file, report>>

\* A completed job is over: its agent has ended, well or with a JSON object
\* in a file of the job's own.
JobCompletedIsDone ==
    \A j \in Jobs : report[j] = "completed" =>
        /\ box[j] \in {"copied", "exited"}
        /\ exit[j] = "ok" \/ file[Directory(j)] = "json"
=============================================================================
