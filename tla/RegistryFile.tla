---------------------------- MODULE RegistryFile ----------------------------
(***************************************************************************)
(* registry.json, the table of incidents                                   *)
(* (src/src/app/incident_registry.py).  Every change loads the whole file, *)
(* edits one entry and writes the whole file back, without a lock.  The    *)
(* event loop (ingest, watcher, hook pump) makes its calls one at a time,  *)
(* but the leader's graph node and the administrator's routes call from    *)
(* threads, in the middle of them.                                         *)
(*                                                                         *)
(* write_text empties the file and then fills it: a reader in between      *)
(* finds no JSON, and takes that for an empty table.  Two writers that     *)
(* both emptied the file write over each other, and the longer text shows  *)
(* behind the shorter.                                                     *)
(***************************************************************************)
EXTENDS Naturals

CONSTANTS
    Fingerprints,   \* the incidents
    Writers,        \* those who may be in a call at the same time
    MaxTime         \* the clock stops here (a bound)

VARIABLES
    file,           \* what the file holds
    call,           \* the call a writer is in
    verdict,        \* history: the status last written for an incident, by whom
    lossy           \* history: a writer wrote back a table that was out of date

registryVars == <<file, call, verdict, lossy>>

Statuses == {"none", "new", "triaged", "running", "deployed", "resolved",
             "regressed", "suppressed"}
\* deployed_at, 0 if it is empty.
Entries == [status : Statuses, deployed : 0..MaxTime]
Tables == [Fingerprints -> Entries]
Nobody == "nobody"

NoEntry == [status |-> "none", deployed |-> 0]
NoTable == [f \in Fingerprints |-> NoEntry]
NoCall == [at |-> "idle", of |-> {}, table |-> NoTable, stale |-> FALSE]

RegistryTypeOK ==
    /\ file \in [text : {"whole", "empty", "garbled"}, table : Tables]
    /\ call \in [Writers -> [at : {"idle", "open", "write"}, of : SUBSET Fingerprints,
                             table : Tables, stale : BOOLEAN]]
    /\ verdict \in [Fingerprints -> [status : Statuses, by : Writers \cup {Nobody}]]
    /\ lossy \in BOOLEAN

RegistryInit ==
    /\ file = [text |-> "whole", table |-> NoTable]
    /\ call = [w \in Writers |-> NoCall]
    /\ verdict = [f \in Fingerprints |-> [status |-> "none", by |-> Nobody]]
    /\ lossy = FALSE

-----------------------------------------------------------------------------
\* _load: whatever is not JSON is an empty table.
Loaded == IF file.text = "whole" THEN file.table ELSE NoTable

\* The fields of a call: a new status or none, a deployment time or none.
Touch == [status |-> "none", deployed |-> 0]
SetTo(s) == [status |-> s, deployed |-> 0]

\* Mutant of Edited: what is not among the fields is lost.
EditedAnew(entry, fields) ==
    [status   |-> IF fields.status # "none" THEN fields.status
                  ELSE IF entry.status = "none" THEN "new" ELSE entry.status,
     deployed |-> fields.deployed]

\* The entry after entry.update(fields); one that was missing begins as new.
Edited(entry, fields) ==
    [status   |-> IF fields.status # "none" THEN fields.status
                  ELSE IF entry.status = "none" THEN "new" ELSE entry.status,
     deployed |-> IF fields.deployed # 0 THEN fields.deployed ELSE entry.deployed]

Idle(w) == call[w].at = "idle"

\* Mutant of Upsert: the table is written with the edited entry only.
UpsertAlone(w, f, fields) ==
    /\ Idle(w)
    /\ call' = [call EXCEPT ![w] = [at    |-> "open",
                                    of    |-> {f},
                                    table |-> [NoTable EXCEPT ![f] = Edited(Loaded[f], fields)],
                                    stale |-> file.text # "whole"]]
    /\ UNCHANGED <<file, verdict, lossy>>

\* upsert (set_status, increment) loads the table and edits it in memory.
Upsert(w, f, fields) ==
    /\ Idle(w)
    /\ call' = [call EXCEPT ![w] = [at    |-> "open",
                                    of    |-> {f},
                                    table |-> [Loaded EXCEPT ![f] = Edited(@, fields)],
                                    stale |-> file.text # "whole"]]
    /\ UNCHANGED <<file, verdict, lossy>>

\* _save opens the file, which empties it, under the calls of the others.
Open(w) ==
    /\ call[w].at = "open"
    /\ file' = [file EXCEPT !.text = "empty"]
    /\ call' = [v \in Writers |->
                  IF v = w THEN [call[w] EXCEPT !.at = "write"]
                  ELSE [call[v] EXCEPT !.stale = call[v].at # "idle"]]
    /\ UNCHANGED <<verdict, lossy>>

\* ... and fills it.  If another writer has filled it since, the texts mix,
\* unless this one is at least as long.
Write(w) ==
    /\ call[w].at = "write"
    /\ \E text \in {"whole", "garbled"} :
        /\ text = "garbled" => file.text # "empty"
        /\ file' = [text |-> text, table |-> call[w].table]
        /\ lossy' = (lossy \/ call[w].stale \/ text = "garbled")
    /\ call' = [v \in Writers |->
                  IF v = w THEN NoCall
                  ELSE [call[v] EXCEPT !.stale = call[v].at # "idle"]]
    /\ verdict' = [f \in Fingerprints |->
                     IF f \in call[w].of
                     THEN [status |-> call[w].table[f].status, by |-> w]
                     ELSE verdict[f]]

\* The file cannot be opened: the call raises.
Raises(w) ==
    /\ call[w].at = "open"
    /\ call' = [call EXCEPT ![w] = NoCall]
    /\ UNCHANGED <<file, verdict, lossy>>

\* The process dies.  It may leave an empty file.
CallsDie ==
    /\ call' = [w \in Writers |-> NoCall]
    /\ lossy' = (lossy \/ \E w \in Writers : call[w].at = "write")
    /\ UNCHANGED <<file, verdict>>

-----------------------------------------------------------------------------
\* The table holds, for every incident, the status that was written last,
\* whatever the order of calls; it is lost only if a call began before, and
\* ended after, another one wrote, or if the process died in the middle.
TableHolds ==
    lossy \/ IF file.text = "whole"
             THEN \A f \in Fingerprints : file.table[f].status = verdict[f].status
             ELSE \E w \in Writers : call[w].at = "write"
=============================================================================
