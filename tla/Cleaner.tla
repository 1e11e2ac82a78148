------------------------------ MODULE Cleaner ------------------------------
(***************************************************************************)
(* The machines of a pool's cloud, and the CleanUnknownWorker that removes *)
(* those resalloc does not know (resallocserver/manager.py).  The rows go  *)
(* through the states of Server, without tickets; the cloud is seen        *)
(* through the hooks cmd_new, cmd_delete and cmd_list.                     *)
(***************************************************************************)
EXTENDS Naturals, FiniteSets

CONSTANTS
  Resources,  \* rows, and the names of the machines started for them
  Strangers,  \* other names: machines of nobody, or a name cut short
  CatchLines, \* lines of cmd_list's output within catch_stdout_bytes
  MaxTerminators, \* bound of TerminateWorkers of one row
  MaxFaults   \* bound of failing hooks and restarts

ASSUME CleanerAssumption ==
  /\ Resources \cap Strangers = {}
  /\ CatchLines \in Nat /\ MaxTerminators \in Nat /\ MaxFaults \in Nat

VARIABLES
  rstate,    \* resources.state; UP stands for RELEASING, too
  instances, \* machines that exist
  creating,  \* machines a cmd_new process is about to create
  termNew,   \* TerminateWorkers that have not set DELETING yet
  termCmd,   \* TerminateWorkers at their cmd_delete
  job,       \* where CleanUnknownWorker.job() is
  all,       \* all_resources
  known,     \* known_resources
  faults

rows == <<rstate, instances, creating>>
workers == <<termNew, termCmd>>
cleaner == <<job, all, known>>
cleanerVars == <<rows, workers, cleaner, faults>>

Names == Resources \cup Strangers

(* Rows, machines and the worker's locals hold values of their types, and  *)
(* only a row that was allocated has a machine or will have one.           *)
CleanerTypeOK ==
  /\ rstate \in [Resources -> {"NONE", "STARTING", "UP", "DELETE_REQUEST", "DELETING",
                               "ENDED"}]
  /\ instances \subseteq Names /\ creating \subseteq Resources
  /\ termNew \in [Resources -> Nat] /\ termCmd \in [Resources -> Nat]
  /\ job \in {"idle", "list", "known", "delete"}
  /\ all \subseteq Names /\ known \subseteq Resources
  /\ faults \in Nat
  /\ \A r \in Resources : r \in instances \cup creating => rstate[r] # "NONE"

CleanerInit ==
  /\ rstate = [r \in Resources |-> "NONE"]
  /\ instances \in SUBSET Strangers
  /\ creating = {}
  /\ termNew = [r \in Resources |-> 0] /\ termCmd = [r \in Resources |-> 0]
  /\ job = "idle" /\ all = {} /\ known = {}
  /\ faults = 0

Fault ==
  /\ faults < MaxFaults
  /\ faults' = faults + 1

set_state(r, from, to) ==
  /\ rstate[r] = from
  /\ rstate' = [rstate EXCEPT ![r] = to]
  /\ UNCHANGED cleaner

-----------------------------------------------------------------------------
(* The life of a resource *)

(* Mutant: the hook is started before the row is committed *)
allocate_uncommitted(r) ==
  /\ rstate[r] = "NONE"
  /\ creating' = creating \cup {r}
  /\ UNCHANGED <<rstate, instances, workers, cleaner, faults>>

(* Pool.allocate(): the row is committed with its name before the hook is  *)
(* started.                                                                *)
allocate(r) ==
  /\ set_state(r, "NONE", "STARTING")
  /\ creating' = creating \cup {r}
  /\ UNCHANGED <<instances, workers, faults>>

cmd_new(r) ==
  /\ r \in creating
  /\ creating' = creating \ {r}
  /\ instances' = instances \cup {r}
  /\ UNCHANGED <<rstate, workers, cleaner, faults>>

AllocWorker_up(r) ==
  /\ r \in instances
  /\ set_state(r, "STARTING", "UP")
  /\ UNCHANGED <<instances, creating, workers, faults>>

(* cmd_new fails, with or without having left a machine behind. *)
AllocWorker_failed(r) ==
  /\ Fault
  /\ set_state(r, "STARTING", "ENDED")
  /\ creating' = creating \ {r}
  /\ UNCHANGED <<instances, workers>>

kill(r) ==
  /\ set_state(r, "UP", "DELETE_REQUEST")
  /\ UNCHANGED <<instances, creating, workers, faults>>

(* One more TerminateWorker in each cycle, until one has begun; a late one *)
(* deletes again what has ended.                                           *)
garbage_collector(r) ==
  /\ rstate[r] = "DELETE_REQUEST"
  /\ termNew[r] + termCmd[r] < MaxTerminators
  /\ termNew' = [termNew EXCEPT ![r] = @ + 1]
  /\ UNCHANGED <<rows, termCmd, cleaner, faults>>

TerminateWorker_job(r) ==
  /\ termNew[r] > 0
  /\ termNew' = [termNew EXCEPT ![r] = @ - 1]
  /\ termCmd' = [termCmd EXCEPT ![r] = @ + 1]
  /\ set_state(r, rstate[r], "DELETING")
  /\ UNCHANGED <<instances, creating, faults>>

cmd_delete(r) ==
  /\ termCmd[r] > 0
  /\ instances' = instances \ {r}
  /\ UNCHANGED <<rstate, creating, workers, cleaner, faults>>

(* Nobody looks at the status of cmd_delete. *)
TerminateWorker_close(r) ==
  /\ termCmd[r] > 0
  /\ \/ r \notin instances /\ UNCHANGED faults
     \/ r \in instances /\ Fault
  /\ termCmd' = [termCmd EXCEPT ![r] = @ - 1]
  /\ set_state(r, rstate[r], "ENDED")
  /\ UNCHANGED <<instances, creating, termNew>>

-----------------------------------------------------------------------------
(* CleanUnknownWorker *)

(* Mutant: the rows are listed before the machines *)
after_swapped == [idle |-> "known", known |-> "list", list |-> "delete"]

after == [idle |-> "list", list |-> "known", known |-> "delete"]

(* Pool._clean_unknown_resources(): half an hour has passed. *)
clean_unknown_resources ==
  /\ job = "idle"
  /\ job' = after["idle"]
  /\ UNCHANGED <<rows, workers, all, known, faults>>

(* What is captured of cmd_list: whole lines within the limit, when it     *)
(* ends; fewer lines and perhaps a last one cut short, when it does not.   *)
captured(listing) ==
  /\ listing \subseteq instances
  /\ Cardinality(listing) =
       IF Cardinality(instances) < CatchLines THEN Cardinality(instances) ELSE CatchLines

list_all_resources(listing) ==
  /\ job = "list"
  /\ \/ captured(listing) /\ UNCHANGED faults
     \/ listing \subseteq instances \cup Strangers /\ ~captured(listing) /\ Fault
  /\ all' = listing
  /\ job' = after["list"]
  /\ UNCHANGED <<rows, workers, known>>

(* Mutant: only resources in use are known *)
on_up == {r \in Resources : rstate[r] = "UP"}

(* Mutant: all rows are known *)
on_all == {r \in Resources : rstate[r] # "NONE"}

on == {r \in Resources : rstate[r] \notin {"NONE", "ENDED"}}

list_known_resources ==
  /\ job = "known"
  /\ known' = on
  /\ job' = after["known"]
  /\ UNCHANGED <<rows, workers, all, faults>>

(* cmd_delete of one unknown machine after the other, or the job is over. *)
delete_unknown(x) ==
  /\ job = "delete"
  /\ x \in all \ known
  /\ all' = all \ {x}
  /\ \/ instances' = instances \ {x} /\ UNCHANGED faults
     \/ UNCHANGED instances /\ Fault
  /\ UNCHANGED <<rstate, creating, workers, job, known>>

job_ends ==
  /\ job = "delete"
  /\ all \ known = {}
  /\ job' = "idle" /\ all' = {} /\ known' = {}
  /\ UNCHANGED <<rows, workers, faults>>

-----------------------------------------------------------------------------
(* The server is started again: rows of workers that are no more are       *)
(* deleted; a cmd_new process may live on and create its machine later.    *)
restart ==
  /\ Fault
  /\ rstate' = [r \in Resources |->
                  IF rstate[r] \in {"STARTING", "DELETING"} THEN "DELETE_REQUEST"
                  ELSE rstate[r]]
  /\ creating' \in SUBSET creating
  /\ termNew' = [r \in Resources |-> 0] /\ termCmd' = [r \in Resources |-> 0]
  /\ job' = "idle" /\ all' = {} /\ known' = {}
  /\ UNCHANGED instances

CleanUnknownWorker ==
  \/ clean_unknown_resources \/ list_known_resources \/ job_ends
  \/ \E listing \in SUBSET Names : list_all_resources(listing)
  \/ \E x \in Names : delete_unknown(x)

CleanerNext ==
  \/ CleanUnknownWorker
  \/ \E r \in Resources : \/ allocate(r) \/ cmd_new(r) \/ AllocWorker_up(r)
                          \/ AllocWorker_failed(r) \/ kill(r) \/ garbage_collector(r)
                          \/ TerminateWorker_job(r) \/ cmd_delete(r)
                          \/ TerminateWorker_close(r)
  \/ restart

CleanerSpec == CleanerInit /\ [][CleanerNext]_cleanerVars

(* The manager starts the worker every half an hour, and hooks end. *)
CleanerFairSpec == CleanerSpec /\ WF_cleanerVars(CleanUnknownWorker)

-----------------------------------------------------------------------------
(* A machine that is up stays: whatever the cleaner listed, and whenever,  *)
(* it deletes no machine of a row that has not ended.                      *)
UpHasInstance == \A r \in Resources : rstate[r] = "UP" => r \in instances

(* What it is about to delete belongs to no row that is starting, either,  *)
(* so that a start never ends UP without its machine: the row has ended,   *)
(* and only a late TerminateWorker may still be at it.                     *)
OnlyEndedAreUnknown ==
  job = "delete" =>
    \A r \in (all \ known) \cap Resources : rstate[r] \in {"DELETING", "ENDED"}

(* Machines left over by failed hooks, by a cmd_new that outlived its      *)
(* server, or by others do not stay, if cmd_list's output is within the    *)
(* limit; what a late TerminateWorker takes up is its own.                 *)
LeftoversAreRemoved ==
  \A x \in Names :
    (x \in instances /\ (x \in Resources => rstate[x] = "ENDED"))
      ~> (x \notin instances \/ (x \in Resources /\ rstate[x] = "DELETING"))
=============================================================================
