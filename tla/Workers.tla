------------------------------- MODULE Workers -------------------------------
(***************************************************************************)
(* The background threads the manager starts: AllocWorker, ReleaseWorker   *)
(* and TerminateWorker of resallocserver/manager.py.  Each runs one hook   *)
(* command of the pool and writes its outcome into the row of one          *)
(* resource.  A hook lasts arbitrarily long, so the start of the thread    *)
(* and the transaction after the hook are separate steps.                  *)
(*                                                                         *)
(* budget bounds what the environment does to the server: hooks that fail, *)
(* workers that die of an exception, restarts of the server, and           *)
(* resource-delete commands of the administrator, in any combination.      *)
(***************************************************************************)
EXTENDS Database

CONSTANTS
  MaxTerminators,  \* bound: live TerminateWorkers of one resource
  Faults,          \* the kinds of events the budget may be spent on
  MaxFaults        \* bound: the initial budget

FaultKinds == {"cmd_new", "cmd_release", "livecheck", "worker", "restart", "delete"}

ASSUME BoundsAssumption ==
  /\ MaxTerminators \in Nat \ {0}
  /\ Faults \subseteq FaultKinds
  /\ MaxFaults \in Nat

VARIABLES
  allocating,  \* resources whose AllocWorker runs
  releasing,   \* resources whose ReleaseWorker runs
  termNew,     \* per resource, TerminateWorkers that have not begun job()
  termCmd,     \* per resource, TerminateWorkers that run cmd_delete
  unclean,     \* history: resources whose last cmd_release failed
  budget       \* what is left of MaxFaults

workerVars == <<allocating, releasing, termNew, termCmd>>
envVars == <<unclean, budget>>

WorkersTypeOK ==
  /\ allocating \in SUBSET Resources
  /\ releasing \in SUBSET Resources
  /\ termNew \in [Resources -> Nat]
  /\ termCmd \in [Resources -> Nat]
  /\ unclean \in SUBSET Resources
  /\ budget \in Nat

NoWorkers(alloc, release, new, cmd) ==
  /\ alloc = {}
  /\ release = {}
  /\ new = [r \in Resources |-> 0]
  /\ cmd = [r \in Resources |-> 0]

WorkersInit ==
  /\ NoWorkers(allocating, releasing, termNew, termCmd)
  /\ unclean = {}
  /\ budget = MaxFaults

Spend(kind) == kind \in Faults /\ budget > 0 /\ budget' = budget - 1

-----------------------------------------------------------------------------
(* AllocWorker.job() when cmd_new ends well: the resource is UP. *)
AllocWorker_up(r) ==
  /\ r \in allocating
  /\ allocating' = allocating \ {r}
  /\ rstate' = [rstate EXCEPT ![r] = "UP"]
  /\ UNCHANGED <<rpool, rticket, rsandbox, rreleases, rfailed, slotRows, ticketRows,
                 releasing, termNew, termCmd, envVars>>

(* Mutant: a state of tickets, not of resources *)
AllocWorker_failed_state(r) ==
  /\ r \in allocating
  /\ Spend("cmd_new")
  /\ allocating' = allocating \ {r}
  /\ rstate' = [rstate EXCEPT ![r] = "FAILED"]
  /\ delete_slots(r)
  /\ UNCHANGED <<rpool, rticket, rsandbox, rreleases, rfailed, ticketRows,
                 releasing, termNew, termCmd, unclean>>

(* AllocWorker.job() when cmd_new fails: the row ends and gives up its     *)
(* pool id and its counters; cmd_delete is not run.                        *)
AllocWorker_failed(r) ==
  /\ r \in allocating
  /\ Spend("cmd_new")
  /\ allocating' = allocating \ {r}
  /\ rstate' = [rstate EXCEPT ![r] = "ENDED"]
  /\ delete_slots(r)
  /\ UNCHANGED <<rpool, rticket, rsandbox, rreleases, rfailed, ticketRows,
                 releasing, termNew, termCmd, unclean>>

(* Mutant: the counter does not exceed reuse_max_count *)
ReleaseWorker_job_off_by_one(r, ok) ==
  /\ r \in releasing
  /\ releasing' = releasing \ {r}
  /\ rstate' = [rstate EXCEPT ![r] = "UP"]
  /\ unclean' = IF ok THEN unclean \ {r} ELSE unclean \cup {r}
  /\ IF ok THEN UNCHANGED <<rreleases, budget>>
           ELSE /\ Spend("cmd_release")
                /\ rreleases' = [rreleases EXCEPT
                                   ![r] = Config[rpool[r]].reuse_max_count]
  /\ UNCHANGED <<rpool, rticket, rsandbox, rfailed, slotRows, ticketRows,
                 allocating, termNew, termCmd>>

(* ReleaseWorker.job() after cmd_release ended well or failed.  A failure  *)
(* is recorded only in releases_counter.                                   *)
ReleaseWorker_job(r, ok) ==
  /\ r \in releasing
  /\ releasing' = releasing \ {r}
  /\ rstate' = [rstate EXCEPT ![r] = "UP"]
  /\ unclean' = IF ok THEN unclean \ {r} ELSE unclean \cup {r}
  /\ IF ok THEN UNCHANGED <<rreleases, budget>>
           ELSE /\ Spend("cmd_release")
                /\ rreleases' = [rreleases EXCEPT
                                   ![r] = Config[rpool[r]].reuse_max_count + 1]
  /\ UNCHANGED <<rpool, rticket, rsandbox, rfailed, slotRows, ticketRows,
                 allocating, termNew, termCmd>>

open_ticket(r) == rticket[r] # None /\ tstate[rticket[r]] = "OPEN"

(* Mutants: the ticket is not looked at, or its state is not *)
TerminateWorker_job_unchecked(r) ==
  /\ termNew[r] > 0
  /\ termNew' = [termNew EXCEPT ![r] = @ - 1]
  /\ rstate' = [rstate EXCEPT ![r] = "DELETING"]
  /\ termCmd' = [termCmd EXCEPT ![r] = @ + 1]
  /\ UNCHANGED <<rpool, rticket, rsandbox, rreleases, rfailed, slotRows, ticketRows,
                 allocating, releasing, envVars>>

TerminateWorker_job_any_ticket(r) ==
  /\ termNew[r] > 0
  /\ termNew' = [termNew EXCEPT ![r] = @ - 1]
  /\ IF rticket[r] # None
     THEN UNCHANGED <<rstate, termCmd>>
     ELSE /\ rstate' = [rstate EXCEPT ![r] = "DELETING"]
          /\ termCmd' = [termCmd EXCEPT ![r] = @ + 1]
  /\ UNCHANGED <<rpool, rticket, rsandbox, rreleases, rfailed, slotRows, ticketRows,
                 allocating, releasing, envVars>>

(* TerminateWorker.job() up to cmd_delete: it refuses to delete a resource *)
(* whose ticket is open, and looks at nothing else.                        *)
TerminateWorker_job(r) ==
  /\ termNew[r] > 0
  /\ termNew' = [termNew EXCEPT ![r] = @ - 1]
  /\ IF open_ticket(r)
     THEN UNCHANGED <<rstate, termCmd>>
     ELSE /\ rstate' = [rstate EXCEPT ![r] = "DELETING"]
          /\ termCmd' = [termCmd EXCEPT ![r] = @ + 1]
  /\ UNCHANGED <<rpool, rticket, rsandbox, rreleases, rfailed, slotRows, ticketRows,
                 allocating, releasing, envVars>>

(* TerminateWorker.close(), whatever the exit status of cmd_delete was *)
TerminateWorker_close(r) ==
  /\ termCmd[r] > 0
  /\ termCmd' = [termCmd EXCEPT ![r] = @ - 1]
  /\ rstate' = [rstate EXCEPT ![r] = "ENDED"]
  /\ delete_slots(r)
  /\ UNCHANGED <<rpool, rticket, rsandbox, rreleases, rfailed, ticketRows,
                 allocating, releasing, termNew, envVars>>

(* Worker.run() re-raises what job() raised (a database error): the thread *)
(* ends, its transaction is rolled back and nobody restarts it.            *)
Worker_run_raises(r) ==
  /\ Spend("worker")
  /\ \/ /\ r \in allocating
        /\ allocating' = allocating \ {r}
        /\ UNCHANGED <<releasing, termNew, termCmd>>
     \/ /\ r \in releasing
        /\ releasing' = releasing \ {r}
        /\ UNCHANGED <<allocating, termNew, termCmd>>
     \/ /\ termNew[r] > 0
        /\ termNew' = [termNew EXCEPT ![r] = @ - 1]
        /\ UNCHANGED <<allocating, releasing, termCmd>>
     \/ /\ termCmd[r] > 0
        /\ termCmd' = [termCmd EXCEPT ![r] = @ - 1]
        /\ UNCHANGED <<allocating, releasing, termNew>>
  /\ UNCHANGED <<dbVars, unclean>>

(* The three kinds of threads *)
AllocWorker(r) == AllocWorker_up(r) \/ AllocWorker_failed(r)
ReleaseWorker(r) == \E ok \in BOOLEAN : ReleaseWorker_job(r, ok)
TerminateWorker(r) == TerminateWorker_job(r) \/ TerminateWorker_close(r)
=============================================================================
