------------------------------- MODULE Server -------------------------------
(***************************************************************************)
(* The resalloc server and who acts on it: the manager thread and its      *)
(* workers, the watcher thread, the XML-RPC API (resallocserver/api.py),   *)
(* the administrator's resource-delete command (resallocserver/maint.py),  *)
(* a process of its own that shares only the database, and the restart of  *)
(* the server (resallocserver/main.py).                                    *)
(***************************************************************************)
EXTENDS Manager

CONSTANTS
  Requests,    \* what clients ask for: records [tags, sandbox]
  MaintModes   \* forms of resource-delete in use: subset of {"ids", "all", "unused"}

ASSUME RequestsAssumption ==
  Requests \subseteq [tags : SUBSET Tags, sandbox : Sandboxes \cup {NoSandbox}]

ASSUME MaintModesAssumption == MaintModes \subseteq {"ids", "all", "unused"}

VARIABLES
  watch,  \* Watcher.loop(): resources of to_check still to be checked
  maint   \* resource_delete(): how it was called, and the ids left to kill

vars == <<dbVars, workerVars, envVars, managerVars, watch, maint>>

NoMaint == [mode |-> "idle", todo |-> {}]

(* The columns, threads and locals hold values of their types. *)
TypeOK ==
  /\ DatabaseTypeOK
  /\ WorkersTypeOK
  /\ ManagerTypeOK
  /\ watch \in SUBSET Resources
  /\ maint \in [mode : {"idle", "ids", "all", "unused"}, todo : SUBSET Resources]

Init ==
  /\ DatabaseInit
  /\ WorkersInit
  /\ FreshManager(mpc, mpool, demand, mclosed, mtickets, mready, mpick)
  /\ watch = {}
  /\ maint = NoMaint

-----------------------------------------------------------------------------
(* ServerAPI *)

takeTicket(t, request) ==
  /\ tstate[t] = "NONE"
  /\ \A u \in 1..(t - 1) : tstate[u] # "NONE"
  /\ tstate' = [tstate EXCEPT ![t] = "OPEN"]
  /\ ttags' = [ttags EXCEPT ![t] = request.tags]
  /\ tsandbox' = [tsandbox EXCEPT ![t] = request.sandbox]
  /\ UNCHANGED <<resourceRows, slotRows, tres, workerVars, envVars, managerVars,
                 watch, maint>>

closeTicket(t) ==
  /\ tstate[t] \in {"OPEN", "FAILED"}
  /\ tstate' = [tstate EXCEPT ![t] = "CLOSED"]
  /\ UNCHANGED <<resourceRows, slotRows, tres, tsandbox, ttags, workerVars, envVars,
                 managerVars, watch, maint>>

-----------------------------------------------------------------------------
(* The watcher thread *)

(* The resources to check: some were checked within livecheck_period. *)
Watcher_loop(due) ==
  /\ watch = {}
  /\ due # {}
  /\ watch' = due
  /\ UNCHANGED <<dbVars, workerVars, envVars, managerVars, maint>>

(* Mutant: a success does not reset check_failed_count *)
Watcher_check_no_reset(r, ok) ==
  /\ r \in watch
  /\ watch' = watch \ {r}
  /\ IF ok THEN UNCHANGED <<rfailed, budget>>
           ELSE rfailed' = [rfailed EXCEPT ![r] = @ + 1] /\ Spend("livecheck")
  /\ UNCHANGED <<rstate, rpool, rticket, rsandbox, rreleases, slotRows, ticketRows,
                 workerVars, unclean, managerVars, maint>>

(* A resource of the list is checked, whatever became of it meanwhile.     *)
Watcher_check(r, ok) ==
  /\ r \in watch
  /\ watch' = watch \ {r}
  /\ IF ok THEN rfailed' = [rfailed EXCEPT ![r] = 0] /\ UNCHANGED budget
           ELSE rfailed' = [rfailed EXCEPT ![r] = @ + 1] /\ Spend("livecheck")
  /\ UNCHANGED <<rstate, rpool, rticket, rsandbox, rreleases, slotRows, ticketRows,
                 workerVars, unclean, managerVars, maint>>

to_check == {r \in UNION {up(p) : p \in Pools} : Config[rpool[r]].cmd_livecheck}

-----------------------------------------------------------------------------
(* The ids that resource_delete() works through: given on the command      *)
(* line, where several ids are as good as several commands, or listed.     *)
delete_lists(mode) ==
  CASE mode = "ids"    -> {{r} : r \in {q \in Resources : rstate[q] # "NONE"}}
    [] mode = "all"    -> {UNION {up(p) : p \in Pools}}
    [] mode = "unused" -> {UNION {ready(p) : p \in Pools}}

(* Maintainer.resource_delete() lists the resources in one session ... *)
resource_delete(mode, todo) ==
  /\ maint.todo = {}
  /\ Spend("delete")
  /\ todo # {}
  /\ maint' = [mode |-> mode, todo |-> todo]
  /\ UNCHANGED <<dbVars, workerVars, unclean, managerVars, watch>>

(* ... and kills each of them in a session of its own. *)
resource_delete_kill(r) ==
  /\ r \in maint.todo
  /\ tstate' = killed_tickets({r})
  /\ rstate' = killed_resources({r})
  /\ maint' = IF maint.todo = {r} THEN NoMaint
              ELSE [maint EXCEPT !.todo = @ \ {r}]
  /\ UNCHANGED <<rpool, rticket, rsandbox, rreleases, rfailed, slotRows, tres,
                 tsandbox, ttags, workerVars, envVars, managerVars, watch>>

-----------------------------------------------------------------------------
(* The server stops at any point, with all its threads, and main() starts  *)
(* it again; the resource-delete process lives on.                         *)
restart ==
  /\ Spend("restart")
  /\ fix_broken_after_restart
  /\ NoWorkers(allocating', releasing', termNew', termCmd')
  /\ FreshManager(mpc', mpool', demand', mclosed', mtickets', mready', mpick')
  /\ watch' = {}
  /\ UNCHANGED <<rpool, rticket, rsandbox, rreleases, rfailed, slotRows, ticketRows,
                 unclean, maint>>

Manager_step == ManagerStep /\ UNCHANGED <<watch, maint>>

Worker_step(r) ==
  /\ AllocWorker(r) \/ ReleaseWorker(r) \/ TerminateWorker(r) \/ Worker_run_raises(r)
  /\ UNCHANGED <<managerVars, watch, maint>>

Watcher_step ==
  \/ \E due \in SUBSET to_check : Watcher_loop(due)
  \/ \E r \in Resources, ok \in BOOLEAN : Watcher_check(r, ok)

Next ==
  \/ Manager_step
  \/ \E r \in Resources : Worker_step(r)
  \/ Watcher_step
  \/ \E t \in Tickets : (\E request \in Requests : takeTicket(t, request)) \/ closeTicket(t)
  \/ \E mode \in MaintModes : \E todo \in delete_lists(mode) : resource_delete(mode, todo)
  \/ \E r \in Resources : resource_delete_kill(r)
  \/ restart

Spec == Init /\ [][Next]_vars

(***************************************************************************)
(* Fairness.  The manager and the watcher are loops that sleep for a       *)
(* bounded time, the hooks of the workers end.  Time passes: a resource    *)
(* that nobody takes is late in some later pass, start_delay is over when  *)
(* the pool is looked at often enough, and so is livecheck_period.  What   *)
(* clients, administrators and failures do is not fair.                    *)
(***************************************************************************)
Hooks_end(r) ==
  LET others == <<managerVars, watch, maint>>
  IN  /\ WF_vars(AllocWorker(r) /\ UNCHANGED others)
      /\ WF_vars(ReleaseWorker(r) /\ UNCHANGED others)
      /\ WF_vars(TerminateWorker_job(r) /\ UNCHANGED others)
      /\ WF_vars(TerminateWorker_close(r) /\ UNCHANGED others)

Time_passes ==
  /\ \A p \in {q \in Pools : Config[q].reuse} :
       SF_vars(/\ mpool = p
               /\ request_resource_removal(clean_candidates(p))
               /\ UNCHANGED <<watch, maint>>)
  /\ \A p \in {q \in Pools : Config[q].start_delay} :
       SF_vars(/\ mpool = p
               /\ \E r \in Resources : allocate(r)
               /\ UNCHANGED <<watch, maint>>)
  /\ SF_vars(Watcher_loop(to_check))

Fairness ==
  /\ WF_vars(Manager_step)
  /\ \A r \in Resources : Hooks_end(r)
  /\ \A r \in Resources : WF_vars(\E ok \in BOOLEAN : Watcher_check(r, ok))
  /\ Time_passes

FairSpec == Spec /\ Fairness
=============================================================================
