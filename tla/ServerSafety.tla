---------------------------- MODULE ServerSafety ----------------------------
(***************************************************************************)
(* Proofs of the safety properties of ServerProperties, for every          *)
(* configuration and all bounds.                                           *)
(***************************************************************************)
EXTENDS ServerTypes, ServerProperties

Links ==
  /\ LinksAgree
  /\ OpenTicketKeepsResource
  /\ \A t \in Tickets :
       /\ tstate[t] = "NONE" => tres[t] = None
       /\ tstate[t] = "FAILED" => tres[t] # None
  /\ \A r \in Resources :
       rstate[r] \in {"NONE", "STARTING", "RELEASING"} => rticket[r] = None

(* What the threads are doing shows in the state of the resource. *)
Threads ==
  \A r \in Resources :
    /\ r \in allocating => rstate[r] = "STARTING"
    /\ r \in releasing => rstate[r] = "RELEASING"
    /\ termNew[r] > 0 => rstate[r] \in {"DELETE_REQUEST", "DELETING", "ENDED"}
    /\ termCmd[r] > 0 => rstate[r] \in {"DELETING", "ENDED"}

(* A row that the manager is about to write: kill() may have come between, *)
(* but no TerminateWorker has.                                             *)
Undisturbed(r) ==
  rstate[r] \in {"UP", "DELETE_REQUEST"} /\ termNew[r] = 0 /\ termCmd[r] = 0

(* What detect_closed_tickets() read still holds when it commits. *)
Closed ==
  /\ mpc # "release" => mclosed = {}
  /\ \A r \in mclosed :
       /\ Undisturbed(r)
       /\ rticket[r] # None
       /\ tstate[rticket[r]] = "CLOSED"

(* What the session of a ticket in _assign_tickets() read still holds when *)
(* it commits, and the tickets of the list are still without a resource.   *)
Picked ==
  mpc = "commit" =>
    LET t == mpick.ticket
        r == mpick.res
    IN  /\ Undisturbed(r)
        /\ rticket[r] = None
        /\ tres[t] = None
        /\ tstate[t] # "NONE"
        /\ rsandbox[r] \in {NoSandbox, tsandbox[t]}
        /\ t \notin mtickets

Queued == \A t \in mtickets : tres[t] = None /\ tstate[t] # "NONE"

(* A resource carries the sandbox of all the tickets it worked for. *)
SandboxesAgree ==
  \A t \in Tickets :
    /\ tres[t] # None => tsandbox[t] = rsandbox[tres[t]] /\ tsandbox[t] # NoSandbox
    /\ tsandbox[t] \in Tickets => tsandbox[t] = t

IInv == Links /\ Threads /\ Closed /\ Picked /\ Queued /\ SandboxesAgree

LEMMA InitSafe == Init => IInv
<1> SUFFICES ASSUME Init PROVE IInv OBVIOUS
<1> USE DEF Init, DatabaseInit, WorkersInit, NoWorkers, FreshManager, None
<1>1. Links
  BY DEF Links, LinksAgree, OpenTicketKeepsResource
<1>2. Threads
  BY DEF Threads
<1>3. Closed /\ Picked /\ Queued
  BY DEF Closed, Picked, Queued
<1>4. SandboxesAgree
  BY SandboxAssumption DEF SandboxesAgree
<1> QED BY <1>1, <1>2, <1>3, <1>4 DEF IInv

-----------------------------------------------------------------------------
(* A worker only writes the row of its resource, in a state that no open   *)
(* ticket, no transaction of the manager and no other kind of worker is    *)
(* about.                                                                  *)
LEMMA WorkerSafe ==
  ASSUME TypeInv, IInv, NEW r \in Resources, Worker_step(r)
  PROVE  IInv'
<1> USE DEF TypeInv, TypeOK, DatabaseTypeOK, WorkersTypeOK, ManagerTypeOK, IInv, Links,
            LinksAgree, OpenTicketKeepsResource, Threads, Undisturbed, Closed, Picked,
            PickKnown, Queued, SandboxesAgree, Spend, None,
            dbVars, resourceRows, slotRows, ticketRows, envVars, managerVars
<1>0. UNCHANGED <<managerVars, watch, maint>>
  BY DEF Worker_step
<1>1. CASE AllocWorker_up(r)
  BY <1>0, <1>1 DEF AllocWorker_up
<1>2. CASE AllocWorker_failed(r)
  BY <1>0, <1>2 DEF AllocWorker_failed
<1>3. ASSUME NEW ok \in BOOLEAN, ReleaseWorker_job(r, ok) PROVE IInv'
  BY <1>0, <1>3 DEF ReleaseWorker_job
<1>4. CASE TerminateWorker_job(r)
  <2>1. CASE open_ticket(r)
    BY <1>0, <1>4, <2>1 DEF TerminateWorker_job
  <2>2. CASE ~open_ticket(r)
    <3>1. \A t \in Tickets : tstate[t] = "OPEN" => tres[t] # r
      BY <2>2 DEF open_ticket, Resources, Tickets
    <3> QED BY <1>0, <1>4, <2>2, <3>1 DEF TerminateWorker_job
  <2> QED BY <2>1, <2>2
<1>5. CASE TerminateWorker_close(r)
  BY <1>0, <1>5 DEF TerminateWorker_close
<1>6. CASE Worker_run_raises(r)
  BY <1>0, <1>6 DEF Worker_run_raises
<1> QED BY <1>1, <1>2, <1>3, <1>4, <1>5, <1>6
        DEF Worker_step, AllocWorker, ReleaseWorker, TerminateWorker

LEMMA OtherSafe ==
  ASSUME TypeInv, IInv, Next, ~Manager_step, \A r \in Resources : ~Worker_step(r)
  PROVE  IInv'
<1> USE DEF TypeInv, TypeOK, DatabaseTypeOK, WorkersTypeOK, ManagerTypeOK, IInv, Links,
            LinksAgree, OpenTicketKeepsResource, Threads, Undisturbed, Closed, Picked,
            PickKnown, Queued, SandboxesAgree, Spend, None,
            dbVars, resourceRows, slotRows, ticketRows, workerVars, envVars, managerVars
<1>1. ASSUME NEW due, Watcher_loop(due) PROVE IInv'
  BY <1>1 DEF Watcher_loop
<1>2. ASSUME NEW r \in Resources, NEW ok \in BOOLEAN, Watcher_check(r, ok) PROVE IInv'
  BY <1>2 DEF Watcher_check
<1>3. ASSUME NEW t \in Tickets, NEW request \in Requests, takeTicket(t, request)
      PROVE  IInv'
  <2>1. request.sandbox \notin Tickets
    BY RequestsAssumption, SandboxAssumption
  <2> QED BY <1>3, <2>1 DEF takeTicket
<1>4. ASSUME NEW t \in Tickets, closeTicket(t) PROVE IInv'
  BY <1>4 DEF closeTicket
<1>5. ASSUME NEW mode, NEW todo, resource_delete(mode, todo) PROVE IInv'
  BY <1>5 DEF resource_delete
<1>6. ASSUME NEW r \in Resources, resource_delete_kill(r) PROVE IInv'
  <2>1. r # None
    BY DEF Resources
  <2>2. Links' /\ Threads'
    BY <1>6, <2>1 DEF resource_delete_kill, killed_tickets, killed_resources
  <2>3. Closed' /\ Picked' /\ Queued' /\ SandboxesAgree'
    BY <1>6, <2>1 DEF resource_delete_kill, killed_tickets, killed_resources
  <2> QED BY <2>2, <2>3
<1>7. CASE restart
  BY <1>7 DEF restart, fix_broken_after_restart, NoWorkers, FreshManager
<1> QED BY <1>1, <1>2, <1>3, <1>4, <1>5, <1>6, <1>7 DEF Next, Watcher_step

-----------------------------------------------------------------------------
LEMMA ManagerSafe ==
  ASSUME TypeInv, IInv, Manager_step
  PROVE  IInv'
<1> USE DEF TypeInv, TypeOK, DatabaseTypeOK, WorkersTypeOK, ManagerTypeOK, IInv, Links,
            LinksAgree, OpenTicketKeepsResource, Threads, Undisturbed, Closed, Picked,
            PickKnown, Queued, SandboxesAgree, None,
            dbVars, resourceRows, slotRows, ticketRows, workerVars, envVars
<1>0. UNCHANGED <<watch, maint>>
  BY DEF Manager_step
<1>1. CASE detect_closed_tickets
  <2>1. \A r \in taken(mpool) : r \in Resources /\ rstate[r] = "UP" /\ rticket[r] # None
    BY DEF taken, up, in_pool
  <2>2. mpc' # "release" => mclosed' = {}
    BY <1>1 DEF detect_closed_tickets, NextPool
  <2>3. mpc' # "commit"
    BY <1>1 DEF detect_closed_tickets, NextPool, decide_phase
  <2>4. Closed'
    BY <1>1, <2>1, <2>2 DEF detect_closed_tickets
  <2>5. Links' /\ Threads' /\ Picked' /\ Queued' /\ SandboxesAgree'
    BY <1>1, <2>3 DEF detect_closed_tickets
  <2> QED BY <2>4, <2>5
<1>2. CASE detect_closed_tickets_commit
  <2>1. mpc' # "commit"
    BY <1>2 DEF detect_closed_tickets_commit, NextPool, decide_phase
  <2> QED BY <1>2, <2>1 DEF detect_closed_tickets_commit, release_resource
<1>3. CASE decide_where_to_start_on_demand_instances
  BY <1>3 DEF decide_where_to_start_on_demand_instances
<1>4. ASSUME NEW late, request_resource_removal(late) PROVE IInv'
  <2>1. dead(mpool) \subseteq Resources
    BY DEF dead, check_failure_candidates, up, in_pool
  <2> QED BY <1>4, <2>1
          DEF request_resource_removal, killed_tickets, killed_resources, Resources
<1>5. CASE garbage_collector
  <2>1. \A r \in clean(mpool) : rstate[r] = "DELETE_REQUEST"
    BY DEF clean
  <2> QED BY <1>5, <2>1 DEF garbage_collector
<1>6. ASSUME NEW r \in Resources, allocate(r) PROVE IInv'
  BY <1>6 DEF allocate, next_row
<1>7. CASE allocate_more_resources_break
  <2>1. mpc' \notin {"commit", "release"}
    BY <1>7 DEF allocate_more_resources_break, NextPool
  <2> QED BY <1>7, <2>1 DEF allocate_more_resources_break
<1>8. ASSUME NEW tickets, NEW resource_ids, assign_next(tickets, resource_ids)
      PROVE  /\ mpc' \notin {"commit", "release"}
             /\ mclosed' \in {{}, mclosed}
             /\ mtickets' \in {{}, tickets}
  BY <1>8 DEF assign_next, FreshManager
<1>9. CASE assign_tickets
  <2>1. \A t \in waiting : t \in Tickets /\ tres[t] = None /\ tstate[t] # "NONE"
    BY DEF waiting
  <2> QED BY <1>8, <1>9, <2>1 DEF assign_tickets
<1>10. ASSUME NEW t \in Tickets, NEW r \in Resources, assign_ticket_read(t, r)
       PROVE  IInv'
  <2>1. /\ rstate[r] = "UP"
        /\ rticket[r] = None
        /\ rsandbox[r] \in {NoSandbox, tsandbox[t]}
    BY <1>10 DEF assign_ticket_read, best, usable, ready, up
  <2>2. t \in mtickets
    BY <1>10 DEF assign_ticket_read, pop_ticket
  <2> QED BY <1>10, <2>1, <2>2 DEF assign_ticket_read
<1>11. ASSUME NEW t \in Tickets, assign_ticket_skip(t) PROVE IInv'
  BY <1>8, <1>11 DEF assign_ticket_skip
<1>12. CASE assign_ticket_commit
  <2>1. mpick.ticket \in Tickets /\ mpick.res \in Resources
    BY <1>12 DEF assign_ticket_commit
  <2>2. /\ mpc' \notin {"commit", "release"}
        /\ mclosed' \in {{}, mclosed}
        /\ mtickets' \in {{}, mtickets}
    BY <1>8, <1>12 DEF assign_ticket_commit
  <2>3. Links' /\ Threads'
    BY <1>12, <2>1 DEF assign_ticket_commit, assign_ticket, Resources, Tickets
  <2>4. Closed' /\ Picked' /\ Queued'
    BY <1>12, <2>1, <2>2 DEF assign_ticket_commit, assign_ticket
  <2>5. SandboxesAgree'
    BY <1>12, <2>1, SandboxAssumption DEF assign_ticket_commit, assign_ticket, uuid
  <2> QED BY <2>3, <2>4, <2>5
<1> QED BY <1>1, <1>2, <1>3, <1>4, <1>5, <1>6, <1>7, <1>9, <1>10, <1>11, <1>12
        DEF Manager_step, ManagerStep

-----------------------------------------------------------------------------
LEMMA StepSafe == TypeInv /\ IInv /\ [Next]_vars => IInv'
<1> SUFFICES ASSUME TypeInv, IInv, [Next]_vars PROVE IInv' OBVIOUS
<1>1. CASE UNCHANGED vars
  BY <1>1 DEF vars, IInv, Links, LinksAgree, OpenTicketKeepsResource, Threads, Undisturbed,
              Closed, Picked, Queued, SandboxesAgree, dbVars, resourceRows, slotRows,
              ticketRows, workerVars, envVars, managerVars
<1>2. CASE Next
  BY <1>2, ManagerSafe, WorkerSafe, OtherSafe
<1> QED BY <1>1, <1>2

LEMMA SafetyInvariant == Spec => [](TypeInv /\ IInv)
<1>1. Init => TypeInv /\ IInv
  BY InitTypes, InitSafe
<1>2. TypeInv /\ IInv /\ [Next]_vars => TypeInv' /\ IInv'
  BY StepTypes, StepSafe
<1> QED BY <1>1, <1>2, PTL DEF Spec

(* A resource with an OPEN ticket is UP or waits for the ticket to close:  *)
(* no TerminateWorker, failed hook or restart takes it away.               *)
THEOREM OpenTicketsKeepResources == Spec => []OpenTicketKeepsResource
<1>1. IInv => OpenTicketKeepsResource
  BY DEF IInv, Links
<1> QED BY <1>1, SafetyInvariant, PTL

(* tickets.resource_id and resources.ticket_id always agree, so no two     *)
(* OPEN tickets share a resource.                                          *)
THEOREM LinksAlwaysAgree == Spec => []LinksAgree
<1>1. IInv => LinksAgree
  BY DEF IInv, Links
<1> QED BY <1>1, SafetyInvariant, PTL

(* Nobody else changes the state or the ticket of a row while AllocWorker  *)
(* or ReleaseWorker runs the hook whose outcome it will write there.       *)
THEOREM WorkersAlwaysOwnRows == Spec => []WorkersOwnRows
<1>1. TypeInv /\ IInv => WorkersOwnRows
  BY DEF TypeInv, TypeOK, WorkersTypeOK, IInv, Links, Threads, WorkersOwnRows
<1> QED BY <1>1, SafetyInvariant, PTL

(* Only tickets of the same named sandbox are served by one resource.      *)
THEOREM SandboxesAreIsolated == Spec => []SandboxIsolation
<1>1. TypeInv /\ IInv => SandboxIsolation
  BY DEF TypeInv, TypeOK, DatabaseTypeOK, IInv, SandboxesAgree, SandboxIsolation, SandboxIDs
<1> QED BY <1>1, SafetyInvariant, PTL

-----------------------------------------------------------------------------
(* What a step may not do to a resource with an OPEN ticket, and to a      *)
(* ticket: the bodies of LossIsReported and TicketLifecycle.               *)
Loss ==
  \A r \in Resources :
    rstate[r] = "UP" /\ rstate'[r] # "UP" /\ open_ticket(r)
      => tstate'[rticket[r]] = "FAILED"

Lifecycle ==
  \A t \in Tickets :
    /\ tres[t] # None => tres'[t] = tres[t]
    /\ tstate[t] = "CLOSED" => tstate'[t] = "CLOSED"
    /\ tstate[t] = "FAILED" => tstate'[t] \in {"FAILED", "CLOSED"}
    /\ tstate'[t] = "FAILED" => tres[t] # None

LEMMA WorkerSteps ==
  ASSUME TypeInv, IInv, NEW q \in Resources, Worker_step(q)
  PROVE  Loss /\ Lifecycle
<1>1. Loss
  BY DEF TypeInv, TypeOK, DatabaseTypeOK, WorkersTypeOK, IInv, Threads, Loss, Worker_step,
         AllocWorker, ReleaseWorker, TerminateWorker, AllocWorker_up, AllocWorker_failed,
         ReleaseWorker_job, TerminateWorker_job, TerminateWorker_close, Worker_run_raises,
         dbVars, resourceRows
<1>2. UNCHANGED <<tstate, tres>>
  BY DEF Worker_step, AllocWorker, ReleaseWorker, TerminateWorker, AllocWorker_up,
         AllocWorker_failed, ReleaseWorker_job, TerminateWorker_job, TerminateWorker_close,
         Worker_run_raises, dbVars, ticketRows
<1> QED BY <1>1, <1>2 DEF Lifecycle, IInv, Links

(* kill() fails the ticket of each resource it takes away: the ticket that *)
(* the resource works for is one whose resource_id names it.               *)
LEMMA KillSteps ==
  ASSUME TypeInv, IInv, NEW killed \in SUBSET Resources,
         NEW gone, \A r \in gone : r \in killed \/ rticket[r] = None,
         tstate' = killed_tickets(killed),
         rstate' = killed_resources(gone),
         UNCHANGED tres
  PROVE  Loss /\ Lifecycle
<1> USE DEF TypeInv, TypeOK, DatabaseTypeOK, IInv, Links
<1>1. Loss
  BY DEF Loss, killed_tickets, killed_resources, open_ticket, LinksAgree
<1>2. None \notin killed
  BY DEF None, Resources
<1>3. Lifecycle
  BY <1>2 DEF Lifecycle, killed_tickets
<1> QED BY <1>1, <1>3

LEMMA ManagerSteps ==
  ASSUME TypeInv, IInv, Manager_step
  PROVE  Loss /\ Lifecycle
<1> USE DEF dbVars, resourceRows, ticketRows
<1>1. CASE detect_closed_tickets_commit
  <2>1. Loss
    BY <1>1 DEF detect_closed_tickets_commit, Loss, open_ticket, IInv, Closed,
                TypeInv, TypeOK, DatabaseTypeOK
  <2>2. UNCHANGED <<tstate, tres>>
    BY <1>1 DEF detect_closed_tickets_commit
  <2> QED BY <2>1, <2>2 DEF Lifecycle, IInv, Links
<1>2. ASSUME NEW late, request_resource_removal(late) PROVE Loss /\ Lifecycle
  <2> DEFINE gone == dead(mpool) \cup not_reusable(mpool, late) \cup surplus(mpool)
  <2>1. dead(mpool) \in SUBSET Resources
    BY DEF dead, check_failure_candidates, up, in_pool
  <2>2. \A r \in gone : r \in dead(mpool) \/ rticket[r] = None
    BY DEF not_reusable, clean_candidates, surplus, ready
  <2>3. rstate' = killed_resources(gone)
    BY <1>2 DEF request_resource_removal
  <2>4. tstate' = killed_tickets(dead(mpool)) /\ UNCHANGED tres
    BY <1>2 DEF request_resource_removal
  <2> HIDE DEF gone
  <2> QED BY <2>1, <2>2, <2>3, <2>4, KillSteps
<1>3. ASSUME NEW r \in Resources, allocate(r) PROVE Loss /\ Lifecycle
  BY <1>3 DEF allocate, next_row, Loss, Lifecycle, IInv, Links, TypeInv, TypeOK,
              DatabaseTypeOK
<1>4. CASE assign_ticket_commit
  <2>1. /\ tres[mpick.ticket] = None
        /\ tres' = [tres EXCEPT ![mpick.ticket] = mpick.res]
        /\ UNCHANGED <<rstate, tstate>>
    BY <1>4 DEF assign_ticket_commit, assign_ticket, IInv, Picked
  <2> QED BY <2>1 DEF Loss, Lifecycle, IInv, Links, TypeInv, TypeOK, DatabaseTypeOK
<1>5. CASE UNCHANGED <<rstate, tstate, tres>>
  BY <1>5 DEF Loss, Lifecycle, IInv, Links
<1> QED BY <1>1, <1>2, <1>3, <1>4, <1>5
        DEF Manager_step, ManagerStep, detect_closed_tickets, assign_tickets,
            decide_where_to_start_on_demand_instances, garbage_collector,
            allocate_more_resources_break, assign_ticket_read, assign_ticket_skip

LEMMA OtherSteps ==
  ASSUME TypeInv, IInv, Next, ~Manager_step, \A r \in Resources : ~Worker_step(r)
  PROVE  Loss /\ Lifecycle
<1> USE DEF dbVars, resourceRows, ticketRows
<1>1. ASSUME NEW t \in Tickets, NEW request, takeTicket(t, request)
      PROVE  Loss /\ Lifecycle
  BY <1>1 DEF takeTicket, Loss, Lifecycle, IInv, Links, TypeInv, TypeOK, DatabaseTypeOK
<1>2. ASSUME NEW t \in Tickets, closeTicket(t) PROVE Loss /\ Lifecycle
  BY <1>2 DEF closeTicket, Loss, Lifecycle, IInv, Links, TypeInv, TypeOK, DatabaseTypeOK
<1>3. ASSUME NEW r \in Resources, resource_delete_kill(r) PROVE Loss /\ Lifecycle
  <2>1. /\ tstate' = killed_tickets({r})
        /\ rstate' = killed_resources({r})
        /\ UNCHANGED tres
    BY <1>3 DEF resource_delete_kill
  <2>2. {r} \in SUBSET Resources /\ \A q \in {r} : q \in {r} \/ rticket[q] = None
    OBVIOUS
  <2> QED BY <2>1, <2>2, KillSteps
<1>4. CASE restart
  BY <1>4 DEF restart, fix_broken_after_restart, Loss, Lifecycle, IInv, Links
<1>5. CASE UNCHANGED <<rstate, tstate, tres>>
  BY <1>5 DEF Loss, Lifecycle, IInv, Links
<1> QED BY <1>1, <1>2, <1>3, <1>4, <1>5
        DEF Next, Watcher_step, Watcher_loop, Watcher_check, resource_delete

LEMMA AllSteps == TypeInv /\ IInv /\ [Next]_vars => [Loss /\ Lifecycle]_vars
<1>1. ASSUME TypeInv, IInv, Next PROVE Loss /\ Lifecycle
  BY <1>1, ManagerSteps, WorkerSteps, OtherSteps
<1> QED BY <1>1

(* Whatever takes a resource away from an OPEN ticket fails the ticket in  *)
(* the same transaction: kill() by livechecks or by the administrator.     *)
THEOREM LossesAreReported == Spec => LossIsReported
<1>1. TypeInv /\ IInv /\ [Next]_vars => [Loss]_vars
  BY AllSteps
<1>2. Spec => [][Loss]_vars
  BY <1>1, SafetyInvariant, PTL DEF Spec
<1> QED BY <1>2 DEF LossIsReported, Loss

(* A ticket keeps its resource for ever, and goes from OPEN to FAILED (only *)
(* with a resource) or CLOSED, and nowhere from CLOSED.                    *)
THEOREM TicketsFollowLifecycle == Spec => TicketLifecycle
<1>1. TypeInv /\ IInv /\ [Next]_vars => [Lifecycle]_vars
  BY AllSteps
<1>2. Spec => [][Lifecycle]_vars
  BY <1>1, SafetyInvariant, PTL DEF Spec
<1> QED BY <1>2 DEF TicketLifecycle, Lifecycle

-----------------------------------------------------------------------------
(* What a step may not do to a requested removal: the body of              *)
(* RemovalsStand.  The workers that write a resource UP own a row that is  *)
(* not to be removed, and kill() reads the state in its own transaction;   *)
(* only the transaction of detect_closed_tickets() reads it too early.     *)
Stand ==
  \A r \in Resources :
    rstate[r] \in removal_states /\ rstate'[r] \notin removal_states
      => r \in mclosed /\ rstate'[r] = "RELEASING"

LEMMA WorkerStands ==
  ASSUME TypeInv, IInv, NEW q \in Resources, Worker_step(q)
  PROVE  Stand
BY DEF TypeInv, TypeOK, DatabaseTypeOK, WorkersTypeOK, IInv, Threads, Stand, removal_states,
       Worker_step, AllocWorker, ReleaseWorker, TerminateWorker, AllocWorker_up,
       AllocWorker_failed, ReleaseWorker_job, TerminateWorker_job, TerminateWorker_close,
       Worker_run_raises, dbVars, resourceRows

LEMMA ManagerStands ==
  ASSUME TypeInv, IInv, Manager_step
  PROVE  Stand
<1> USE DEF TypeInv, TypeOK, DatabaseTypeOK, Stand, removal_states, dbVars, resourceRows
<1>1. CASE detect_closed_tickets_commit
  BY <1>1 DEF detect_closed_tickets_commit
<1>2. ASSUME NEW late, request_resource_removal(late) PROVE Stand
  BY <1>2 DEF request_resource_removal, killed_resources
<1>3. ASSUME NEW r \in Resources, allocate(r) PROVE Stand
  BY <1>3 DEF allocate, next_row
<1>4. CASE UNCHANGED rstate
  BY <1>4
<1> QED BY <1>1, <1>2, <1>3, <1>4
        DEF Manager_step, ManagerStep, detect_closed_tickets, assign_tickets,
            decide_where_to_start_on_demand_instances, garbage_collector,
            allocate_more_resources_break, assign_ticket_read, assign_ticket_skip,
            assign_ticket_commit, assign_ticket

LEMMA OtherStands ==
  ASSUME TypeInv, Next, ~Manager_step, \A r \in Resources : ~Worker_step(r)
  PROVE  Stand
<1> USE DEF TypeInv, TypeOK, DatabaseTypeOK, Stand, removal_states, dbVars, resourceRows
<1>1. ASSUME NEW r \in Resources, resource_delete_kill(r) PROVE Stand
  BY <1>1 DEF resource_delete_kill, killed_resources
<1>2. CASE restart
  BY <1>2 DEF restart, fix_broken_after_restart
<1>3. CASE UNCHANGED rstate
  BY <1>3
<1> QED BY <1>1, <1>2, <1>3
        DEF Next, Watcher_step, Watcher_loop, Watcher_check, takeTicket, closeTicket,
            resource_delete

(* A removal that was requested stands: only a kill() within the open      *)
(* transaction of detect_closed_tickets() is overwritten.                  *)
THEOREM RemovalsAlwaysStand == Spec => RemovalsStand
<1>1. TypeInv /\ IInv /\ [Next]_vars => [Stand]_vars
  BY ManagerStands, WorkerStands, OtherStands
<1>2. Spec => [][Stand]_vars
  BY <1>1, SafetyInvariant, PTL DEF Spec
<1> QED BY <1>2 DEF RemovalsStand, Stand
=============================================================================
