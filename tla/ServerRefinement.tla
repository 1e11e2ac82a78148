-------------------------- MODULE ServerRefinement --------------------------
(***************************************************************************)
(* Proof that Server implements Allocator, for every configuration and all *)
(* bounds, by the refinement mapping of ServerProperties.                  *)
(***************************************************************************)
EXTENDS ServerSafety

Reserved == mclosed \cup (IF mpc = "commit" THEN {mpick.res} ELSE {})
Phase == [r \in Resources |-> phase_of(rstate[r])]
Requested == [t \in Tickets |-> requested(t)]

LEMMA InitRefines == Init => A!Init
<1> SUFFICES ASSUME Init PROVE A!Init OBVIOUS
<1> USE DEF Init, DatabaseInit, FreshManager
<1>1. \A t \in Tickets : requested(t) = NoSandbox
  BY SandboxAssumption DEF requested
<1>2. \A r \in Resources : phase_of(rstate[r]) = "busy"
  BY DEF phase_of
<1> QED BY <1>1, <1>2 DEF A!Init

(* Steps of Allocator, in terms of the mapped variables. *)
LEMMA Stutter ==
  ASSUME UNCHANGED <<tstate, Requested, tres, Phase, rticket, Reserved>>
  PROVE  UNCHANGED A!vars
BY DEF A!vars, Requested, Phase, Reserved

LEMMA ReadyStep ==
  ASSUME NEW r \in Resources, Phase[r] = "busy", rticket[r] = None,
         Phase' = [Phase EXCEPT ![r] = "up"],
         UNCHANGED <<tstate, Requested, tres, rticket, Reserved>>
  PROVE  A!Next
<1>1. A!Ready(r)
  BY DEF A!Ready, Phase, Requested, Reserved
<1> QED BY <1>1 DEF A!Next

LEMMA DestroyStep ==
  ASSUME NEW r \in Resources, Phase[r] # "up", r \notin Reserved,
         \A t \in Tickets : tstate[t] = "OPEN" => tres[t] # r,
         Phase' = [Phase EXCEPT ![r] = "gone"],
         UNCHANGED <<tstate, Requested, tres, rticket, Reserved>>
  PROVE  A!Next
<1>1. A!Destroy(r)
  BY DEF A!Destroy, A!Held, Phase, Requested, Reserved
<1> QED BY <1>1 DEF A!Next

LEMMA PhaseOfStep ==
  ASSUME NEW r \in Resources, rstate \in [Resources -> RStates \cup {"NONE"}],
         NEW s, rstate' = [rstate EXCEPT ![r] = s]
  PROVE  Phase' = [Phase EXCEPT ![r] = phase_of(s)]
<1>1. \A q \in Resources : rstate'[q] = IF q = r THEN s ELSE rstate[q]
  OBVIOUS
<1>2. \A q \in Resources : phase_of(rstate'[q]) = IF q = r THEN phase_of(s) ELSE phase_of(rstate[q])
  BY <1>1
<1> QED BY <1>2 DEF Phase

(* A worker readies its resource, or destroys one that nobody holds and    *)
(* the manager has not reserved.                                           *)
LEMMA WorkerRefines ==
  ASSUME TypeInv, IInv, NEW r \in Resources, Worker_step(r)
  PROVE  A!Next \/ UNCHANGED A!vars
<1> USE DEF TypeInv, TypeOK, DatabaseTypeOK, WorkersTypeOK, ManagerTypeOK, IInv, Links,
            LinksAgree, OpenTicketKeepsResource, Threads, Undisturbed, Closed, Picked,
            PickKnown, dbVars, resourceRows, slotRows, ticketRows, managerVars
<1>0. /\ UNCHANGED <<managerVars, tstate, tres, tsandbox, rticket>>
      /\ Requested' = Requested
      /\ Reserved' = Reserved
  <2>1. UNCHANGED <<managerVars, tstate, tres, tsandbox, rticket>>
    BY DEF Worker_step, AllocWorker, ReleaseWorker, TerminateWorker, AllocWorker_up,
           AllocWorker_failed, ReleaseWorker_job, TerminateWorker_job,
           TerminateWorker_close, Worker_run_raises
  <2> QED BY <2>1 DEF Requested, requested, Reserved
<1>1. ASSUME rstate' = [rstate EXCEPT ![r] = "UP"], rstate[r] \in {"STARTING", "RELEASING"}
      PROVE  A!Next
  <2>1. Phase[r] = "busy" /\ rticket[r] = None
    BY <1>1 DEF Phase, phase_of
  <2>2. Phase' = [Phase EXCEPT ![r] = "up"]
    BY <1>1, PhaseOfStep DEF phase_of
  <2> QED BY <1>0, <2>1, <2>2, ReadyStep
<1>2. ASSUME NEW s \in {"DELETING", "ENDED"}, rstate' = [rstate EXCEPT ![r] = s],
             rstate[r] # "UP", ~open_ticket(r), r \notin Reserved
      PROVE  A!Next
  <2>1. Phase[r] # "up"
    BY <1>2 DEF Phase, phase_of
  <2>2. \A t \in Tickets : tstate[t] = "OPEN" => tres[t] # r
    BY <1>2 DEF open_ticket, Resources, None, Tickets
  <2>3. Phase' = [Phase EXCEPT ![r] = "gone"]
    BY <1>2, PhaseOfStep DEF phase_of
  <2> QED BY <1>0, <1>2, <2>1, <2>2, <2>3, DestroyStep
<1>3. ASSUME rstate' = rstate PROVE UNCHANGED A!vars
  <2>1. Phase' = Phase
    BY <1>3 DEF Phase
  <2> QED BY <1>0, <2>1, Stutter
<1>4. ~Undisturbed(r) => r \notin Reserved
  BY DEF Reserved
<1>5. CASE AllocWorker_up(r)
  BY <1>1, <1>5 DEF AllocWorker_up
<1>6. CASE AllocWorker_failed(r)
  BY <1>2, <1>4, <1>6 DEF AllocWorker_failed, open_ticket
<1>7. ASSUME NEW ok \in BOOLEAN, ReleaseWorker_job(r, ok) PROVE A!Next
  BY <1>1, <1>7 DEF ReleaseWorker_job
<1>8. CASE TerminateWorker_job(r)
  BY <1>2, <1>3, <1>4, <1>8 DEF TerminateWorker_job
<1>9. CASE TerminateWorker_close(r)
  <2>1. rstate[r] \in {"DELETING", "ENDED"} /\ ~Undisturbed(r)
    BY <1>9 DEF TerminateWorker_close
  <2>2. ~open_ticket(r)
    BY <2>1 DEF open_ticket, Resources, None
  <2> QED BY <1>2, <1>4, <1>9, <2>1, <2>2 DEF TerminateWorker_close
<1>10. CASE Worker_run_raises(r)
  BY <1>3, <1>10 DEF Worker_run_raises
<1> QED BY <1>5, <1>6, <1>7, <1>8, <1>9, <1>10
        DEF Worker_step, AllocWorker, ReleaseWorker, TerminateWorker

(* kill() of the resources gone, where the ones not in killed work for no  *)
(* ticket.                                                                 *)
LEMMA KillRefines ==
  ASSUME TypeInv, IInv, NEW gone \in SUBSET Resources, NEW killed \in SUBSET gone,
         \A r \in gone : r \in killed \/ rticket[r] = None,
         tstate' = killed_tickets(killed),
         rstate' = killed_resources(gone),
         UNCHANGED <<tres, tsandbox, rticket, Reserved>>
  PROVE  A!Next
<1> USE DEF TypeInv, TypeOK, DatabaseTypeOK, IInv, Links, LinksAgree
<1>1. \A t \in Tickets : tstate[t] = "OPEN" /\ tres[t] \in gone => tres[t] \in killed
  BY DEF Resources, Tickets, None
<1>2. tstate' = [t \in Tickets |-> IF tres[t] \in gone /\ tstate[t] = "OPEN"
                                  THEN "FAILED" ELSE tstate[t]]
  BY <1>1 DEF killed_tickets
<1>3. \A r \in Resources : phase_of(rstate'[r]) =
        IF r \in gone /\ phase_of(rstate[r]) = "up" THEN "doomed" ELSE phase_of(rstate[r])
  BY DEF killed_resources, phase_of
<1>4. Phase' = [r \in Resources |-> IF r \in gone /\ Phase[r] = "up"
                                    THEN "doomed" ELSE Phase[r]]
  BY <1>3 DEF Phase
<1>5. Requested' = Requested
  BY DEF Requested, requested
<1>6. A!Kill(gone)
  BY <1>2, <1>4, <1>5 DEF A!Kill, Phase, Requested, Reserved
<1> QED BY <1>6 DEF A!Next

LEMMA RemovalRefines ==
  ASSUME TypeInv, IInv, NEW late, request_resource_removal(late)
  PROVE  A!Next
<1> DEFINE gone == dead(mpool) \cup not_reusable(mpool, late) \cup surplus(mpool)
<1>1. gone \in SUBSET Resources /\ dead(mpool) \in SUBSET gone
  BY DEF dead, check_failure_candidates, not_reusable, clean_candidates, surplus, ready, up,
         in_pool
<1>2. \A r \in gone : r \in dead(mpool) \/ rticket[r] = None
  BY DEF not_reusable, clean_candidates, surplus, ready
<1>3. /\ tstate' = killed_tickets(dead(mpool))
      /\ rstate' = killed_resources(gone)
      /\ UNCHANGED <<tres, tsandbox, rticket, Reserved>>
  BY DEF request_resource_removal, Reserved
<1> HIDE DEF gone
<1> QED BY <1>1, <1>2, <1>3, KillRefines

(* Steps of the manager that write no row Allocator knows of. *)
LEMMA QuietRefines ==
  ASSUME UNCHANGED <<tstate, tres, tsandbox, rticket, rstate>>, Reserved' = Reserved
  PROVE  UNCHANGED A!vars
<1>1. Phase' = Phase /\ Requested' = Requested
  BY DEF Phase, Requested, requested
<1> QED BY <1>1, Stutter

LEMMA DetectRefines ==
  ASSUME TypeInv, IInv, detect_closed_tickets
  PROVE  A!Next \/ UNCHANGED A!vars
<1> USE DEF detect_closed_tickets, dbVars, resourceRows, ticketRows, Reserved
<1>1. mpc = "closed" /\ mpc' # "commit" /\ mclosed = {}
  BY DEF NextPool, decide_phase, IInv, Closed
<1>2. Reserved = {} /\ Reserved' = mclosed'
  BY <1>1
<1>3. mclosed' \in SUBSET Resources /\ \A r \in mclosed' : Phase[r] = "up"
  BY DEF taken, up, in_pool, Phase, phase_of
<1>4. Phase' = Phase /\ Requested' = Requested
  BY DEF Phase, Requested, requested
<1>5. A!Reserve(mclosed')
  BY <1>2, <1>3, <1>4 DEF A!Reserve, Phase, Requested
<1> QED BY <1>3, <1>5 DEF A!Next

LEMMA ReleaseRefines ==
  ASSUME TypeInv, IInv, detect_closed_tickets_commit
  PROVE  A!Next
<1> USE DEF TypeInv, TypeOK, DatabaseTypeOK, ManagerTypeOK
<1> DEFINE cleaned == Config[mpool].cmd_release
<1>1. cleaned \in BOOLEAN
  BY ConfigAssumption DEF PoolConfigOK
<1>2. Reserved = mclosed /\ Reserved' = {}
  BY DEF detect_closed_tickets_commit, NextPool, decide_phase, Reserved
<1>3. \A r \in Reserved : rticket[r] # None /\ tstate[rticket[r]] = "CLOSED"
  BY <1>2 DEF IInv, Closed
<1>4. rticket' = [r \in Resources |-> IF r \in Reserved THEN None ELSE rticket[r]]
  BY <1>2 DEF detect_closed_tickets_commit, release_resource
<1>5. \A r \in Resources : phase_of(rstate'[r]) =
        IF r \in Reserved /\ cleaned THEN "busy" ELSE phase_of(rstate[r])
  BY <1>2 DEF detect_closed_tickets_commit, phase_of
<1>6. Phase' = [r \in Resources |-> IF r \in Reserved /\ cleaned THEN "busy" ELSE Phase[r]]
  <2> HIDE DEF cleaned
  <2> QED BY <1>5 DEF Phase
<1>7. UNCHANGED <<tstate, tres, Requested>>
  BY DEF detect_closed_tickets_commit, ticketRows, Requested, requested
<1>8. A!Return(cleaned)
  <2> HIDE DEF cleaned
  <2> QED BY <1>2, <1>3, <1>4, <1>6, <1>7 DEF A!Return, Phase, Requested, Reserved
<1> QED BY <1>1, <1>8 DEF A!Next

LEMMA ReadRefines ==
  ASSUME TypeInv, IInv, NEW t \in Tickets, NEW r \in Resources, assign_ticket_read(t, r)
  PROVE  A!Next
<1> USE DEF assign_ticket_read, dbVars, resourceRows, ticketRows
<1>1. rstate[r] = "UP"
  BY DEF best, usable, ready, up
<1>2. Reserved = {} /\ Reserved' = {r}
  BY DEF Reserved, IInv, Closed
<1>3. Phase[r] = "up" /\ Phase' = Phase /\ Requested' = Requested
  BY <1>1 DEF Phase, phase_of, Requested, requested
<1>4. UNCHANGED <<tstate, tres, rticket>>
  OBVIOUS
<1>5. A!Reserve({r})
  <2> HIDE DEF assign_ticket_read
  <2> QED BY <1>2, <1>3, <1>4 DEF A!Reserve, Phase, Requested, Reserved
<1> QED BY <1>5 DEF A!Next

(* The commit of an assignment.  SandboxesAgree and Picked give that the   *)
(* resource has only worked for tickets of the same named sandbox.         *)
LEMMA CommitRefines ==
  ASSUME TypeInv, IInv, assign_ticket_commit
  PROVE  A!Next
<1> DEFINE t == mpick.ticket
           r == mpick.res
<1> USE DEF TypeInv, TypeOK, DatabaseTypeOK
<1>1. /\ t \in Tickets /\ r \in Resources
      /\ rticket[r] = None /\ tres[t] = None /\ tstate[t] # "NONE"
      /\ rsandbox[r] \in {NoSandbox, tsandbox[t]}
  BY DEF assign_ticket_commit, PickKnown, IInv, Picked
<1>2. Reserved = {r} /\ Reserved' = {}
  BY DEF assign_ticket_commit, assign_next, FreshManager, Reserved, IInv, Closed
<1>3. /\ tres' = [tres EXCEPT ![t] = r]
      /\ rticket' = [rticket EXCEPT ![r] = t]
      /\ UNCHANGED <<tstate, rstate>>
  BY DEF assign_ticket_commit, assign_ticket
<1>4. Phase' = Phase
  BY <1>3 DEF Phase
<1>5. \A u \in Tickets : requested(u)' = requested(u)
  <2>1. tsandbox' = [tsandbox EXCEPT ![t] = IF tsandbox[t] = NoSandbox THEN t ELSE tsandbox[t]]
    BY DEF assign_ticket_commit, assign_ticket, uuid
  <2> HIDE DEF t, r
  <2> QED BY <1>1, <2>1, SandboxAssumption DEF requested
<1>6. \A u \in Tickets : tres[u] = r => requested(u) = requested(t) /\ requested(t) # NoSandbox
  <2> SUFFICES ASSUME NEW u \in Tickets, tres[u] = r
               PROVE  requested(u) = requested(t) /\ requested(t) # NoSandbox
    OBVIOUS
  <2>1. r # None
    BY <1>1 DEF Resources, None
  <2>2. tsandbox[u] = rsandbox[r] /\ tsandbox[u] # NoSandbox
    BY <1>1, <2>1 DEF IInv, SandboxesAgree
  <2>3. tsandbox[u] = tsandbox[t]
    BY <1>1, <2>2
  <2>4. tsandbox[t] \notin Tickets
    <3>1. u # t
      BY <1>1, <2>1
    <3>2. /\ tsandbox[u] \in Tickets => tsandbox[u] = u
          /\ tsandbox[t] \in Tickets => tsandbox[t] = t
      BY <1>1 DEF IInv, SandboxesAgree
    <3> QED BY <2>3, <3>1, <3>2
  <2> QED BY <2>2, <2>3, <2>4 DEF requested
<1>7. Requested' = Requested /\ \A u \in Tickets : Requested[u] = requested(u)
  BY <1>5 DEF Requested
<1>8. A!Give(t, r)
  <2> HIDE DEF t, r
  <2> QED BY <1>1, <1>2, <1>3, <1>4, <1>6, <1>7 DEF A!Give, Phase, Requested, Reserved
<1> QED BY <1>1, <1>8 DEF A!Next

LEMMA ManagerRefines ==
  ASSUME TypeInv, IInv, Manager_step
  PROVE  A!Next \/ UNCHANGED A!vars
<1> USE DEF dbVars, resourceRows, ticketRows
<1>1. CASE decide_where_to_start_on_demand_instances \/ garbage_collector
  BY <1>1, QuietRefines DEF decide_where_to_start_on_demand_instances, garbage_collector,
     Reserved
<1>2. ASSUME NEW r \in Resources, allocate(r) PROVE UNCHANGED A!vars
  <2>1. rstate \in [Resources -> RStates \cup {"NONE"}]
    BY DEF TypeInv, TypeOK, DatabaseTypeOK
  <2>2. Phase' = [Phase EXCEPT ![r] = "busy"] /\ Phase[r] = "busy"
    BY <1>2, <2>1, PhaseOfStep DEF allocate, next_row, phase_of, Phase
  <2>3. Phase' = Phase
    BY <2>2 DEF Phase
  <2>4. UNCHANGED <<tstate, Requested, tres, rticket, Reserved>>
    BY <1>2 DEF allocate, Requested, requested, Reserved
  <2> QED BY <2>3, <2>4, Stutter
<1>3. CASE allocate_more_resources_break
  <2>1. Reserved' = Reserved
    BY <1>3 DEF allocate_more_resources_break, NextPool, Reserved
  <2> QED BY <1>3, <2>1, QuietRefines DEF allocate_more_resources_break
<1>4. ASSUME NEW tickets, NEW resource_ids, assign_next(tickets, resource_ids),
             mpc \in {"snapshot", "assign"}
      PROVE  Reserved' = Reserved
  BY <1>4 DEF assign_next, FreshManager, Reserved, IInv, Closed
<1>5. CASE assign_tickets
  BY <1>4, <1>5, QuietRefines DEF assign_tickets
<1>6. ASSUME NEW t \in Tickets, assign_ticket_skip(t) PROVE UNCHANGED A!vars
  BY <1>4, <1>6, QuietRefines DEF assign_ticket_skip
<1> QED BY <1>1, <1>2, <1>3, <1>5, <1>6, DetectRefines, ReleaseRefines, RemovalRefines,
           ReadRefines, CommitRefines
        DEF Manager_step, ManagerStep

LEMMA OtherRefines ==
  ASSUME TypeInv, IInv, Next, ~Manager_step, \A r \in Resources : ~Worker_step(r)
  PROVE  A!Next \/ UNCHANGED A!vars
<1> USE DEF dbVars, resourceRows, ticketRows, managerVars
<1>1. CASE Watcher_step
  BY <1>1, QuietRefines DEF Watcher_step, Watcher_loop, Watcher_check, Reserved
<1>2. ASSUME NEW t \in Tickets, NEW request \in Requests, takeTicket(t, request)
      PROVE  A!Next
  <2>1. request.sandbox \in Sandboxes \cup {NoSandbox} /\ request.sandbox \notin Tickets
    BY RequestsAssumption, SandboxAssumption
  <2>2. Requested' = [Requested EXCEPT ![t] = request.sandbox]
    <3>1. tsandbox' = [tsandbox EXCEPT ![t] = request.sandbox]
      BY <1>2 DEF takeTicket
    <3>2. tsandbox \in [Tickets -> SandboxIDs]
      BY DEF TypeInv, TypeOK, DatabaseTypeOK
    <3>3. \A u \in Tickets : requested(u)' = IF u = t THEN request.sandbox ELSE requested(u)
      BY <2>1, <3>1, <3>2 DEF requested
    <3> QED BY <3>3 DEF Requested
  <2>3. Phase' = Phase /\ Reserved' = Reserved
    BY <1>2 DEF takeTicket, Phase, Reserved
  <2>4. A!Take(t)
    BY <1>2, <2>1, <2>2, <2>3 DEF takeTicket, A!Take, Phase, Requested, Reserved
  <2> QED BY <2>4 DEF A!Next
<1>3. ASSUME NEW t \in Tickets, closeTicket(t) PROVE A!Next
  <2>1. Phase' = Phase /\ Reserved' = Reserved /\ Requested' = Requested
    BY <1>3 DEF closeTicket, Phase, Reserved, Requested, requested
  <2>2. A!Close(t)
    BY <1>3, <2>1 DEF closeTicket, A!Close, Phase, Requested, Reserved
  <2> QED BY <2>2 DEF A!Next
<1>4. ASSUME NEW mode, NEW todo, resource_delete(mode, todo) PROVE UNCHANGED A!vars
  BY <1>4, QuietRefines DEF resource_delete, Reserved
<1>5. ASSUME NEW r \in Resources, resource_delete_kill(r) PROVE A!Next
  <2>1. {r} \in SUBSET Resources
    OBVIOUS
  <2> QED BY <1>5, <2>1, KillRefines DEF resource_delete_kill, Reserved
<1>6. CASE restart
  <2> DEFINE R == {r \in Resources : rstate[r] \in {"STARTING", "DELETING", "RELEASING"}}
  <2>1. \A r \in R : Phase[r] \in {"busy", "gone"}
    BY DEF Phase, phase_of
  <2>2. Phase' = [r \in Resources |-> IF r \in R THEN "doomed" ELSE Phase[r]]
    BY <1>6 DEF restart, fix_broken_after_restart, Phase, phase_of
  <2>3. Reserved' = {}
    BY <1>6 DEF restart, FreshManager, Reserved
  <2>4. UNCHANGED <<tstate, tres, rticket, Requested>>
    BY <1>6 DEF restart, Requested, requested
  <2>5. A!Recover(R)
    <3> HIDE DEF R
    <3> QED BY <2>1, <2>2, <2>3, <2>4 DEF A!Recover, Phase, Requested, Reserved
  <2> QED BY <2>5 DEF A!Next
<1> QED BY <1>1, <1>2, <1>3, <1>4, <1>5, <1>6 DEF Next

LEMMA StepRefines == TypeInv /\ IInv /\ [Next]_vars => [A!Next]_(A!vars)
<1>1. ASSUME UNCHANGED vars PROVE UNCHANGED A!vars
  BY <1>1, QuietRefines DEF vars, dbVars, resourceRows, ticketRows, managerVars, Reserved
<1>2. ASSUME TypeInv, IInv, Next PROVE A!Next \/ UNCHANGED A!vars
  BY <1>2, ManagerRefines, WorkerRefines, OtherRefines
<1> QED BY <1>1, <1>2

(* The server implements the abstract allocator: whatever its threads, the *)
(* administrator, failures and restarts do, clients and owners of pools    *)
(* see only steps of Allocator.                                            *)
THEOREM ServerImplementsAllocator == Spec => ImplementsAllocator
<1>1. Init => A!Init
  BY InitRefines
<1>2. TypeInv /\ IInv /\ [Next]_vars => [A!Next]_(A!vars)
  BY StepRefines
<1>3. Spec => A!Spec
  BY <1>1, <1>2, SafetyInvariant, PTL DEF Spec, A!Spec
<1> QED BY <1>3 DEF ImplementsAllocator
=============================================================================
