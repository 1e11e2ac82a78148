-------------------------- MODULE ServerProperties --------------------------
(***************************************************************************)
(* What the resalloc server promises to the holders of tickets and to the  *)
(* owners of the pools, over the specification of Server.                  *)
(***************************************************************************)
EXTENDS Server

(* A client whose ticket is OPEN and has a resource can rely on it: it is  *)
(* UP, or its removal is requested and waits for the ticket to close.      *)
(* This is what the check of ticket.state in TerminateWorker.job() is for, *)
(* against kill() arriving while _assign_tickets() commits.                *)
OpenTicketKeepsResource ==
  \A t \in Tickets :
    tstate[t] = "OPEN" /\ tres[t] # None
      => rstate[tres[t]] \in {"UP", "DELETE_REQUEST"}

(* tickets.resource_id and resources.ticket_id are two columns for one     *)
(* link: what a resource works for knows it, and an OPEN ticket is what    *)
(* its resource works for.  So no two OPEN tickets share a resource.       *)
LinksAgree ==
  /\ \A r \in Resources : rticket[r] # None => tres[rticket[r]] = r
  /\ \A t \in Tickets : tstate[t] = "OPEN" /\ tres[t] # None => rticket[tres[t]] = t

(* Two tickets are served by the same resource only when both asked for    *)
(* the same named sandbox (_assign_tickets(), assign_ticket()).            *)
SandboxIsolation ==
  \A t, u \in Tickets :
    t # u /\ tres[t] = tres[u] /\ tres[t] # None
      => tsandbox[t] = tsandbox[u] /\ tsandbox[t] \in Sandboxes

(* AllocWorker.job() and ReleaseWorker.job() run a hook for minutes and    *)
(* then write the row without looking at it again.  Until they do, the row *)
(* is theirs: it still says what they are doing, no ticket has it, and no  *)
(* TerminateWorker works on it.  These are the threads of the running      *)
(* server; the watcher, which runs cmd_livecheck from an old list beside   *)
(* any of them, writes only columns of its own.                            *)
WorkersOwnRows ==
  \A r \in Resources :
    /\ r \in allocating => rstate[r] = "STARTING" /\ rticket[r] = None
    /\ r \in releasing => rstate[r] = "RELEASING" /\ rticket[r] = None
    /\ r \in allocating \cup releasing => termNew[r] = 0 /\ termCmd[r] = 0

(* The pool id handed to the hooks, and each named counter's value, belong *)
(* to one resource at a time, and pool ids stay below the pool's max: the  *)
(* hooks compute host names and addresses from them.                       *)
SlotsExclusive ==
  /\ \A x, y \in ids : x.pool = y.pool /\ x.id = y.id => x.res = y.res
  /\ \A x, y \in counters : x.name = y.name /\ x.value = y.value => x.res = y.res
  /\ \A x \in ids : x.id < Config[x.pool].max

(* Failed starts, restarts and repeated terminations never push a pool     *)
(* over max_starting or max_prealloc.                                      *)
QuotasRespected ==
  \A p \in Pools :
    LET s == stats(p)
    IN  /\ s.start <= Config[p].max_starting
        /\ Config[p].max_prealloc # 0 => s.free + s.start <= Config[p].max_prealloc

(* reuse_opportunity_time 0: no resource works for a second ticket.        *)
(* reuse_max_count n: none is reused more than n times.                    *)
ReuseLimit ==
  \A r \in Resources :
    rticket[r] # None =>
      /\ ~Config[rpool[r]].reuse => rreleases[r] = 0
      /\ Config[rpool[r]].reuse_max_count # 0
           => rreleases[r] <= Config[rpool[r]].reuse_max_count

-----------------------------------------------------------------------------
removal_states == {"DELETE_REQUEST", "DELETING", "ENDED"}

(* A resource with an OPEN ticket stops being UP only if in that very step *)
(* the ticket becomes FAILED, so that collectTicket() reports it.          *)
LossIsReported ==
  [][\A r \in Resources :
       rstate[r] = "UP" /\ rstate'[r] # "UP" /\ open_ticket(r)
         => tstate'[rticket[r]] = "FAILED"]_vars

(* A ticket that got a resource is never moved to another one, a CLOSED    *)
(* ticket stays CLOSED, a FAILED one can only be closed, and only a ticket *)
(* that has a resource fails.                                              *)
TicketLifecycle ==
  [][\A t \in Tickets :
       /\ tres[t] # None => tres'[t] = tres[t]
       /\ tstate[t] = "CLOSED" => tstate'[t] = "CLOSED"
       /\ tstate[t] = "FAILED" => tstate'[t] \in {"FAILED", "CLOSED"}
       /\ tstate'[t] = "FAILED" => tres[t] # None]_vars

(* A requested removal is never taken back by a worker that ends late, by  *)
(* a restart or by a ticket.  The one exception is a kill() that arrives   *)
(* between the reads and the commit of detect_closed_tickets(): the commit *)
(* overwrites DELETE_REQUEST with RELEASING, and the resource comes back.  *)
RemovalsStand ==
  [][\A r \in Resources :
       rstate[r] \in removal_states /\ rstate'[r] \notin removal_states
         => r \in mclosed /\ rstate'[r] = "RELEASING"]_vars

(* The pass of _request_resource_removal() that finds a free resource      *)
(* whose cmd_release failed requests its removal.                          *)
FailedReleaseIsRemoved ==
  [][mpc = "removal" /\ mpc' = "gc"
       => \A r \in clean_candidates(mpool) \cap unclean : rstate'[r] # "UP"]_vars

(* resource-delete --unused takes no resource away from a ticket. *)
UnusedDeleteSparesTickets ==
  [][maint.mode = "unused" /\ maint' # maint
       => \A t \in Tickets : tstate'[t] = "FAILED" => tstate[t] = "FAILED"]_vars

-----------------------------------------------------------------------------
(* The refinement mapping.  The phases forget which thread works on a      *)
(* resource; the sandbox that assign_ticket() makes up is none.            *)
phase_of(state) ==
  IF state = "UP" THEN "up"
  ELSE IF state = "DELETE_REQUEST" THEN "doomed"
  ELSE IF state \in {"DELETING", "ENDED"} THEN "gone" ELSE "busy"

requested(t) == IF tsandbox[t] \in Tickets THEN NoSandbox ELSE tsandbox[t]

A == INSTANCE Allocator
     WITH ticket <- tstate,
          sandbox <- [t \in Tickets |-> requested(t)],
          given <- tres,
          phase <- [r \in Resources |-> phase_of(rstate[r])],
          user <- rticket,
          reserved <- mclosed \cup (IF mpc = "commit" THEN {mpick.res} ELSE {})

(* The threads, split transactions, kills and restarts together do only    *)
(* what Allocator allows: a resource is given while no hook has begun to   *)
(* delete it, to one open ticket, never across sandboxes, and every loss   *)
(* is told in the step it happens.                                         *)
ImplementsAllocator == A!Spec

-----------------------------------------------------------------------------
(* A ticket that waits gets a resource, or is closed: it is not starved by *)
(* failed starts, restarts, kills and other tickets.                       *)
WaitingIsServed == \A t \in Tickets : (t \in waiting) ~> (t \notin waiting)

(* The resource of a closed ticket, also of one closed while it was being  *)
(* assigned, does not work for it forever.                                 *)
ClosedTicketIsReleased ==
  \A t \in Tickets :
    (tstate[t] = "CLOSED")
      ~> (\A r \in Resources : rticket[r] = t => rstate[r] = "ENDED")

(* A resource whose removal is requested ends and gives up its pool id,    *)
(* unless an OPEN ticket holds it.                                         *)
RemovalCompletes ==
  \A r \in Resources :
    (rstate[r] \in {"DELETE_REQUEST", "DELETING"})
      ~> \/ rstate[r] = "ENDED" /\ (\A row \in ids : row.res # r)
         \/ open_ticket(r)

-----------------------------------------------------------------------------
(* On-demand pools without reuse: the resources that were started and not  *)
(* yet taken are no more than the tickets that caused them, although the   *)
(* manager decides anew in every cycle (already_existing in                *)
(* _decide_where_to_start_on_demand_instances()).                          *)
OneStartPerTicket ==
  Cardinality({r \in UNION {on(p) : p \in pools_on_demand} :
                 \/ rstate[r] = "STARTING"
                 \/ rstate[r] = "UP" /\ rticket[r] = None /\ rreleases[r] = 0})
    <= Cardinality({t \in Tickets : ttags[t] \cap on_demand_tags # {} /\ tres[t] = None})

(* An expensive on-demand resource does not stay idle: it is taken, or     *)
(* removed (_request_on_demand_resources_removal()).                       *)
OnDemandNotIdle ==
  \A r \in Resources :
    (rstate[r] = "UP" /\ rticket[r] = None /\ rpool[r] \in pools_on_demand)
      ~> (rticket[r] # None \/ rstate[r] # "UP")
=============================================================================
