------------------------------- MODULE Manager -------------------------------
(***************************************************************************)
(* The manager thread: Manager._loop() of resallocserver/manager.py and    *)
(* the methods of Pool it calls.  mpc names the transaction that comes     *)
(* next and mpool the pool it is about.                                    *)
(*                                                                         *)
(* A session_scope() is one step, except where another process can change  *)
(* a row between the transaction's reads and its commit in a way that      *)
(* matters: detect_closed_tickets() and the assignment of one ticket are   *)
(* a step that reads and a step that writes the columns the code assigned. *)
(***************************************************************************)
EXTENDS OnDemand

VARIABLES
  mpc, mpool,
  demand,    \* start_on_demand_this_cycle of each pool
  mclosed,   \* resources detect_closed_tickets() found a closed ticket on
  mtickets,  \* _assign_tickets(): ticket_id_queue
  mready,    \* _assign_tickets(): resource_ids
  mpick      \* the ticket and the resource about to be committed

managerVars == <<mpc, mpool, demand, mclosed, mtickets, mready, mpick>>

Phases == {"closed", "release", "decide", "removal", "gc", "alloc",
           "snapshot", "assign", "commit"}

NoDemand == [p \in Pools |-> 0]
NoPick == [ticket |-> None, res |-> None]

ManagerTypeOK ==
  /\ mpc \in Phases
  /\ mpool \in Pools
  /\ demand \in [Pools -> Int]
  /\ mclosed \in SUBSET Resources
  /\ mtickets \in SUBSET Tickets
  /\ mready \in SUBSET Resources
  /\ mpick \in [ticket : Tickets \cup {None}, res : Resources \cup {None}]

(* Where _loop() begins: it is called at the start of run(), and again     *)
(* when sync.ticket.wait() returns, at the latest after sleeptime.         *)
FreshManager(pc, pool, dem, closed, tickets, res, pick) ==
  /\ pc = "closed"
  /\ pool = 1
  /\ dem = NoDemand
  /\ closed = {}
  /\ tickets = {}
  /\ res = {}
  /\ pick = NoPick

(* `for _, pool in pools.items()': the same phase for the next pool, or    *)
(* the phase after the loop.                                               *)
NextPool(again, after) ==
  IF mpool < NPools THEN mpc' = again /\ mpool' = mpool + 1
                    ELSE mpc' = after /\ mpool' = 1

(* Without on-demand pools the decision has nothing to decide. *)
decide_phase == IF pools_on_demand = {} THEN "removal" ELSE "decide"

-----------------------------------------------------------------------------
detect_closed_tickets ==
  /\ mpc = "closed"
  /\ mclosed' = {r \in taken(mpool) : tstate[rticket[r]] = "CLOSED"}
  /\ IF mclosed' = {} THEN NextPool("closed", decide_phase)
                     ELSE mpc' = "release" /\ mpool' = mpool
  /\ UNCHANGED <<demand, mtickets, mready, mpick, dbVars, workerVars, envVars>>

(* The commit of detect_closed_tickets() and the start of ReleaseWorkers.  *)
(* With cmd_release the state read as UP is overwritten with RELEASING.    *)
detect_closed_tickets_commit ==
  /\ mpc = "release"
  /\ release_resource(mclosed)
  /\ IF Config[mpool].cmd_release
     THEN /\ rstate' = [r \in Resources |->
                          IF r \in mclosed THEN "RELEASING" ELSE rstate[r]]
          /\ releasing' = releasing \cup mclosed
     ELSE UNCHANGED <<rstate, releasing>>
  /\ mclosed' = {}
  /\ NextPool("closed", decide_phase)
  /\ UNCHANGED <<demand, mtickets, mready, mpick, rpool, rsandbox, rfailed,
                 slotRows, ticketRows, allocating, termNew, termCmd, envVars>>

decide_where_to_start_on_demand_instances ==
  /\ mpc = "decide"
  /\ demand' = start_on_demand
  /\ mpc' = "removal"
  /\ UNCHANGED <<mpool, mclosed, mtickets, mready, mpick, dbVars, workerVars, envVars>>

-----------------------------------------------------------------------------
(* Mutant: one resource too many is kept *)
surplus_off_by_one(p) ==
  LET fresh == {r \in ready(p) : rreleases[r] = 0}
      waiting_on_us == {t \in waiting : ttags[t] \subseteq tag_set(p)}
  IN  {r \in fresh : /\ tag_set_on_demand(p) # {}
                     /\ Cardinality({q \in fresh : q < r})
                          < Cardinality(fresh) - Cardinality(waiting_on_us) - 1}

(* Pool._request_on_demand_resources_removal(): of the resources never     *)
(* taken, the oldest ones that no waiting ticket could use.                *)
surplus(p) ==
  LET fresh == {r \in ready(p) : rreleases[r] = 0}
      waiting_on_us == {t \in waiting : ttags[t] \subseteq tag_set(p)}
  IN  {r \in fresh : /\ tag_set_on_demand(p) # {}
                     /\ Cardinality({q \in fresh : q < r})
                          < Cardinality(fresh) - Cardinality(waiting_on_us)}

(* check_failure_candidates() that failed too often *)
dead(p) ==
  {r \in check_failure_candidates(p) : rfailed[r] >= Config[p].livecheck_attempts}

(* Mutant: reuse_opportunity_time 0 is not special *)
not_reusable_enabled(p, late) ==
  {r \in clean_candidates(p) :
     \/ r \in late
     \/ /\ Config[p].reuse_max_count # 0
        /\ rreleases[r] > Config[p].reuse_max_count}

(* The released resources that may not be reused.  late are the ones whose *)
(* reuse_opportunity_time or reuse_max_time is over.                       *)
not_reusable(p, late) ==
  {r \in clean_candidates(p) :
     \/ ~Config[p].reuse
     \/ r \in late
     \/ /\ Config[p].reuse_max_count # 0
        /\ rreleases[r] > Config[p].reuse_max_count}

(* Mutant: DELETE_REQUEST is set without kill() *)
request_resource_removal_silent(late) ==
  /\ mpc = "removal"
  /\ UNCHANGED tstate
  /\ rstate' = killed_resources(dead(mpool) \cup not_reusable(mpool, late)
                                            \cup surplus(mpool))
  /\ mpc' = "gc"
  /\ UNCHANGED <<mpool, demand, mclosed, mtickets, mready, mpick, rpool, rticket,
                 rsandbox, rreleases, rfailed, slotRows, tres, tsandbox, ttags,
                 workerVars, envVars>>

(* Pool._request_resource_removal() *)
request_resource_removal(late) ==
  /\ mpc = "removal"
  /\ tstate' = killed_tickets(dead(mpool))
  /\ rstate' = killed_resources(dead(mpool) \cup not_reusable(mpool, late)
                                            \cup surplus(mpool))
  /\ mpc' = "gc"
  /\ UNCHANGED <<mpool, demand, mclosed, mtickets, mready, mpick, rpool, rticket,
                 rsandbox, rreleases, rfailed, slotRows, tres, tsandbox, ttags,
                 workerVars, envVars>>

(* Pool._garbage_collector(): another TerminateWorker, in every cycle, for *)
(* every resource still in DELETE_REQUEST.                                 *)
garbage_collector ==
  /\ mpc = "gc"
  /\ termNew' = [r \in Resources |->
                   IF r \in clean(mpool) /\ termNew[r] + termCmd[r] < MaxTerminators
                   THEN termNew[r] + 1 ELSE termNew[r]]
  /\ mpc' = "alloc"
  /\ UNCHANGED <<mpool, demand, mclosed, mtickets, mready, mpick, dbVars,
                 allocating, releasing, termCmd, envVars>>

-----------------------------------------------------------------------------
(* Mutant: one preallocated resource too many *)
wants_more_off_by_one(p) ==
  LET s == stats(p)
  IN  /\ s.on < Config[p].max
      /\ IF Config[p].max_prealloc # 0
         THEN s.free + s.start <= Config[p].max_prealloc
         ELSE demand[p] > 0
      /\ s.start < Config[p].max_starting

(* Pool._allocate_more_resources(): the conditions of its loop but the     *)
(* last one, _too_soon().                                                  *)
wants_more(p) ==
  LET s == stats(p)
  IN  /\ s.on < Config[p].max
      /\ IF Config[p].max_prealloc # 0
         THEN s.free + s.start < Config[p].max_prealloc
         ELSE demand[p] > 0
      /\ s.start < Config[p].max_starting

(* Mutant: the number of rows in use *)
find_count(used) == Cardinality(used)

find_smallest_number(used) ==
  CHOOSE n \in 0..Cardinality(used) : n \notin used /\ \A m \in 0..(n - 1) : m \in used

allocate_pool_id(p) == find_smallest_number({row.id : row \in {x \in ids : x.pool = p}})

allocate_named_counter_value(c) ==
  find_smallest_number({row.value : row \in {x \in counters : x.name = c}})

next_row(r) == rstate[r] = "NONE" /\ \A q \in 1..(r - 1) : rstate[q] # "NONE"

(* Pool.allocate(): the row, its slots, and the AllocWorker *)
allocate(r) ==
  /\ mpc = "alloc"
  /\ wants_more(mpool)
  /\ next_row(r)
  /\ rstate' = [rstate EXCEPT ![r] = "STARTING"]
  /\ rpool' = [rpool EXCEPT ![r] = mpool]
  /\ ids' = ids \cup {[res |-> r, pool |-> mpool, id |-> allocate_pool_id(mpool)]}
  /\ counters' = counters \cup
       {[res |-> r, name |-> c, value |-> allocate_named_counter_value(c)] :
          c \in Config[mpool].named_counters}
  /\ demand' = [demand EXCEPT ![mpool] = @ - 1]
  /\ allocating' = allocating \cup {r}
  /\ UNCHANGED <<mpc, mpool, mclosed, mtickets, mready, mpick, rticket, rsandbox,
                 rreleases, rfailed, ticketRows, releasing, termNew, termCmd, envVars>>

(* _too_soon() may hold only in a pool with a start_delay. *)
allocate_more_resources_break ==
  /\ mpc = "alloc"
  /\ ~wants_more(mpool) \/ Config[mpool].start_delay \/ rstate[MaxResources] # "NONE"
  /\ NextPool("removal", "snapshot")
  /\ UNCHANGED <<demand, mclosed, mtickets, mready, mpick, dbVars, workerVars, envVars>>

-----------------------------------------------------------------------------
(* The loop over ticket_id_queue goes on, or _loop() returns. *)
assign_next(tickets, resource_ids) ==
  IF tickets = {}
  THEN FreshManager(mpc', mpool', demand', mclosed', mtickets', mready', mpick')
  ELSE /\ mpc' = "assign"
       /\ mtickets' = tickets
       /\ mready' = resource_ids
       /\ mpick' = NoPick
       /\ UNCHANGED <<mpool, demand, mclosed>>

(* Manager._assign_tickets(), its first session *)
assign_tickets ==
  /\ mpc = "snapshot"
  /\ assign_next(waiting, UNION {ready(p) : p \in Pools})
  /\ UNCHANGED <<dbVars, workerVars, envVars>>

(* ticket_id_queue.pop_task(): on-demand tickets first, then by age. *)
pop_ticket(t) ==
  LET urgent(u) == ttags[u] \cap on_demand_tags # {}
  IN  /\ t \in mtickets
      /\ \A u \in mtickets : \/ urgent(t) /\ ~urgent(u)
                             \/ urgent(t) = urgent(u) /\ t <= u

(* Mutants: the snapshot is trusted, or the sandbox is not looked at *)
usable_snapshot(t) ==
  {r \in mready :
     /\ rsandbox[r] \in {NoSandbox, tsandbox[t]}
     /\ ttags[t] \subseteq tag_set(rpool[r])}

usable_any_sandbox(t) ==
  {r \in UNION {ready(p) : p \in Pools} \cap mready :
     /\ ttags[t] \subseteq tag_set(rpool[r])}

(* The resources the session of ticket t finds usable *)
usable(t) ==
  {r \in UNION {ready(p) : p \in Pools} \cap mready :
     /\ rsandbox[r] \in {NoSandbox, tsandbox[t]}
     /\ ttags[t] \subseteq tag_set(rpool[r])}

REUSED_RESOURCE_PRIORITY == 500

score(r, t) == get_tags_priority(rpool[r], ttags[t])
               + (IF rsandbox[r] # NoSandbox THEN REUSED_RESOURCE_PRIORITY ELSE 0)

(* queue.pop_task(): the highest score, then the lowest id *)
best(r, t) ==
  /\ r \in usable(t)
  /\ \A q \in usable(t) : score(r, t) > score(q, t) \/ (score(r, t) = score(q, t) /\ r <= q)

(* The session of one ticket up to its commit.  The ticket's state is not  *)
(* looked at again.                                                        *)
assign_ticket_read(t, r) ==
  /\ mpc = "assign"
  /\ pop_ticket(t)
  /\ best(r, t)
  /\ mtickets' = mtickets \ {t}
  /\ mpick' = [ticket |-> t, res |-> r]
  /\ mpc' = "commit"
  /\ UNCHANGED <<mpool, demand, mclosed, mready, dbVars, workerVars, envVars>>

assign_ticket_skip(t) ==
  /\ mpc = "assign"
  /\ pop_ticket(t)
  /\ usable(t) = {}
  /\ assign_next(mtickets \ {t}, mready)
  /\ UNCHANGED <<dbVars, workerVars, envVars>>

assign_ticket_commit ==
  /\ mpc = "commit"
  /\ assign_ticket(mpick.res, mpick.ticket)
  /\ assign_next(mtickets, mready)
  /\ UNCHANGED <<rstate, rpool, rreleases, rfailed, slotRows, tstate, ttags,
                 workerVars, envVars>>

ManagerStep ==
  \/ detect_closed_tickets
  \/ detect_closed_tickets_commit
  \/ decide_where_to_start_on_demand_instances
  \/ \E late \in SUBSET {r \in clean_candidates(mpool) : Config[mpool].reuse} :
       request_resource_removal(late)
  \/ garbage_collector
  \/ \E r \in Resources : allocate(r)
  \/ allocate_more_resources_break
  \/ assign_tickets
  \/ \E t \in Tickets, r \in Resources : assign_ticket_read(t, r)
  \/ \E t \in Tickets : assign_ticket_skip(t)
  \/ assign_ticket_commit
=============================================================================
