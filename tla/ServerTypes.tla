----------------------------- MODULE ServerTypes -----------------------------
(***************************************************************************)
(* Proof that the columns, threads and locals of Server always have their  *)
(* types, whatever the configuration and the bounds are.                   *)
(***************************************************************************)
EXTENDS Server, FiniteSetTheorems, TLAPS

SlotsFinite == IsFiniteSet(ids) /\ IsFiniteSet(counters)

PoolsKnown == \A r \in releasing \cup mclosed : rpool[r] \in Pools

PickKnown == mpc = "commit" => mpick.ticket \in Tickets /\ mpick.res \in Resources

TypeInv == TypeOK /\ SlotsFinite /\ PoolsKnown /\ PickKnown

LEMMA SmallestOf ==
  ASSUME NEW S \in SUBSET Nat, S # {}
  PROVE  \E n \in S : \A m \in S : n <= m
<1> DEFINE below(n) == 0..n
           T == {below(n) : n \in S}
<1>1. T \subseteq FiniteSubsetsOf(Nat)
  <2>1. ASSUME NEW n \in S PROVE IsFiniteSet(0..n) /\ 0..n \in SUBSET Nat
    BY FS_Interval
  <2> QED BY <2>1 DEF FiniteSubsetsOf
<1>2. T # {} OBVIOUS
<1>3. PICK x \in T : \A y \in T : ~ (<<y, x>> \in StrictSubsetOrdering(Nat))
  <2> HIDE DEF T
  <2> QED BY <1>1, <1>2, FS_StrictSubsetOrderingWellFounded, WFMin
<1>4. PICK n \in S : x = below(n) OBVIOUS
<1>5. ASSUME NEW m \in S, m < n PROVE FALSE
  <2>1. 0..m \subseteq 0..n /\ n \in 0..n /\ n \notin 0..m
    BY <1>5
  <2>2. <<0..m, 0..n>> \in StrictSubsetOrdering(Nat)
    BY <2>1 DEF StrictSubsetOrdering
  <2> QED BY <2>2, <1>3, <1>4
<1> QED BY <1>5

LEMMA SmallestNumber ==
  ASSUME NEW used \in SUBSET Nat, IsFiniteSet(used)
  PROVE  /\ find_smallest_number(used) \in 0..Cardinality(used)
         /\ find_smallest_number(used) \notin used
<1> DEFINE all == 0..Cardinality(used)
<1> DEFINE unused == all \ used
<1>1. Cardinality(used) \in Nat
  BY FS_CardinalityType
<1>2. IsFiniteSet(all) /\ Cardinality(all) = Cardinality(used) + 1
  <2>1. 0 \in Int /\ Cardinality(used) \in Int /\ ~(0 > Cardinality(used)) BY <1>1
  <2> QED BY <2>1, FS_Interval, <1>1
<1>3. unused # {}
  <2>1. SUFFICES ASSUME all \subseteq used PROVE FALSE OBVIOUS
  <2>2. Cardinality(all) <= Cardinality(used)
    BY <2>1, FS_Subset
  <2> QED BY <2>2, <1>2, <1>1
<1>4. PICK n \in unused : \A m \in unused : n <= m
  <2>1. unused \in SUBSET Nat BY <1>1
  <2> HIDE DEF unused
  <2> QED BY <2>1, <1>3, SmallestOf
<1>5. n \in 0..Cardinality(used) /\ n \notin used
  BY <1>4
<1>6. ASSUME NEW m \in 0..(n-1) PROVE m \in used
  BY <1>1, <1>4, <1>5, <1>6, SMT
<1> QED BY <1>5, <1>6 DEF find_smallest_number

LEMMA InitTypes == Init => TypeInv
<1> SUFFICES ASSUME Init PROVE TypeInv OBVIOUS
<1> USE DEF Init
<1>1. DatabaseTypeOK
  BY DEF DatabaseInit, DatabaseTypeOK, SandboxIDs, None, TStates, RStates
<1>2. WorkersTypeOK
  BY BoundsAssumption DEF WorkersInit, WorkersTypeOK, NoWorkers
<1>3. ManagerTypeOK
  BY SizeAssumption DEF FreshManager, ManagerTypeOK, NoDemand, NoPick, Phases, Pools, None
<1>4. SlotsFinite
  BY FS_EmptySet DEF DatabaseInit, SlotsFinite
<1>5. PoolsKnown
  BY DEF PoolsKnown, WorkersInit, NoWorkers, FreshManager
<1>6. PickKnown
  BY DEF PickKnown, FreshManager
<1> QED BY <1>1, <1>2, <1>3, <1>4, <1>5, <1>6 DEF TypeInv, TypeOK, NoMaint

LEMMA WorkerTypes ==
  ASSUME TypeInv, NEW r \in Resources, Worker_step(r)
  PROVE  TypeInv'
<1> USE DEF TypeInv, TypeOK, DatabaseTypeOK, WorkersTypeOK, SlotsFinite, PoolsKnown, PickKnown,
            Spend, dbVars, resourceRows, slotRows, ticketRows, envVars, managerVars,
            ManagerTypeOK
<1>0. UNCHANGED <<managerVars, watch, maint>>
  BY DEF Worker_step
<1>1. CASE AllocWorker_up(r)
  BY <1>0, <1>1 DEF AllocWorker_up, RStates
<1>2. CASE AllocWorker_failed(r)
  <2>1. IsFiniteSet(ids') /\ IsFiniteSet(counters')
    BY <1>2, FS_Subset DEF AllocWorker_failed, delete_slots
  <2> QED BY <1>0, <1>2, <2>1 DEF AllocWorker_failed, delete_slots, RStates
<1>3. ASSUME NEW ok \in BOOLEAN, ReleaseWorker_job(r, ok) PROVE TypeInv'
  <2>1. r \in releasing /\ rpool[r] \in Pools
    BY <1>3 DEF ReleaseWorker_job
  <2>2. Config[rpool[r]].reuse_max_count + 1 \in Nat
    BY <2>1, ConfigAssumption DEF PoolConfigOK
  <2> QED BY <1>0, <1>3, <2>1, <2>2 DEF ReleaseWorker_job, RStates
<1>4. CASE TerminateWorker_job(r)
  BY <1>0, <1>4 DEF TerminateWorker_job, RStates
<1>5. CASE TerminateWorker_close(r)
  <2>1. IsFiniteSet(ids') /\ IsFiniteSet(counters')
    BY <1>5, FS_Subset DEF TerminateWorker_close, delete_slots
  <2> QED BY <1>0, <1>5, <2>1 DEF TerminateWorker_close, delete_slots, RStates
<1>6. CASE Worker_run_raises(r)
  BY <1>0, <1>6 DEF Worker_run_raises
<1> QED BY <1>1, <1>2, <1>3, <1>4, <1>5, <1>6
        DEF Worker_step, AllocWorker, ReleaseWorker, TerminateWorker

LEMMA OtherTypes ==
  ASSUME TypeInv, Next, ~Manager_step, \A r \in Resources : ~Worker_step(r)
  PROVE  TypeInv'
<1> USE DEF TypeInv, TypeOK, DatabaseTypeOK, WorkersTypeOK, SlotsFinite, PoolsKnown, PickKnown,
            Spend, dbVars, resourceRows, slotRows, ticketRows, workerVars, envVars,
            managerVars, ManagerTypeOK
<1>1. ASSUME NEW due \in SUBSET to_check, Watcher_loop(due) PROVE TypeInv'
  <2>1. to_check \subseteq Resources
    BY DEF to_check, up, in_pool
  <2> QED BY <1>1, <2>1 DEF Watcher_loop
<1>2. ASSUME NEW r \in Resources, NEW ok \in BOOLEAN, Watcher_check(r, ok) PROVE TypeInv'
  BY <1>2 DEF Watcher_check
<1>3. ASSUME NEW t \in Tickets, NEW request \in Requests, takeTicket(t, request)
      PROVE  TypeInv'
  BY <1>3, RequestsAssumption DEF takeTicket, TStates, SandboxIDs
<1>4. ASSUME NEW t \in Tickets, closeTicket(t) PROVE TypeInv'
  BY <1>4 DEF closeTicket, TStates
<1>5. ASSUME NEW mode \in MaintModes, NEW todo \in delete_lists(mode),
             resource_delete(mode, todo)
      PROVE  TypeInv'
  <2>1. mode \in {"ids", "all", "unused"}
    BY MaintModesAssumption
  <2>2. todo \in SUBSET Resources
    BY <2>1 DEF delete_lists, up, ready, in_pool
  <2> QED BY <1>5, <2>1, <2>2 DEF resource_delete
<1>6. ASSUME NEW r \in Resources, resource_delete_kill(r) PROVE TypeInv'
  BY <1>6 DEF resource_delete_kill, killed_tickets, killed_resources, NoMaint,
              TStates, RStates
<1>7. CASE restart
  BY <1>7, SizeAssumption DEF restart, fix_broken_after_restart, NoWorkers, FreshManager,
              RStates, NoDemand, NoPick, Phases, Pools
<1> QED BY <1>1, <1>2, <1>3, <1>4, <1>5, <1>6, <1>7 DEF Next, Watcher_step

-----------------------------------------------------------------------------
(* The numbers allocate() takes are natural numbers. *)

LEMMA ColumnFinite ==
  ASSUME NEW rows, IsFiniteSet(rows)
  PROVE  /\ IsFiniteSet({row.id : row \in rows})
         /\ Cardinality({row.id : row \in rows}) <= Cardinality(rows)
         /\ IsFiniteSet({row.value : row \in rows})
<1>1. [row \in rows |-> row.id] \in Surjection(rows, {row.id : row \in rows})
  BY DEF Surjection
<1>2. [row \in rows |-> row.value] \in Surjection(rows, {row.value : row \in rows})
  BY DEF Surjection
<1> QED BY <1>1, <1>2, FS_Surjection

LEMMA NextPoolTypes ==
  ASSUME mpool \in Pools, NEW again, NEW after, NextPool(again, after)
  PROVE  mpool' \in Pools /\ mpc' \in {again, after}
BY SizeAssumption DEF NextPool, Pools

LEMMA AllocateTypes ==
  ASSUME TypeInv, NEW r \in Resources, allocate(r)
  PROVE  /\ ids' \in SUBSET IDWithinPool /\ IsFiniteSet(ids')
         /\ counters' \in SUBSET NamedCounter /\ IsFiniteSet(counters')
<1> USE DEF TypeInv, TypeOK, DatabaseTypeOK, ManagerTypeOK, SlotsFinite
<1>1. allocate_pool_id(mpool) \in Nat
  <2> DEFINE rows == {x \in ids : x.pool = mpool}
             used == {row.id : row \in rows}
  <2>1. IsFiniteSet(rows)
    BY FS_Subset
  <2>2. IsFiniteSet(used)
    <3> HIDE DEF rows
    <3> QED BY <2>1, ColumnFinite
  <2>3. used \in SUBSET Nat
    BY DEF IDWithinPool
  <2>4. find_smallest_number(used) \in Nat
    <3> HIDE DEF used
    <3> QED BY <2>2, <2>3, SmallestNumber, FS_CardinalityType
  <2> QED BY <2>3, <2>4 DEF allocate_pool_id
<1>2. ASSUME NEW n \in Counters PROVE allocate_named_counter_value(n) \in Nat
  <2> DEFINE rows == {x \in counters : x.name = n}
             used == {row.value : row \in rows}
  <2>1. IsFiniteSet(rows)
    BY FS_Subset
  <2>2. IsFiniteSet(used)
    <3> HIDE DEF rows
    <3> QED BY <2>1, ColumnFinite
  <2>3. used \in SUBSET Nat
    BY DEF NamedCounter
  <2>4. find_smallest_number(used) \in Nat
    <3> HIDE DEF used
    <3> QED BY <2>2, <2>3, SmallestNumber, FS_CardinalityType
  <2> QED BY <2>3, <2>4 DEF allocate_named_counter_value
<1>3. Config[mpool].named_counters \subseteq Counters
      /\ IsFiniteSet(Config[mpool].named_counters)
  BY ConfigAssumption DEF PoolConfigOK
<1>4. ids' \in SUBSET IDWithinPool /\ IsFiniteSet(ids')
  <2> DEFINE row == [res |-> r, pool |-> mpool, id |-> allocate_pool_id(mpool)]
  <2>1. ids' = ids \cup {row}
    BY DEF allocate
  <2>2. row \in IDWithinPool
    BY <1>1 DEF IDWithinPool
  <2>3. IsFiniteSet(ids \cup {row})
    <3> HIDE DEF row
    <3> QED BY FS_AddElement
  <2> QED BY <2>1, <2>2, <2>3
<1>5. counters' \in SUBSET NamedCounter
  BY <1>2, <1>3 DEF allocate, NamedCounter
<1>6. IsFiniteSet(counters')
  <2> DEFINE names == Config[mpool].named_counters
             row(n) == [res |-> r, name |-> n, value |-> allocate_named_counter_value(n)]
  <2>1. [n \in names |-> row(n)] \in Surjection(names, {row(n) : n \in names})
    BY DEF Surjection
  <2>2. IsFiniteSet({row(n) : n \in names})
    BY <1>3, <2>1, FS_Surjection
  <2>3. counters' = counters \cup {row(n) : n \in names}
    BY DEF allocate
  <2> HIDE DEF row
  <2> QED BY <2>2, <2>3, FS_Union
<1> QED BY <1>4, <1>5, <1>6

-----------------------------------------------------------------------------
LEMMA DemandTypes == start_on_demand \in [Pools -> Int]
<1>1. ASSUME NEW p \in Pools, NEW starts PROVE starts_in(p, starts) \in Nat
  <2>1. IsFiniteSet(Tickets)
    BY SizeAssumption, FS_Interval DEF Tickets
  <2>2. IsFiniteSet({t \in Tickets : <<t, p>> \in starts})
    BY <2>1, FS_Subset
  <2> QED BY <2>2, FS_CardinalityType DEF starts_in
<1> QED BY <1>1 DEF start_on_demand

LEMMA ManagerTypes ==
  ASSUME TypeInv, Manager_step
  PROVE  TypeInv'
<1> USE DEF TypeInv, TypeOK, DatabaseTypeOK, WorkersTypeOK, SlotsFinite, PoolsKnown, PickKnown,
            dbVars, resourceRows, slotRows, ticketRows, workerVars, envVars,
            ManagerTypeOK
<1>0. UNCHANGED <<watch, maint>>
  BY DEF Manager_step
<1>1. CASE detect_closed_tickets
  <2>1. mclosed' \subseteq taken(mpool) /\ \A r \in taken(mpool) : rpool[r] = mpool
    BY <1>1 DEF detect_closed_tickets, taken, up, in_pool
  <2>2. mpool' \in Pools /\ mpc' \in Phases \ {"commit"}
    BY <1>1, NextPoolTypes DEF detect_closed_tickets, decide_phase, Phases
  <2> QED BY <1>0, <1>1, <2>1, <2>2 DEF detect_closed_tickets, taken, up, in_pool
<1>2. CASE detect_closed_tickets_commit
  <2>1. mpool' \in Pools /\ mpc' \in Phases \ {"commit"}
    BY <1>2, NextPoolTypes DEF detect_closed_tickets_commit, decide_phase, Phases
  <2> QED BY <1>0, <1>2, <2>1 DEF detect_closed_tickets_commit, release_resource, RStates
<1>3. CASE decide_where_to_start_on_demand_instances
  BY <1>0, <1>3, DemandTypes DEF decide_where_to_start_on_demand_instances, Phases
<1>4. ASSUME NEW late, request_resource_removal(late) PROVE TypeInv'
  BY <1>0, <1>4 DEF request_resource_removal, killed_tickets, killed_resources,
                    TStates, RStates, Phases
<1>5. CASE garbage_collector
  BY <1>0, <1>5 DEF garbage_collector, Phases
<1>6. ASSUME NEW r \in Resources, allocate(r) PROVE TypeInv'
  <2>1. /\ ids' \in SUBSET IDWithinPool /\ IsFiniteSet(ids')
        /\ counters' \in SUBSET NamedCounter /\ IsFiniteSet(counters')
    BY <1>6, AllocateTypes
  <2>2. /\ rstate' \in [Resources -> RStates \cup {"NONE"}]
        /\ rpool' \in [Resources -> Pools \cup {None}]
        /\ demand' \in [Pools -> Int]
        /\ allocating' \in SUBSET Resources
        /\ PoolsKnown' /\ PickKnown'
    BY <1>6 DEF allocate, RStates
  <2> QED BY <1>0, <1>6, <2>1, <2>2 DEF allocate
<1>7. CASE allocate_more_resources_break
  <2>1. mpool' \in Pools /\ mpc' \in Phases \ {"commit"}
    BY <1>7, NextPoolTypes DEF allocate_more_resources_break, Phases
  <2> QED BY <1>0, <1>7, <2>1 DEF allocate_more_resources_break
<1>8. ASSUME NEW tickets \in SUBSET Tickets, NEW resource_ids \in SUBSET Resources,
             assign_next(tickets, resource_ids)
      PROVE  ManagerTypeOK' /\ PickKnown' /\ mclosed' \in {{}, mclosed}
  BY <1>8, SizeAssumption DEF assign_next, FreshManager, NoDemand, NoPick, Phases, Pools
<1>9. CASE assign_tickets
  <2>1. waiting \in SUBSET Tickets /\ UNION {ready(p) : p \in Pools} \in SUBSET Resources
    BY DEF waiting, ready, up, in_pool
  <2> QED BY <1>0, <1>8, <1>9, <2>1 DEF assign_tickets
<1>10. ASSUME NEW t \in Tickets, NEW r \in Resources, assign_ticket_read(t, r)
       PROVE  TypeInv'
  BY <1>0, <1>10 DEF assign_ticket_read, Phases
<1>11. ASSUME NEW t \in Tickets, assign_ticket_skip(t) PROVE TypeInv'
  BY <1>0, <1>8, <1>11 DEF assign_ticket_skip
<1>12. CASE assign_ticket_commit
  <2>1. ManagerTypeOK' /\ PickKnown' /\ mclosed' \in {{}, mclosed}
    BY <1>8, <1>12 DEF assign_ticket_commit
  <2>2. mpick.ticket \in Tickets /\ mpick.res \in Resources
    BY <1>12 DEF assign_ticket_commit
  <2> QED BY <1>0, <1>12, <2>1, <2>2
          DEF assign_ticket_commit, assign_ticket, uuid, SandboxIDs
<1> QED BY <1>1, <1>2, <1>3, <1>4, <1>5, <1>6, <1>7, <1>9, <1>10, <1>11, <1>12
        DEF Manager_step, ManagerStep

-----------------------------------------------------------------------------
LEMMA StepTypes == TypeInv /\ [Next]_vars => TypeInv'
<1> SUFFICES ASSUME TypeInv, [Next]_vars PROVE TypeInv' OBVIOUS
<1>1. CASE UNCHANGED vars
  BY <1>1 DEF vars, TypeInv, TypeOK, DatabaseTypeOK, WorkersTypeOK, SlotsFinite,
              PoolsKnown, PickKnown, dbVars, resourceRows, slotRows, ticketRows, workerVars,
              envVars, managerVars, ManagerTypeOK
<1>2. CASE Next
  BY <1>2, ManagerTypes, WorkerTypes, OtherTypes
<1> QED BY <1>1, <1>2

LEMMA TypesInvariant == Spec => []TypeInv
BY InitTypes, StepTypes, PTL DEF Spec

(* Every column, thread and local of the server holds a value of its type: *)
(* the numbers that allocate() finds are natural numbers, no state of a    *)
(* ticket is written to a resource.                                        *)
THEOREM Types == Spec => []TypeOK
<1>1. TypeInv => TypeOK
  BY DEF TypeInv
<1> QED BY <1>1, TypesInvariant, PTL
=============================================================================
