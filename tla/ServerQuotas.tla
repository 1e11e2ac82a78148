---------------------------- MODULE ServerQuotas ----------------------------
(***************************************************************************)
(* Proofs that the pools keep to their limits, for every configuration and *)
(* all bounds: pool ids and the values of named counters are exclusive and *)
(* pool ids below max; max_starting and max_prealloc are kept; where there *)
(* is no cmd_release, so are the limits of reuse; and what was released    *)
(* badly is removed.                                                       *)
(***************************************************************************)
EXTENDS ServerSafety

(* A pool id is held by one row of a pool, whose resource has not ended.   *)
HeldByLiveRows ==
  /\ \A x \in ids : x.res \in on(x.pool) /\ rstate[x.res] # "NONE"
  /\ \A x, y \in ids : x.res = y.res => x = y

SlotsInv == HeldByLiveRows /\ SlotsExclusive

(* No more numbers are in use than the pool has live resources, ... *)
LEMMA NumbersInUse ==
  ASSUME TypeInv, HeldByLiveRows, NEW p \in Pools
  PROVE  /\ Cardinality({row.id : row \in {x \in ids : x.pool = p}}) <= Cardinality(on(p))
         /\ Cardinality({row.id : row \in {x \in ids : x.pool = p}}) \in Nat
         /\ Cardinality(on(p)) \in Nat
<1> DEFINE rows == {x \in ids : x.pool = p}
           used == {row.id : row \in rows}
<1>1. IsFiniteSet(rows) /\ IsFiniteSet(used)
  BY FS_Subset, ColumnFinite DEF TypeInv, SlotsFinite
<1>2. Cardinality(used) <= Cardinality(rows)
  BY <1>1, ColumnFinite
<1>3. IsFiniteSet(on(p))
  <2>1. IsFiniteSet(Resources)
    BY SizeAssumption, FS_Interval DEF Resources
  <2>2. on(p) \in SUBSET Resources
    BY DEF on, in_pool
  <2> QED BY <2>1, <2>2, FS_Subset
<1>4. [row \in rows |-> row.res] \in Injection(rows, on(p))
  BY DEF Injection, HeldByLiveRows, IsInjective
<1>5. Cardinality(rows) <= Cardinality(on(p))
  BY <1>3, <1>4, FS_Injection
<1>6. /\ Cardinality(rows) \in Nat
      /\ Cardinality(used) \in Nat
      /\ Cardinality(on(p)) \in Nat
  BY <1>1, <1>3, FS_CardinalityType
<1> QED BY <1>2, <1>5, <1>6

(* ... so that the smallest free one is below max when allocate() runs. *)
LEMMA FreshNumbers ==
  ASSUME TypeInv, HeldByLiveRows, NEW r \in Resources, allocate(r)
  PROVE  /\ allocate_pool_id(mpool) < Config[mpool].max
         /\ \A x \in ids : x.pool = mpool => x.id # allocate_pool_id(mpool)
         /\ \A x \in counters : x.value # allocate_named_counter_value(x.name)
<1> DEFINE rows == {x \in ids : x.pool = mpool}
           used == {row.id : row \in rows}
<1>0. mpool \in Pools
  BY DEF TypeInv, TypeOK, ManagerTypeOK
<1>1. IsFiniteSet(used) /\ used \in SUBSET Nat
  <2>1. IsFiniteSet(rows)
    BY FS_Subset DEF TypeInv, SlotsFinite
  <2>2. used \in SUBSET Nat
    BY DEF TypeInv, TypeOK, DatabaseTypeOK, IDWithinPool
  <2> QED BY <2>1, <2>2, ColumnFinite
<1>2. /\ find_smallest_number(used) \in 0..Cardinality(used)
      /\ find_smallest_number(used) \notin used
  <2> HIDE DEF used
  <2> QED BY <1>1, SmallestNumber
<1>3. allocate_pool_id(mpool) = find_smallest_number(used)
  BY DEF allocate_pool_id
<1>4. Cardinality(on(mpool)) < Config[mpool].max
  BY DEF allocate, wants_more, stats
<1>5. /\ Cardinality(used) <= Cardinality(on(mpool))
      /\ Cardinality(used) \in Nat
      /\ Cardinality(on(mpool)) \in Nat
  BY <1>0, NumbersInUse
<1>6. Config[mpool].max \in Nat
  BY <1>0, ConfigAssumption DEF PoolConfigOK
<1>7. allocate_pool_id(mpool) < Config[mpool].max
  <2> HIDE DEF used
  <2> QED BY <1>2, <1>3, <1>4, <1>5, <1>6
<1>8. ASSUME NEW x \in ids, x.pool = mpool PROVE x.id # allocate_pool_id(mpool)
  <2>1. x.id \in used
    BY <1>8
  <2> HIDE DEF used
  <2> QED BY <1>2, <1>3, <2>1
<1>9. ASSUME NEW x \in counters PROVE x.value # allocate_named_counter_value(x.name)
  <2> DEFINE taken_values == {row.value : row \in {y \in counters : y.name = x.name}}
  <2>1. IsFiniteSet({y \in counters : y.name = x.name})
    BY FS_Subset DEF TypeInv, SlotsFinite
  <2>2. IsFiniteSet(taken_values)
    BY <2>1, ColumnFinite
  <2>3. taken_values \in SUBSET Nat /\ x.value \in taken_values
    BY DEF TypeInv, TypeOK, DatabaseTypeOK, NamedCounter
  <2>4. find_smallest_number(taken_values) \notin taken_values
    <3> HIDE DEF taken_values
    <3> QED BY <2>2, <2>3, SmallestNumber
  <2>5. allocate_named_counter_value(x.name) = find_smallest_number(taken_values)
    BY DEF allocate_named_counter_value
  <2> HIDE DEF taken_values
  <2> QED BY <2>3, <2>4, <2>5
<1> QED BY <1>7, <1>8, <1>9

-----------------------------------------------------------------------------
LEMMA AllocateSlots ==
  ASSUME TypeInv, SlotsInv, NEW r \in Resources, allocate(r)
  PROVE  SlotsInv'
<1> DEFINE row == [res |-> r, pool |-> mpool, id |-> allocate_pool_id(mpool)]
<1> USE DEF SlotsInv, TypeInv, TypeOK, DatabaseTypeOK, ManagerTypeOK
<1>1. /\ ids' = ids \cup {row}
      /\ \A x \in counters' :
           \/ x \in counters
           \/ x.res = r /\ x.value = allocate_named_counter_value(x.name)
  BY DEF allocate
<1>2. /\ allocate_pool_id(mpool) < Config[mpool].max
      /\ \A x \in ids : x.pool = mpool => x.id # allocate_pool_id(mpool)
      /\ \A x \in counters : x.value # allocate_named_counter_value(x.name)
  BY FreshNumbers
<1>3. /\ \A q \in Resources : q # r => rstate'[q] = rstate[q] /\ rpool'[q] = rpool[q]
      /\ rstate[r] = "NONE" /\ rstate'[r] = "STARTING" /\ rpool'[r] = mpool
  BY DEF allocate, next_row
<1>4. \A x \in ids : x.res \in Resources /\ x.res # r
  BY <1>3 DEF HeldByLiveRows, IDWithinPool
<1>5. HeldByLiveRows'
  <2>1. \A x \in ids' : x.res \in on(x.pool)' /\ rstate'[x.res] # "NONE"
    BY <1>1, <1>3, <1>4 DEF HeldByLiveRows, on, in_pool
  <2>2. \A x, y \in ids' : x.res = y.res => x = y
    BY <1>1, <1>4 DEF HeldByLiveRows
  <2> QED BY <2>1, <2>2 DEF HeldByLiveRows
<1>6. SlotsExclusive'
  <2>1. \A x, y \in ids' : x.pool = y.pool /\ x.id = y.id => x.res = y.res
    BY <1>1, <1>2 DEF SlotsExclusive
  <2>2. \A x, y \in counters' : x.name = y.name /\ x.value = y.value => x.res = y.res
    BY <1>1, <1>2 DEF SlotsExclusive
  <2>3. \A x \in ids' : x.id < Config[x.pool].max
    BY <1>1, <1>2 DEF SlotsExclusive
  <2> QED BY <2>1, <2>2, <2>3 DEF SlotsExclusive
<1> QED BY <1>5, <1>6

(* A row ends only together with its numbers. *)
LEMMA EndSlots ==
  ASSUME TypeInv, SlotsInv, NEW r \in Resources,
         rstate' = [rstate EXCEPT ![r] = "ENDED"], delete_slots(r), UNCHANGED rpool
  PROVE  SlotsInv'
BY DEF SlotsInv, TypeInv, TypeOK, DatabaseTypeOK, HeldByLiveRows, SlotsExclusive, on, in_pool,
       delete_slots, IDWithinPool

(* Every other step keeps the numbers, and ends no row. *)
LEMMA KeepSlots ==
  ASSUME TypeInv, SlotsInv, UNCHANGED <<ids, counters, rpool>>,
         \A r \in Resources : \/ rstate'[r] = rstate[r]
                              \/ rstate'[r] \notin {"NONE", "ENDED"}
  PROVE  SlotsInv'
BY DEF SlotsInv, TypeInv, TypeOK, DatabaseTypeOK, HeldByLiveRows, SlotsExclusive, on, in_pool,
       IDWithinPool

LEMMA WorkerSlots ==
  ASSUME TypeInv, SlotsInv, NEW r \in Resources, Worker_step(r)
  PROVE  SlotsInv'
<1> USE DEF dbVars, resourceRows, slotRows
<1>1. CASE AllocWorker_failed(r) \/ TerminateWorker_close(r)
  BY <1>1, EndSlots DEF AllocWorker_failed, TerminateWorker_close
<1>2. CASE \/ AllocWorker_up(r) \/ ReleaseWorker(r)
           \/ TerminateWorker_job(r) \/ Worker_run_raises(r)
  <2>1. /\ UNCHANGED <<ids, counters, rpool>>
        /\ \/ UNCHANGED rstate
           \/ rstate' = [rstate EXCEPT ![r] = "UP"]
           \/ rstate' = [rstate EXCEPT ![r] = "DELETING"]
    BY <1>2 DEF AllocWorker_up, ReleaseWorker, ReleaseWorker_job, TerminateWorker_job,
                Worker_run_raises
  <2>2. \A q \in Resources : rstate'[q] = rstate[q] \/ rstate'[q] \in {"UP", "DELETING"}
    BY <2>1 DEF TypeInv, TypeOK, DatabaseTypeOK
  <2> QED BY <2>1, <2>2, KeepSlots
<1> QED BY <1>1, <1>2 DEF Worker_step, AllocWorker, TerminateWorker

LEMMA ManagerSlots ==
  ASSUME TypeInv, SlotsInv, Manager_step
  PROVE  SlotsInv'
<1> USE DEF dbVars, resourceRows, slotRows
<1>1. CASE detect_closed_tickets_commit
  BY <1>1, KeepSlots DEF detect_closed_tickets_commit
<1>2. ASSUME NEW late, request_resource_removal(late) PROVE SlotsInv'
  BY <1>2, KeepSlots DEF request_resource_removal, killed_resources
<1>3. ASSUME NEW r \in Resources, allocate(r) PROVE SlotsInv'
  BY <1>3, AllocateSlots
<1>4. CASE UNCHANGED <<ids, counters, rpool, rstate>>
  BY <1>4, KeepSlots
<1> QED BY <1>1, <1>2, <1>3, <1>4
        DEF Manager_step, ManagerStep, detect_closed_tickets, assign_tickets,
            decide_where_to_start_on_demand_instances, garbage_collector,
            allocate_more_resources_break, assign_ticket_read, assign_ticket_skip,
            assign_ticket_commit

LEMMA OtherSlots ==
  ASSUME TypeInv, SlotsInv, Next, ~Manager_step, \A r \in Resources : ~Worker_step(r)
  PROVE  SlotsInv'
<1> USE DEF dbVars, resourceRows, slotRows
<1>1. ASSUME NEW r \in Resources, resource_delete_kill(r) PROVE SlotsInv'
  BY <1>1, KeepSlots DEF resource_delete_kill, killed_resources
<1>2. CASE restart
  BY <1>2, KeepSlots DEF restart, fix_broken_after_restart
<1>3. CASE UNCHANGED <<ids, counters, rpool, rstate>>
  BY <1>3, KeepSlots
<1> QED BY <1>1, <1>2, <1>3
        DEF Next, takeTicket, closeTicket, Watcher_step, Watcher_loop, Watcher_check,
            resource_delete

LEMMA StepSlots == TypeInv /\ SlotsInv /\ [Next]_vars => SlotsInv'
<1>1. ASSUME TypeInv, SlotsInv, UNCHANGED vars PROVE SlotsInv'
  BY <1>1, KeepSlots DEF vars, dbVars, resourceRows, slotRows
<1>2. ASSUME TypeInv, SlotsInv, Next PROVE SlotsInv'
  BY <1>2, ManagerSlots, WorkerSlots, OtherSlots
<1> QED BY <1>1, <1>2

(* No two resources of a pool have the same pool id, no two resources the  *)
(* same value of a named counter, and pool ids are below the pool's max,   *)
(* whatever starts fail, restarts and repeated terminations happen.        *)
THEOREM SlotsAreExclusive == Spec => []SlotsExclusive
<1>1. Init => SlotsInv
  BY DEF Init, DatabaseInit, SlotsInv, HeldByLiveRows, SlotsExclusive
<1>2. TypeInv /\ SlotsInv /\ [Next]_vars => SlotsInv'
  BY StepSlots
<1>3. SlotsInv => SlotsExclusive
  BY DEF SlotsInv
<1> QED BY <1>1, <1>2, <1>3, TypesInvariant, PTL DEF Spec

-----------------------------------------------------------------------------
Starting(p) == {r \in on(p) : rstate[r] = "STARTING"}
Free(p) == {r \in {q \in up(p) : rticket[q] = None} : rreleases[r] = 0}

(* What max_prealloc is about: what starts will be free. *)
Supply(p) == Starting(p) \cup Free(p)

(* What is released was used: it is not free again when cmd_release ends.  *)
ReleasedWereUsed == \A r \in releasing : rreleases[r] > 0

QuotasInv ==
  /\ \A p \in Pools :
       /\ Cardinality(Starting(p)) <= Config[p].max_starting
       /\ Config[p].max_prealloc # 0 => Cardinality(Supply(p)) <= Config[p].max_prealloc
  /\ ReleasedWereUsed

LEMMA SuppliesAreFinite ==
  \A p \in Pools : /\ IsFiniteSet(Starting(p)) /\ IsFiniteSet(Free(p))
                   /\ IsFiniteSet(Supply(p))
                   /\ Cardinality(Starting(p)) \in Nat /\ Cardinality(Free(p)) \in Nat
                   /\ Cardinality(Supply(p)) \in Nat
                   /\ Cardinality(Supply(p)) = Cardinality(Free(p)) + Cardinality(Starting(p))
<1> SUFFICES ASSUME NEW p \in Pools
             PROVE  /\ IsFiniteSet(Starting(p)) /\ IsFiniteSet(Free(p))
                    /\ IsFiniteSet(Supply(p))
                    /\ Cardinality(Starting(p)) \in Nat /\ Cardinality(Free(p)) \in Nat
                    /\ Cardinality(Supply(p)) \in Nat
                    /\ Cardinality(Supply(p)) = Cardinality(Free(p)) + Cardinality(Starting(p))
  OBVIOUS
<1>1. IsFiniteSet(Resources)
  BY SizeAssumption, FS_Interval DEF Resources
<1>2. Starting(p) \in SUBSET Resources /\ Free(p) \in SUBSET Resources
  BY DEF Starting, Free, on, up, in_pool
<1>3. IsFiniteSet(Starting(p)) /\ IsFiniteSet(Free(p)) /\ IsFiniteSet(Supply(p))
  BY <1>1, <1>2, FS_Subset, FS_Union DEF Supply
<1>4. Starting(p) \cap Free(p) = {}
  BY DEF Starting, Free, up
<1>5. Cardinality(Starting(p) \cap Free(p)) = 0
  BY <1>4, FS_EmptySet
<1>6. /\ Cardinality(Starting(p)) \in Nat /\ Cardinality(Free(p)) \in Nat
      /\ Cardinality(Supply(p)) \in Nat
  BY <1>3, FS_CardinalityType
<1>7. Cardinality(Supply(p)) = Cardinality(Starting(p)) + Cardinality(Free(p))
                                 - Cardinality(Starting(p) \cap Free(p))
  BY <1>3, FS_Union DEF Supply
<1> QED BY <1>3, <1>5, <1>6, <1>7

(* Quotas are kept by what starts nothing and frees nothing. *)
LEMMA NoGrowth ==
  ASSUME QuotasInv, ReleasedWereUsed',
         \A p \in Pools : Starting(p)' \subseteq Starting(p) /\ Supply(p)' \subseteq Supply(p)
  PROVE  QuotasInv'
<1>1. ASSUME NEW p \in Pools
      PROVE  /\ Cardinality(Starting(p)') <= Config[p].max_starting
             /\ Config[p].max_prealloc # 0 => Cardinality(Supply(p)') <= Config[p].max_prealloc
  <2>1. /\ Cardinality(Starting(p)') <= Cardinality(Starting(p))
        /\ Cardinality(Supply(p)') <= Cardinality(Supply(p))
        /\ Cardinality(Starting(p)') \in Nat /\ Cardinality(Supply(p)') \in Nat
    BY <1>1, SuppliesAreFinite, FS_Subset, FS_CardinalityType
  <2>2. Config[p].max_starting \in Nat /\ Config[p].max_prealloc \in Nat
    BY ConfigAssumption DEF PoolConfigOK
  <2> QED BY <2>1, <2>2, SuppliesAreFinite DEF QuotasInv
<1> QED BY <1>1 DEF QuotasInv

(* The rows that are starting or free after a step were so before it. *)
NoNewSupply ==
  /\ UNCHANGED rpool
  /\ \A r \in Resources :
       /\ rstate'[r] = "STARTING" => rstate[r] = "STARTING"
       /\ rstate'[r] = "UP" /\ rticket'[r] = None /\ rreleases'[r] = 0
            => \/ rstate[r] = "STARTING"
               \/ rstate[r] = "UP" /\ rticket[r] = None /\ rreleases[r] = 0

LEMMA RowsDoNotGrow ==
  ASSUME QuotasInv, ReleasedWereUsed', NoNewSupply
  PROVE  QuotasInv'
<1>1. \A p \in Pools : Starting(p)' \subseteq Starting(p) /\ Supply(p)' \subseteq Supply(p)
  BY DEF NoNewSupply, Supply, Starting, Free, on, up, in_pool
<1> QED BY <1>1, NoGrowth

(* _allocate_more_resources() compares before each start. *)
LEMMA AllocateQuotas ==
  ASSUME TypeInv, QuotasInv, NEW r \in Resources, allocate(r)
  PROVE  QuotasInv'
<1> USE DEF TypeInv, TypeOK, DatabaseTypeOK
<1>1. PICK here \in Pools : here = mpool
  BY DEF ManagerTypeOK
<1>2. /\ \A q \in Resources : q # r => rstate'[q] = rstate[q] /\ rpool'[q] = rpool[q]
      /\ rstate[r] = "NONE" /\ rstate'[r] = "STARTING" /\ rpool'[r] = here
      /\ UNCHANGED <<rticket, rreleases, releasing>>
  BY <1>1 DEF allocate, next_row
<1>3. \A p \in Pools : p # here => /\ Starting(p)' \subseteq Starting(p)
                                    /\ Supply(p)' \subseteq Supply(p)
  BY <1>2 DEF Supply, Starting, Free, on, up, in_pool
<1>4. /\ Starting(here)' \subseteq Starting(here) \cup {r}
      /\ Supply(here)' \subseteq Supply(here) \cup {r}
  <2>1. \A q \in Resources \ {r} : /\ rstate'[q] = rstate[q] /\ rpool'[q] = rpool[q]
                                  /\ rticket'[q] = rticket[q] /\ rreleases'[q] = rreleases[q]
    BY <1>2
  <2> HIDE DEF TypeInv, TypeOK, DatabaseTypeOK
  <2>2. Starting(here)' \subseteq Starting(here) \cup {r}
    BY <2>1 DEF Starting, on, in_pool
  <2>3. Free(here)' \subseteq Free(here) \cup {r}
    BY <2>1 DEF Free, up, on, in_pool
  <2> QED BY <2>2, <2>3 DEF Supply
<1> HIDE DEF TypeInv, TypeOK, DatabaseTypeOK
<1>5. ASSUME NEW S, IsFiniteSet(S), NEW T, T \subseteq S \cup {r}
      PROVE  /\ Cardinality(T) <= Cardinality(S) + 1
             /\ Cardinality(T) \in Nat /\ Cardinality(S) \in Nat
  <2>3. /\ IsFiniteSet(S \cup {r})
        /\ Cardinality(S \cup {r}) = IF r \in S THEN Cardinality(S) ELSE Cardinality(S) + 1
    BY <1>5, FS_AddElement
  <2>1. IsFiniteSet(S \cup {r}) /\ Cardinality(S \cup {r}) <= Cardinality(S) + 1
    BY <1>5, <2>3, FS_CardinalityType
  <2>2. IsFiniteSet(T) /\ Cardinality(T) <= Cardinality(S \cup {r})
    BY <1>5, <2>1, FS_Subset
  <2> QED BY <1>5, <2>1, <2>2, FS_CardinalityType
<1>6. /\ Cardinality(Starting(here)) < Config[here].max_starting
      /\ Config[here].max_prealloc # 0
           => Cardinality(Free(here)) + Cardinality(Starting(here))
                < Config[here].max_prealloc
  BY <1>1 DEF allocate, wants_more, stats, Starting, Free
<1>7. Config[here].max_starting \in Nat /\ Config[here].max_prealloc \in Nat
  BY <1>1, ConfigAssumption DEF PoolConfigOK
<1>8. /\ Cardinality(Starting(here)') <= Config[here].max_starting
      /\ Config[here].max_prealloc # 0
           => Cardinality(Supply(here)') <= Config[here].max_prealloc
  <2>1. /\ Cardinality(Starting(here)') <= Cardinality(Starting(here)) + 1
        /\ Cardinality(Starting(here)') \in Nat
    BY <1>1, <1>4, <1>5, SuppliesAreFinite
  <2>2. /\ Cardinality(Supply(here)') <= Cardinality(Supply(here)) + 1
        /\ Cardinality(Supply(here)') \in Nat
    BY <1>1, <1>4, <1>5, SuppliesAreFinite
  <2> QED BY <1>1, <1>6, <1>7, <2>1, <2>2, SuppliesAreFinite
<1>9. ASSUME NEW p \in Pools, p # here
      PROVE  /\ Cardinality(Starting(p)') <= Config[p].max_starting
             /\ Config[p].max_prealloc # 0 => Cardinality(Supply(p)') <= Config[p].max_prealloc
  <2>1. /\ Cardinality(Starting(p)') <= Cardinality(Starting(p))
        /\ Cardinality(Supply(p)') <= Cardinality(Supply(p))
        /\ Cardinality(Starting(p)') \in Nat /\ Cardinality(Supply(p)') \in Nat
    BY <1>3, <1>9, SuppliesAreFinite, FS_Subset, FS_CardinalityType
  <2>2. Config[p].max_starting \in Nat /\ Config[p].max_prealloc \in Nat
    BY <1>9, ConfigAssumption DEF PoolConfigOK
  <2> QED BY <1>9, <2>1, <2>2, SuppliesAreFinite DEF QuotasInv
<1>10. ReleasedWereUsed'
  BY <1>2 DEF QuotasInv, ReleasedWereUsed
<1>11. \A p \in Pools :
        /\ Cardinality(Starting(p)') <= Config[p].max_starting
        /\ Config[p].max_prealloc # 0 => Cardinality(Supply(p)') <= Config[p].max_prealloc
  BY <1>8, <1>9
<1> QED BY <1>10, <1>11 DEF QuotasInv

LEMMA WorkerSupplies ==
  ASSUME TypeInv, IInv, ReleasedWereUsed, NEW r \in Resources, Worker_step(r)
  PROVE  ReleasedWereUsed' /\ NoNewSupply
<1> USE DEF TypeInv, TypeOK, DatabaseTypeOK, WorkersTypeOK, ReleasedWereUsed, NoNewSupply
<1>1. CASE AllocWorker_up(r)
  <2>1. rstate[r] = "STARTING"
    BY <1>1 DEF AllocWorker_up, IInv, Threads
  <2> QED BY <1>1, <2>1 DEF AllocWorker_up
<1>2. CASE AllocWorker_failed(r)
  BY <1>2 DEF AllocWorker_failed
<1>3. ASSUME NEW ok \in BOOLEAN, ReleaseWorker_job(r, ok) PROVE ReleasedWereUsed' /\ NoNewSupply
  <2>1. Config[rpool[r]].reuse_max_count + 1 > 0
    BY <1>3, ConfigAssumption DEF ReleaseWorker_job, PoolsKnown, PoolConfigOK
  <2>2. rreleases'[r] > 0 /\ \A q \in Resources : q # r => rreleases'[q] = rreleases[q]
    BY <1>3, <2>1 DEF ReleaseWorker_job
  <2> QED BY <1>3, <2>2 DEF ReleaseWorker_job
<1>4. CASE TerminateWorker_job(r)
  BY <1>4 DEF TerminateWorker_job
<1>5. CASE TerminateWorker_close(r)
  BY <1>5 DEF TerminateWorker_close
<1>6. CASE Worker_run_raises(r)
  BY <1>6 DEF Worker_run_raises, dbVars, resourceRows
<1> QED BY <1>1, <1>2, <1>3, <1>4, <1>5, <1>6
        DEF Worker_step, AllocWorker, ReleaseWorker, TerminateWorker

LEMMA ManagerSupplies ==
  ASSUME TypeInv, ReleasedWereUsed, Manager_step, \A r \in Resources : ~allocate(r)
  PROVE  ReleasedWereUsed' /\ NoNewSupply
<1> USE DEF TypeInv, TypeOK, DatabaseTypeOK, WorkersTypeOK, ReleasedWereUsed, NoNewSupply
<1>1. CASE detect_closed_tickets_commit
  <2>1. \A q \in mclosed : rreleases'[q] > 0
    BY <1>1 DEF detect_closed_tickets_commit, release_resource, ManagerTypeOK
  <2>2. \A q \in Resources \ mclosed : rreleases'[q] = rreleases[q] /\ rticket'[q] = rticket[q]
    BY <1>1 DEF detect_closed_tickets_commit, release_resource
  <2>3. /\ \A q \in Resources \ mclosed : rstate'[q] = rstate[q]
        /\ \A q \in mclosed : rstate'[q] = "STARTING" => rstate[q] = "STARTING"
        /\ releasing' \subseteq releasing \cup mclosed
    BY <1>1 DEF detect_closed_tickets_commit, ManagerTypeOK
  <2>4. ReleasedWereUsed' /\ UNCHANGED rpool
    BY <1>1, <2>1, <2>2, <2>3 DEF detect_closed_tickets_commit
  <2> QED BY <2>1, <2>2, <2>3, <2>4
<1>2. ASSUME NEW late, request_resource_removal(late) PROVE ReleasedWereUsed' /\ NoNewSupply
  BY <1>2 DEF request_resource_removal, killed_resources, workerVars
<1>4. CASE assign_ticket_commit
  <2>1. /\ UNCHANGED <<rstate, rpool, rreleases, releasing>>
        /\ \A q \in Resources : rticket'[q] = rticket[q] \/ rticket'[q] = mpick.ticket
    BY <1>4 DEF assign_ticket_commit, assign_ticket, workerVars
  <2>2. mpick.ticket # None
    BY <1>4 DEF assign_ticket_commit, PickKnown, Tickets, None
  <2> QED BY <2>1, <2>2
<1>5. CASE UNCHANGED <<rstate, rpool, rticket, rreleases, releasing>>
  BY <1>5
<1> QED BY <1>1, <1>2, <1>4, <1>5
        DEF Manager_step, ManagerStep, detect_closed_tickets, assign_tickets,
            decide_where_to_start_on_demand_instances, garbage_collector,
            allocate_more_resources_break, assign_ticket_read, assign_ticket_skip,
            dbVars, resourceRows, workerVars

LEMMA OtherSupplies ==
  ASSUME TypeInv, ReleasedWereUsed, Next, ~Manager_step, \A r \in Resources : ~Worker_step(r)
  PROVE  ReleasedWereUsed' /\ NoNewSupply
<1> USE DEF ReleasedWereUsed, NoNewSupply, workerVars
<1>1. ASSUME NEW r \in Resources, resource_delete_kill(r) PROVE ReleasedWereUsed' /\ NoNewSupply
  BY <1>1 DEF resource_delete_kill, killed_resources
<1>2. CASE restart
  BY <1>2 DEF restart, fix_broken_after_restart, NoWorkers
<1>3. CASE UNCHANGED <<rstate, rpool, rticket, rreleases, releasing>>
  BY <1>3
<1> QED BY <1>1, <1>2, <1>3
        DEF Next, takeTicket, closeTicket, Watcher_step, Watcher_loop, Watcher_check,
            resource_delete, dbVars, resourceRows

LEMMA StepQuotas == TypeInv /\ IInv /\ QuotasInv /\ [Next]_vars => QuotasInv'
<1>1. ASSUME TypeInv, QuotasInv, UNCHANGED vars PROVE QuotasInv'
  BY <1>1, RowsDoNotGrow
     DEF vars, dbVars, resourceRows, workerVars, QuotasInv, ReleasedWereUsed, NoNewSupply
<1>2. ASSUME TypeInv, IInv, QuotasInv, Next PROVE QuotasInv'
  <2>1. CASE \E r \in Resources : allocate(r)
    BY <1>2, <2>1, AllocateQuotas
  <2>2. CASE \A r \in Resources : ~allocate(r)
    BY <1>2, <2>2, RowsDoNotGrow, ManagerSupplies, WorkerSupplies, OtherSupplies DEF QuotasInv
  <2> QED BY <2>1, <2>2
<1> QED BY <1>1, <1>2

LEMMA InitQuotas == Init => QuotasInv
<1> SUFFICES ASSUME Init PROVE QuotasInv OBVIOUS
<1>1. \A p \in Pools : Starting(p) = {} /\ Supply(p) = {}
  BY DEF Init, DatabaseInit, Supply, Starting, Free, on, up, in_pool
<1>2. \A p \in Pools : Config[p].max_starting >= 0 /\ Config[p].max_prealloc >= 0
  BY ConfigAssumption DEF PoolConfigOK
<1>3. Cardinality({}) = 0
  BY FS_EmptySet
<1>4. ReleasedWereUsed
  BY DEF Init, WorkersInit, NoWorkers, ReleasedWereUsed
<1> QED BY <1>1, <1>2, <1>3, <1>4 DEF QuotasInv

(* No pool starts more than max_starting resources at a time, nor has more *)
(* than max_prealloc that start or are free, whatever fails, restarts, is  *)
(* killed or released (Pool._allocate_more_resources()).                   *)
THEOREM QuotasAreRespected == Spec => []QuotasRespected
<1>1. QuotasInv => QuotasRespected
  BY SuppliesAreFinite DEF QuotasInv, QuotasRespected, stats, Starting, Free
<1> QED BY <1>1, InitQuotas, StepQuotas, SafetyInvariant, PTL DEF Spec

-----------------------------------------------------------------------------
cleaned(r) == Config[rpool[r]].cmd_release

(* What ReuseLimit says of a row, in a pool without cmd_release *)
WithinLimit(r) ==
  ~cleaned(r) =>
    /\ ~Config[rpool[r]].reuse => rreleases[r] = 0
    /\ Config[rpool[r]].reuse_max_count # 0
         => rreleases[r] <= Config[rpool[r]].reuse_max_count

(* The removal pass of this cycle is over for pool p. *)
Passed(p) == \/ mpc \in {"snapshot", "assign", "commit"}
             \/ mpc \in {"gc", "alloc"} /\ p <= mpool
             \/ mpc = "removal" /\ p < mpool

(* Until the next cycle a pool that was passed has no resource to assign   *)
(* but those that may be reused.                                           *)
ReuseInv ==
  /\ \A r \in releasing : cleaned(r)
  /\ \A r \in mclosed : rpool[r] = mpool
  /\ \A r \in Resources :
       /\ rstate[r] # "NONE" => rpool[r] \in Pools
       /\ rstate[r] \in {"NONE", "STARTING"} => rreleases[r] = 0
       /\ rstate[r] = "UP" /\ rticket[r] = None /\ Passed(rpool[r]) => WithinLimit(r)
       /\ rticket[r] # None => WithinLimit(r)
  /\ mpc = "commit" => WithinLimit(mpick.res)
  /\ mpc = "decide" => mpool = 1

(* What was never released is within all limits. *)
LEMMA NewIsWithin ==
  ASSUME NEW r \in Resources, rpool[r] \in Pools, rreleases[r] = 0
  PROVE  WithinLimit(r)
BY ConfigAssumption DEF WithinLimit, PoolConfigOK

(* Steps that release and assign nothing, and pass no pool *)
LEMMA LimitsStay ==
  ASSUME TypeInv, TypeInv', ReuseInv, UNCHANGED <<rpool, rticket>>,
         releasing' \subseteq releasing,
         mclosed' = {} \/ (mclosed' = mclosed /\ mpool' = mpool),
         \A r \in Resources :
           /\ cleaned(r) \/ rreleases'[r] = rreleases[r]
           /\ rstate'[r] \in {"NONE", "STARTING"}
                => rstate[r] \in {"NONE", "STARTING"} /\ rreleases'[r] = rreleases[r]
           /\ rstate'[r] # "NONE" => rstate[r] # "NONE"
           /\ rstate'[r] = "UP" => rstate[r] \in {"UP", "STARTING"} \/ cleaned(r),
         \A p \in Pools : Passed(p)' => Passed(p),
         mpc' = "commit" => WithinLimit(mpick'.res),
         mpc' = "decide" => mpool' = 1
  PROVE  ReuseInv'
<1>1. \A r \in Resources : WithinLimit(r)' <=> WithinLimit(r)
  BY DEF WithinLimit, cleaned
<1>2. mpc' = "commit" => WithinLimit(mpick.res)'
  <2>1. mpc' = "commit" => mpick'.res \in Resources
    BY DEF TypeInv, PickKnown
  <2> QED BY <1>1, <2>1
<1>3. ASSUME NEW r \in Resources,
             rstate'[r] = "UP" /\ rticket'[r] = None /\ Passed(rpool[r])'
      PROVE  WithinLimit(r)
  <2>1. rpool[r] \in Pools /\ rpool'[r] = rpool[r]
    BY <1>3 DEF ReuseInv
  <2>2. Passed(rpool[r])
    BY <1>3, <2>1 DEF Passed
  <2>3. CASE rstate[r] = "UP"
    BY <1>3, <2>2, <2>3 DEF ReuseInv
  <2>4. CASE rstate[r] = "STARTING"
    BY <2>1, <2>4, NewIsWithin DEF ReuseInv
  <2>5. CASE cleaned(r)
    BY <2>5 DEF WithinLimit
  <2> QED BY <1>3, <2>3, <2>4, <2>5
<1>4. /\ \A r \in releasing' : cleaned(r)'
      /\ \A r \in mclosed' : rpool'[r] = mpool'
  BY DEF ReuseInv, cleaned
<1>5. ASSUME NEW r \in Resources
      PROVE  /\ rstate'[r] # "NONE" => rpool'[r] \in Pools
             /\ rstate'[r] \in {"NONE", "STARTING"} => rreleases'[r] = 0
             /\ rticket'[r] # None => WithinLimit(r)'
             /\ rstate'[r] = "UP" /\ rticket'[r] = None /\ Passed(rpool[r])' => WithinLimit(r)'
  <2>1. rstate'[r] # "NONE" => rpool'[r] \in Pools
    BY DEF ReuseInv
  <2>2. rstate'[r] \in {"NONE", "STARTING"} => rreleases'[r] = 0
    BY DEF ReuseInv
  <2>3. rticket'[r] # None => WithinLimit(r)'
    BY <1>1 DEF ReuseInv
  <2>4. rstate'[r] = "UP" /\ rticket'[r] = None /\ Passed(rpool[r])' => WithinLimit(r)'
    BY <1>1, <1>3
  <2> QED BY <2>1, <2>2, <2>3, <2>4
<1> QED BY <1>2, <1>4, <1>5 DEF ReuseInv

LEMMA WorkerReuse ==
  ASSUME TypeInv, TypeInv', IInv, ReuseInv, NEW r \in Resources, Worker_step(r)
  PROVE  ReuseInv'
<1> USE DEF TypeInv, TypeOK, DatabaseTypeOK, WorkersTypeOK
<1>1. UNCHANGED <<managerVars, rpool, rticket>> /\ releasing' \subseteq releasing
  BY DEF Worker_step, AllocWorker, AllocWorker_up, AllocWorker_failed, ReleaseWorker,
         ReleaseWorker_job, TerminateWorker, TerminateWorker_job, TerminateWorker_close,
         Worker_run_raises, dbVars, resourceRows
<1>2. \A q \in Resources :
        /\ cleaned(q) \/ rreleases'[q] = rreleases[q]
        /\ rstate'[q] \in {"NONE", "STARTING"}
             => rstate[q] \in {"NONE", "STARTING"} /\ rreleases'[q] = rreleases[q]
        /\ rstate'[q] # "NONE" => rstate[q] # "NONE"
        /\ rstate'[q] = "UP" => rstate[q] \in {"UP", "STARTING"} \/ cleaned(q)
  <2>1. /\ r \in releasing => rstate[r] = "RELEASING" /\ cleaned(r)
        /\ r \in allocating => rstate[r] = "STARTING"
        /\ termNew[r] > 0 \/ termCmd[r] > 0 => rstate[r] # "NONE"
    BY DEF ReuseInv, IInv, Threads
  <2>2. CASE AllocWorker(r)
    BY <2>1, <2>2 DEF AllocWorker, AllocWorker_up, AllocWorker_failed
  <2>3. CASE ReleaseWorker(r)
    BY <2>1, <2>3 DEF ReleaseWorker, ReleaseWorker_job
  <2>4. CASE TerminateWorker(r)
    BY <2>1, <2>4 DEF TerminateWorker, TerminateWorker_job, TerminateWorker_close
  <2>5. CASE Worker_run_raises(r)
    BY <2>5 DEF Worker_run_raises, dbVars, resourceRows
  <2> QED BY <2>2, <2>3, <2>4, <2>5 DEF Worker_step
<1>3. \A p \in Pools : Passed(p)' => Passed(p)
  BY <1>1 DEF Passed, managerVars
<1>4. /\ (mpc' = "commit" => WithinLimit(mpick'.res)) /\ (mpc' = "decide" => mpool' = 1)
      /\ mclosed' = mclosed /\ mpool' = mpool
  BY <1>1 DEF ReuseInv, managerVars
<1> HIDE DEF TypeInv, TypeOK, DatabaseTypeOK, WorkersTypeOK
<1> QED BY <1>1, <1>2, <1>3, <1>4, LimitsStay

(* _request_resource_removal() leaves in its pool what is within limits.   *)
LEMMA RemovalReuse ==
  ASSUME TypeInv, IInv, ReuseInv, NEW late, request_resource_removal(late)
  PROVE  ReuseInv'
<1> USE DEF TypeInv, TypeOK, DatabaseTypeOK
<1>1. /\ UNCHANGED <<mpool, rpool, rticket, rreleases, releasing>>
      /\ mpc = "removal" /\ mpc' = "gc" /\ mclosed' = {}
  BY DEF request_resource_removal, workerVars, IInv, Closed
<1>2. \A r \in Resources : /\ rstate'[r] = rstate[r] \/ rstate'[r] = "DELETE_REQUEST"
                           /\ rstate'[r] # "NONE" => rstate[r] # "NONE"
  BY DEF request_resource_removal, killed_resources
<1>3. \A r \in Resources : /\ WithinLimit(r)' <=> WithinLimit(r)
                           /\ cleaned(r)' <=> cleaned(r)
  BY <1>1 DEF WithinLimit, cleaned
<1>4. ASSUME NEW r \in Resources, rstate'[r] = "UP", rticket'[r] = None, Passed(rpool[r])'
      PROVE  WithinLimit(r)
  <2>1. rstate[r] = "UP" /\ rticket[r] = None /\ rpool[r] \in Pools /\ rpool'[r] = rpool[r]
    BY <1>1, <1>2, <1>4 DEF ReuseInv
  <2>2. CASE rpool[r] = mpool
    <3>1. r \notin not_reusable(mpool, late)
      BY <1>4, <2>1 DEF request_resource_removal, killed_resources
    <3>2. CASE rreleases[r] > 0
      BY <2>1, <2>2, <3>1, <3>2, ConfigAssumption
         DEF not_reusable, clean_candidates, up, in_pool, WithinLimit, PoolConfigOK
    <3>3. CASE rreleases[r] = 0
      BY <2>1, <3>3, NewIsWithin
    <3> QED BY <3>2, <3>3
  <2>3. CASE rpool[r] # mpool
    <3>1. rpool[r] <= mpool
      BY <1>1, <1>4, <2>1 DEF Passed
    <3>2. rpool[r] < mpool
      BY <2>1, <2>3, <3>1 DEF ManagerTypeOK, Pools
    <3>3. Passed(rpool[r])
      BY <1>1, <3>2 DEF Passed
    <3> QED BY <2>1, <3>3 DEF ReuseInv
  <2> QED BY <2>2, <2>3
<1>5. \A r \in releasing' : cleaned(r)'
  BY <1>1 DEF ReuseInv, cleaned
<1> QED BY <1>1, <1>2, <1>3, <1>4, <1>5 DEF ReuseInv

LEMMA ReleaseReuse ==
  ASSUME TypeInv, IInv, ReuseInv, detect_closed_tickets_commit
  PROVE  ReuseInv'
<1> USE DEF TypeInv, TypeOK, DatabaseTypeOK
<1>1. /\ UNCHANGED rpool /\ mclosed' = {}
      /\ mpc' # "commit" /\ (mpc' = "decide" => mpool' = 1)
      /\ \A p \in Pools : ~Passed(p)'
  BY DEF detect_closed_tickets_commit, ManagerTypeOK, NextPool, decide_phase, Passed, Pools
<1>2. /\ \A r \in mclosed : rticket'[r] = None /\ rstate[r] \in {"UP", "DELETE_REQUEST"}
      /\ \A r \in Resources \ mclosed : rticket'[r] = rticket[r] /\ rreleases'[r] = rreleases[r]
  BY DEF detect_closed_tickets_commit, release_resource, IInv, Closed, Undisturbed, ManagerTypeOK
<1>3. \A r \in Resources : rticket'[r] # None => WithinLimit(r)'
  BY <1>1, <1>2 DEF ReuseInv, WithinLimit, cleaned
<1>4. \A r \in Resources : /\ rstate'[r] = rstate[r] \/ (r \in mclosed /\ rstate'[r] = "RELEASING")
                           /\ rstate'[r] # "NONE" => rstate[r] # "NONE"
  BY <1>2 DEF detect_closed_tickets_commit
<1>5. \A r \in Resources : /\ rstate'[r] # "NONE" => rpool'[r] \in Pools /\ ~Passed(rpool[r])'
                           /\ rstate'[r] \in {"NONE", "STARTING"} => rreleases'[r] = 0
  <2>1. \A r \in Resources : rstate'[r] # "NONE" => rpool'[r] \in Pools
    BY <1>1, <1>4 DEF ReuseInv
  <2>2. \A r \in Resources : rstate'[r] \in {"NONE", "STARTING"} => rreleases'[r] = 0
    BY <1>2, <1>4 DEF ReuseInv
  <2> QED BY <1>1, <2>1, <2>2
<1>6. \A r \in releasing' : cleaned(r)'
  BY <1>1 DEF detect_closed_tickets_commit, ReuseInv, cleaned
<1> HIDE DEF TypeInv, TypeOK, DatabaseTypeOK
<1> QED BY <1>1, <1>3, <1>5, <1>6 DEF ReuseInv

LEMMA AllocateReuse ==
  ASSUME TypeInv, IInv, ReuseInv, NEW r \in Resources, allocate(r)
  PROVE  ReuseInv'
<1> USE DEF TypeInv, TypeOK, DatabaseTypeOK
<1>1. /\ \A q \in Resources \ {r} : rstate'[q] = rstate[q] /\ rpool'[q] = rpool[q]
      /\ rstate[r] = "NONE" /\ rstate'[r] = "STARTING" /\ rpool'[r] \in Pools
      /\ mpc = "alloc" /\ mclosed' = {}
      /\ UNCHANGED <<rticket, rreleases, releasing, mpc, mpool>>
  BY DEF allocate, next_row, ManagerTypeOK, IInv, Closed
<1>2. rticket[r] = None /\ rreleases[r] = 0 /\ r \notin releasing
  BY <1>1 DEF IInv, Links, Threads, ReuseInv
<1>3. ASSUME NEW q \in Resources \ {r}
      PROVE  /\ rstate'[q] # "NONE" => rpool'[q] \in Pools
             /\ rstate'[q] \in {"NONE", "STARTING"} => rreleases'[q] = 0
             /\ rticket'[q] # None => WithinLimit(q)'
             /\ rstate'[q] = "UP" /\ rticket'[q] = None /\ Passed(rpool[q])' => WithinLimit(q)'
  <2>1. (WithinLimit(q)' <=> WithinLimit(q)) /\ (Passed(rpool[q])' <=> Passed(rpool[q]))
    BY <1>1 DEF WithinLimit, Passed, cleaned
  <2> HIDE DEF TypeInv, TypeOK, DatabaseTypeOK
  <2> QED BY <1>1, <2>1 DEF ReuseInv
<1>4. /\ rstate'[r] # "NONE" => rpool'[r] \in Pools
      /\ rstate'[r] \in {"NONE", "STARTING"} => rreleases'[r] = 0
      /\ rticket'[r] = None /\ rstate'[r] # "UP"
  BY <1>1, <1>2
<1>5. \A q \in releasing' : cleaned(q)'
  BY <1>1, <1>2 DEF ReuseInv, cleaned, WorkersTypeOK
<1> HIDE DEF TypeInv, TypeOK, DatabaseTypeOK
<1> QED BY <1>1, <1>3, <1>4, <1>5 DEF ReuseInv

LEMMA ManagerReuse ==
  ASSUME TypeInv, TypeInv', IInv, ReuseInv, Manager_step
  PROVE  ReuseInv'
<1> USE DEF TypeInv, TypeOK, DatabaseTypeOK
<1>1. CASE detect_closed_tickets_commit
  BY <1>1, ReleaseReuse
<1>2. ASSUME NEW late, request_resource_removal(late) PROVE ReuseInv'
  BY <1>2, RemovalReuse
<1>3. ASSUME NEW r \in Resources, allocate(r) PROVE ReuseInv'
  BY <1>3, AllocateReuse
<1>4. ASSUME UNCHANGED <<rstate, rpool, rticket, rreleases, releasing>>,
             mclosed' = {},
             \A p \in Pools : Passed(p)' => Passed(p),
             mpc' = "commit" => WithinLimit(mpick'.res),
             mpc' = "decide" => mpool' = 1
      PROVE  ReuseInv'
  BY <1>4, LimitsStay DEF ReuseInv
<1>5. CASE detect_closed_tickets
  <2>1. UNCHANGED <<rstate, rpool, rticket, rreleases, releasing>> /\ mpc' # "commit"
    BY <1>5 DEF detect_closed_tickets, NextPool, decide_phase, dbVars, resourceRows, workerVars
  <2>2. (mpc' = "decide" => mpool' = 1) /\ \A p \in Pools : ~Passed(p)'
    BY <1>5 DEF detect_closed_tickets, NextPool, decide_phase, Passed, Pools
  <2>3. \A r \in mclosed' : rpool'[r] = mpool'
    BY <1>5, <2>1 DEF detect_closed_tickets, taken, up, in_pool
  <2>4. \A r \in Resources : WithinLimit(r)' <=> WithinLimit(r)
    BY <2>1 DEF WithinLimit, cleaned
  <2>5. \A r \in releasing' : cleaned(r)'
    BY <2>1 DEF ReuseInv, cleaned
  <2> HIDE DEF TypeInv, TypeOK, DatabaseTypeOK
  <2> QED BY <2>1, <2>2, <2>3, <2>4, <2>5 DEF ReuseInv
<1>6. mpc \notin {"closed", "release"} => mclosed = {}
  BY DEF IInv, Closed
<1>7. CASE decide_where_to_start_on_demand_instances
  <2>1. /\ UNCHANGED <<rstate, rpool, rticket, rreleases, releasing>>
        /\ mpc' = "removal" /\ mpool' = 1 /\ mclosed' = {}
    BY <1>6, <1>7 DEF decide_where_to_start_on_demand_instances, dbVars, resourceRows,
                      workerVars, ReuseInv
  <2> QED BY <1>4, <2>1 DEF Passed, Pools
<1>8. CASE garbage_collector \/ allocate_more_resources_break
  <2>1. /\ UNCHANGED <<rstate, rpool, rticket, rreleases, releasing>>
        /\ mpc' \notin {"commit", "decide"} /\ mclosed' = {}
    BY <1>6, <1>8 DEF garbage_collector, allocate_more_resources_break, NextPool, dbVars,
                resourceRows, workerVars
  <2>2. \A p \in Pools : Passed(p)' => Passed(p)
    BY <1>8, SizeAssumption DEF garbage_collector, allocate_more_resources_break, NextPool,
                Passed, Pools, ManagerTypeOK
  <2> QED BY <1>4, <2>1, <2>2
<1>9. CASE assign_tickets \/ \E t \in Tickets : assign_ticket_skip(t)
  <2>1. /\ UNCHANGED <<rstate, rpool, rticket, rreleases, releasing>>
        /\ mpc \in {"snapshot", "assign"} /\ mpc' \notin {"commit", "decide"}
        /\ mclosed' = {}
    BY <1>6, <1>9 DEF assign_tickets, assign_ticket_skip, assign_next, FreshManager, dbVars,
                resourceRows, workerVars
  <2> QED BY <1>4, <2>1 DEF Passed
<1>10. ASSUME NEW t \in Tickets, NEW r \in Resources, assign_ticket_read(t, r)
      PROVE  ReuseInv'
  <2>1. /\ UNCHANGED <<rstate, rpool, rticket, rreleases, releasing>>
        /\ mpc = "assign" /\ mpc' = "commit" /\ mpick'.res = r /\ mclosed' = {}
    BY <1>6, <1>10 DEF assign_ticket_read, dbVars, resourceRows, workerVars
  <2>2. rstate[r] = "UP" /\ rticket[r] = None
    BY <1>10 DEF assign_ticket_read, best, usable, ready, up
  <2>3. WithinLimit(r)
    BY <2>1, <2>2 DEF ReuseInv, Passed
  <2> QED BY <1>4, <2>1, <2>3 DEF Passed
<1>11. CASE assign_ticket_commit
  <2>1. /\ UNCHANGED <<rstate, rpool, rreleases, releasing>>
        /\ mpc = "commit" /\ mpc' \notin {"commit", "decide"} /\ mclosed' = {}
        /\ \A r \in Resources : r # mpick.res => rticket'[r] = rticket[r]
    BY <1>6, <1>11 DEF assign_ticket_commit, assign_ticket, assign_next, FreshManager, workerVars
  <2>2. \A r \in Resources : /\ WithinLimit(r)' <=> WithinLimit(r)
                             /\ cleaned(r)' <=> cleaned(r)
                             /\ Passed(rpool[r])
    BY <2>1 DEF WithinLimit, Passed, cleaned
  <2> HIDE DEF TypeInv, TypeOK, DatabaseTypeOK
  <2>3. \A r \in Resources : rticket'[r] = None => rticket[r] = None \/ r = mpick.res
    BY <2>1
  <2>4. \A r \in releasing' : r \in Resources /\ cleaned(r)'
    BY <2>1 DEF ReuseInv, cleaned, TypeInv, TypeOK, WorkersTypeOK
  <2> QED BY <2>1, <2>2, <2>3, <2>4 DEF ReuseInv
<1> QED BY <1>1, <1>2, <1>3, <1>5, <1>7, <1>8, <1>9, <1>10, <1>11
        DEF Manager_step, ManagerStep

LEMMA OtherReuse ==
  ASSUME TypeInv, TypeInv', ReuseInv, Next, ~Manager_step, \A r \in Resources : ~Worker_step(r)
  PROVE  ReuseInv'
<1> USE DEF TypeInv, TypeOK, DatabaseTypeOK
<1>1. UNCHANGED <<rpool, rticket, rreleases>> /\ releasing' \subseteq releasing
  BY DEF Next, takeTicket, closeTicket, Watcher_step, Watcher_loop, Watcher_check,
         resource_delete, resource_delete_kill, restart, NoWorkers,
         dbVars, resourceRows, workerVars
<1>2. \A r \in Resources :
        /\ rstate'[r] \in {"NONE", "STARTING"} => rstate[r] \in {"NONE", "STARTING"}
        /\ rstate'[r] # "NONE" => rstate[r] # "NONE"
        /\ rstate'[r] = "UP" => rstate[r] \in {"UP", "STARTING"}
  <2>1. ASSUME NEW r \in Resources, resource_delete_kill(r)
        PROVE  rstate' = killed_resources({r})
    BY <2>1 DEF resource_delete_kill
  <2>2. CASE restart
    BY <2>2 DEF restart, fix_broken_after_restart
  <2>3. CASE UNCHANGED rstate
    BY <2>3
  <2> QED BY <2>1, <2>2, <2>3
          DEF Next, takeTicket, closeTicket, Watcher_step, Watcher_loop, Watcher_check,
              resource_delete, killed_resources, dbVars, resourceRows
<1>3. UNCHANGED <<mpc, mpool, mpick, mclosed>> \/ (mpc' = "closed" /\ mclosed' = {})
  BY DEF Next, takeTicket, closeTicket, Watcher_step, Watcher_loop, Watcher_check,
         resource_delete, resource_delete_kill, restart, FreshManager, managerVars
<1>4. \A p \in Pools : Passed(p)' => Passed(p)
  BY <1>3 DEF Passed
<1>5. (mpc' = "commit" => WithinLimit(mpick'.res)) /\ (mpc' = "decide" => mpool' = 1)
  BY <1>3 DEF ReuseInv
<1> HIDE DEF TypeInv, TypeOK, DatabaseTypeOK
<1> QED BY <1>1, <1>2, <1>3, <1>4, <1>5, LimitsStay

LEMMA StepReuse ==
  TypeInv /\ TypeInv' /\ IInv /\ ReuseInv /\ [Next]_vars => ReuseInv'
<1>1. ASSUME TypeInv, TypeInv', ReuseInv, UNCHANGED vars PROVE ReuseInv'
  <2>1. UNCHANGED <<rstate, rpool, rticket, rreleases, releasing, mclosed, mpc, mpool, mpick>>
    BY <1>1 DEF vars, dbVars, resourceRows, workerVars, managerVars
  <2> QED BY <1>1, <2>1, LimitsStay DEF ReuseInv, Passed
<1> QED BY <1>1, ManagerReuse, WorkerReuse, OtherReuse

LEMMA InitReuse == Init => ReuseInv
BY DEF Init, DatabaseInit, WorkersInit, NoWorkers, FreshManager, ReuseInv, Passed, None

LEMMA ReuseInvariant == Spec => [](TypeInv /\ IInv /\ ReuseInv)
<1>1. TypeInv /\ TypeInv' /\ IInv /\ ReuseInv /\ [Next]_vars => ReuseInv'
  BY StepReuse
<1> QED BY <1>1, InitReuse, SafetyInvariant, PTL DEF Spec

(* Where no pool has a cmd_release, nothing is reused against the limits,  *)
(* whatever fails, is killed or restarts: between the removal pass and the *)
(* assignments of a cycle no resource becomes free again (with cmd_release *)
(* it may: the run reuse_disabled).  ReuseInv says so pool by pool.        *)
NoCmdRelease == \A p \in Pools : ~Config[p].cmd_release

THEOREM ReuseIsLimited ==
  ASSUME NoCmdRelease
  PROVE  Spec => []ReuseLimit
<1>1. TypeInv /\ IInv /\ ReuseInv => ReuseLimit
  BY DEF TypeInv, IInv, Links, ReuseInv, ReuseLimit, WithinLimit, cleaned, NoCmdRelease
<1> QED BY <1>1, ReuseInvariant, PTL
-----------------------------------------------------------------------------
(* A failed cmd_release is known from releases_counter only: it stays over *)
(* reuse_max_count until a later cmd_release succeeds.                     *)
FailuresShow ==
  \A r \in unclean :
    rstate[r] # "NONE" /\ cleaned(r) /\ rreleases[r] > Config[rpool[r]].reuse_max_count

LEMMA FailuresStay ==
  ASSUME TypeInv, TypeInv', ReuseInv, FailuresShow, unclean' \subseteq unclean,
         \A r \in unclean : /\ rstate'[r] # "NONE" /\ rpool'[r] = rpool[r]
                            /\ rreleases'[r] >= rreleases[r]
  PROVE  FailuresShow'
<1> SUFFICES ASSUME NEW r \in unclean'
             PROVE  /\ rstate'[r] # "NONE" /\ cleaned(r)'
                    /\ rreleases'[r] > Config[rpool'[r]].reuse_max_count
  BY DEF FailuresShow
<1>1. r \in Resources /\ r \in unclean
  BY DEF TypeInv, TypeOK, WorkersTypeOK
<1>2. rreleases[r] \in Nat /\ rreleases'[r] \in Nat
  BY <1>1 DEF TypeInv, TypeOK, DatabaseTypeOK
<1>3. Config[rpool[r]].reuse_max_count \in Nat
  BY <1>1, ConfigAssumption DEF ReuseInv, FailuresShow, PoolConfigOK
<1> QED BY <1>1, <1>2, <1>3 DEF FailuresShow, cleaned

LEMMA WorkerFailures ==
  ASSUME TypeInv, TypeInv', IInv, ReuseInv, FailuresShow, NEW r \in Resources, Worker_step(r)
  PROVE  FailuresShow'
<1> USE DEF TypeInv, TypeOK, DatabaseTypeOK, WorkersTypeOK
<1>1. ASSUME NEW ok \in BOOLEAN, ReleaseWorker_job(r, ok) PROVE FailuresShow'
  <2>1. /\ rstate'[r] = "UP" /\ cleaned(r)' /\ UNCHANGED rpool
        /\ \A q \in Resources \ {r} : rstate'[q] = rstate[q] /\ rreleases'[q] = rreleases[q]
        /\ unclean' \subseteq unclean \cup {r}
    BY <1>1 DEF ReleaseWorker_job, ReuseInv, cleaned
  <2>2. r \in unclean' => rreleases'[r] > Config[rpool'[r]].reuse_max_count
    <3>1. Config[rpool[r]].reuse_max_count \in Nat
      BY <1>1, ConfigAssumption DEF ReleaseWorker_job, PoolsKnown, PoolConfigOK
    <3> QED BY <1>1, <3>1 DEF ReleaseWorker_job
  <2>3. ASSUME NEW q \in unclean', q # r
        PROVE  /\ rstate'[q] # "NONE" /\ cleaned(q)'
               /\ rreleases'[q] > Config[rpool'[q]].reuse_max_count
    BY <2>1, <2>3 DEF FailuresShow, cleaned
  <2> QED BY <2>1, <2>2, <2>3 DEF FailuresShow
<1>2. ASSUME UNCHANGED <<rpool, rreleases, unclean>>,
             \A q \in Resources : rstate'[q] # rstate[q] => rstate'[q] # "NONE"
      PROVE  FailuresShow'
  BY <1>2, FailuresStay DEF FailuresShow
<1>3. CASE AllocWorker(r)
  BY <1>2, <1>3 DEF AllocWorker, AllocWorker_up, AllocWorker_failed, envVars
<1>4. CASE TerminateWorker(r)
  BY <1>2, <1>4 DEF TerminateWorker, TerminateWorker_job, TerminateWorker_close, envVars
<1>5. CASE Worker_run_raises(r)
  BY <1>2, <1>5 DEF Worker_run_raises, dbVars, resourceRows
<1> QED BY <1>1, <1>3, <1>4, <1>5 DEF Worker_step, ReleaseWorker

LEMMA OtherFailures ==
  ASSUME TypeInv, TypeInv', IInv, ReuseInv, FailuresShow, Next,
         \A r \in Resources : ~Worker_step(r)
  PROVE  FailuresShow'
<1> USE DEF TypeInv, TypeOK, DatabaseTypeOK, WorkersTypeOK
<1>1. CASE detect_closed_tickets_commit
  <2>1. UNCHANGED <<unclean, rpool>>
    BY <1>1 DEF detect_closed_tickets_commit, envVars
  <2>2. \A r \in Resources : rreleases'[r] >= rreleases[r]
    BY <1>1 DEF detect_closed_tickets_commit, release_resource
  <2>3. \A r \in Resources : rstate'[r] = rstate[r] \/ rstate'[r] = "RELEASING"
    BY <1>1 DEF detect_closed_tickets_commit
  <2> QED BY <2>1, <2>2, <2>3, FailuresStay DEF FailuresShow
<1>2. ASSUME NEW r \in Resources, allocate(r) PROVE FailuresShow'
  <2>1. /\ r \notin unclean /\ UNCHANGED <<unclean, rreleases>>
        /\ \A q \in Resources \ {r} : rstate'[q] = rstate[q] /\ rpool'[q] = rpool[q]
    BY <1>2 DEF allocate, next_row, envVars, FailuresShow
  <2> QED BY <2>1, FailuresStay DEF FailuresShow
<1>3. ASSUME UNCHANGED <<rpool, rreleases, unclean>>,
             \A q \in Resources : rstate'[q] # rstate[q] => rstate'[q] # "NONE"
      PROVE  FailuresShow'
  BY <1>3, FailuresStay DEF FailuresShow
<1>4. ASSUME NEW killed, rstate' = killed_resources(killed) \/ fix_broken_after_restart,
             UNCHANGED <<rpool, rreleases, unclean>>
      PROVE  FailuresShow'
  BY <1>3, <1>4 DEF killed_resources, fix_broken_after_restart
<1>5. ASSUME NEW late, request_resource_removal(late) PROVE FailuresShow'
  BY <1>4, <1>5 DEF request_resource_removal, envVars
<1>6. ASSUME NEW r \in Resources, resource_delete_kill(r) PROVE FailuresShow'
  BY <1>4, <1>6 DEF resource_delete_kill, envVars
<1>7. CASE restart
  BY <1>4, <1>7 DEF restart
<1>8. CASE UNCHANGED <<rstate, rpool, rreleases, unclean>>
  BY <1>3, <1>8
<1> QED BY <1>1, <1>2, <1>5, <1>6, <1>7, <1>8
        DEF Next, Manager_step, ManagerStep, detect_closed_tickets, assign_tickets,
            decide_where_to_start_on_demand_instances, garbage_collector,
            allocate_more_resources_break, assign_ticket_read, assign_ticket_skip,
            assign_ticket_commit, takeTicket, closeTicket, Watcher_step, Watcher_loop,
            Watcher_check, resource_delete, dbVars, resourceRows, envVars

LEMMA StepFailures ==
  TypeInv /\ TypeInv' /\ IInv /\ ReuseInv /\ FailuresShow /\ [Next]_vars => FailuresShow'
<1>1. ASSUME TypeInv, TypeInv', ReuseInv, FailuresShow, UNCHANGED vars PROVE FailuresShow'
  BY <1>1 DEF vars, dbVars, resourceRows, envVars, FailuresShow, cleaned
<1> QED BY <1>1, WorkerFailures, OtherFailures

(* The counter counts: reuse_max_count 0 means that it is not looked at.   *)
CounterIsRead ==
  \A p \in Pools : Config[p].cmd_release /\ Config[p].reuse => Config[p].reuse_max_count # 0

FailedAreRemoved ==
  mpc = "removal" /\ mpc' = "gc"
    => \A r \in clean_candidates(mpool) \cap unclean : rstate'[r] # "UP"

LEMMA RemovalStep ==
  ASSUME TypeInv, ReuseInv, FailuresShow, CounterIsRead, Next
  PROVE  FailedAreRemoved
<1> SUFFICES ASSUME mpc = "removal", mpc' = "gc",
                    NEW r \in clean_candidates(mpool) \cap unclean
             PROVE  rstate'[r] # "UP"
  BY DEF FailedAreRemoved
<1>1. PICK late : request_resource_removal(late)
  BY DEF Next, Manager_step, ManagerStep, detect_closed_tickets, detect_closed_tickets_commit,
         decide_where_to_start_on_demand_instances, garbage_collector, allocate,
         allocate_more_resources_break, assign_tickets, assign_ticket_read, assign_ticket_skip,
         assign_ticket_commit, Worker_step, Watcher_step, Watcher_loop, Watcher_check,
         takeTicket, closeTicket, resource_delete, resource_delete_kill, restart,
         FreshManager, managerVars
<1>2. r \in Resources /\ rstate[r] = "UP" /\ rpool[r] = mpool /\ mpool \in Pools
  BY DEF clean_candidates, up, in_pool, TypeInv, TypeOK, ManagerTypeOK
<1>3. r \in not_reusable(mpool, late)
  BY <1>2 DEF not_reusable, FailuresShow, CounterIsRead, cleaned
<1> QED BY <1>1, <1>2, <1>3 DEF request_resource_removal, killed_resources

(* Where the counter of releases is looked at, the removal pass removes    *)
(* every resource whose cmd_release failed and that works for no ticket,   *)
(* however many cycles, kills and restarts lie between the failure and     *)
(* the pass; with unlimited reuse it does not (the run failed_release).    *)
THEOREM FailedReleasesAreRemoved ==
  ASSUME CounterIsRead
  PROVE  Spec => FailedReleaseIsRemoved
<1>1. Init => FailuresShow
  BY DEF Init, WorkersInit, FailuresShow
<1>2. TypeInv /\ TypeInv' /\ IInv /\ ReuseInv /\ FailuresShow /\ [Next]_vars => FailuresShow'
  BY StepFailures
<1>3. TypeInv /\ ReuseInv /\ FailuresShow /\ [Next]_vars => [FailedAreRemoved]_vars
  BY RemovalStep
<1>4. Spec => [][FailedAreRemoved]_vars
  BY <1>1, <1>2, <1>3, ReuseInvariant, PTL DEF Spec
<1> QED BY <1>4 DEF FailedReleaseIsRemoved, FailedAreRemoved
=============================================================================
