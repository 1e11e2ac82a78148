# resalloc in TLA+

Specifications of the resalloc server, the TLC configurations that check them on small instances,
and TLAPS proofs of their safety properties for every configuration. Paths below are relative to the
repository.

## 1. The system

Clients ask the server for a *ticket*, with tags and optionally a sandbox name. The server keeps
*pools* of *resources* (virtual machines) that it starts, checks and deletes by running hook
commands, and assigns a resource to each ticket. All state that survives a restart is in one SQL
database; threads communicate through its rows, each in its own short transaction.

| Component | Source | State it keeps | Operations |
|---|---|---|---|
| Database | `resallocserver/models.py`, `logic.py` | tables resources, tickets, ids_within_pool, named_counters | queries of `QResources` and `QTickets`, `assign_ticket`, `release_resource`, `kill`, `fix_broken_after_restart` |
| Manager thread | `resallocserver/manager.py` (`Manager`, `Pool`), `priority_queue.py` | locals of `_loop()`, `start_on_demand_this_cycle` | detect closed tickets, decide on-demand starts, per pool: request removals, collect garbage, allocate; assign tickets |
| Workers | `manager.py` (`AllocWorker`, `ReleaseWorker`, `TerminateWorker`) | one thread per hook | start, release and delete one resource |
| Watcher thread | `manager.py` (`Watcher`) | the list `to_check` | count the failed livechecks of a resource |
| XML-RPC API | `resallocserver/api.py` | one thread per call | take, collect, wait for, close a ticket |
| Notification | `main.py` (`AtomicEvent`, `Synchronizer`), `manager._notify_waiting`, `api.waitTicket` | an event, a condition variable, `tid` | wake the manager; wake a waiting client |
| Start | `resallocserver/main.py` | - | migrate, repair the rows, start the threads |
| Maintainer | `resallocserver/maint.py`, `bin/resalloc-maint` | a process of its own | `resource-delete` |
| CleanUnknownWorker | `manager.py` | one thread per pool and period | delete the cloud's instances the database does not know |
| Hook runner | `manager.run_command`, `resallocserver/helpers.py` | pipes and buffers | run a hook, log and capture its output |
| Client | `resalloc/client.py`, `bin/resalloc` | a connection | calls, repeated when the server restarts |
| Agent spawner | `resalloc_agent_spawner/` | redis hashes | keep as many agents, one ticket each, as a script asks for |
| Configuration | `manager.reload_config`, `config.py` | - | read and validate pools.yaml |
| Others | statistics, web UI, TLS, logging, migrations | - | no part in the protocol |

What makes it hard: the manager, up to a dozen workers per resource, the watcher, the API threads
and the administrator's process read and write the same rows without locks across transactions; a
hook runs for minutes between the read of a row and the write of its result; the garbage collector
starts another TerminateWorker in each cycle; the server may stop anywhere and only the rows remain;
and several decisions are made from lists read earlier. What each component must get right:

* Database and manager: the two link columns agree; an open ticket keeps its resource, or is told;
  nobody is served across sandboxes; pool ids and counters are exclusive; quotas hold; a ticket that
  waits is served.
* Workers: while cmd_new or cmd_release runs, the row that its worker will write without looking at
  it again is nobody else's; a removal that was requested is not taken back, and completes or waits
  for an open ticket. Hooks as such do overlap: the watcher runs cmd_livecheck from an old list
  beside cmd_release or cmd_delete, several cmd_delete may run, and a hook outlives its server.
* On-demand decision: one start per ticket, no idle expensive resource.
* Start: rows whose thread is gone are repaired.
* Maintainer: `--unused` spares resources that work for a ticket.
* Notification: the manager does not sleep over what somebody committed and announced (what becomes
  ready silently waits for its timeout); a waiting client returns once it has its resource; tickets
  are served on demand first, then by age.
* CleanUnknownWorker: what it deletes belongs to no row that is alive; leftovers go away.
* Agent spawner: each ticket can be found in redis, whatever dies between two calls; dispatcher and
  background workers do not undo each other's writes; groups stay bounded; agents move on.

PROJECT.json lists the hazards at their lines with the properties about them.

## 2. Modules

```
Database -> Workers -> OnDemand -> Manager -> Server -> ServerProperties -> MCServer
                                                |             |    :
                                                +- ServerTypes +-> ServerSafety
                                                                   :   +-> ServerRefinement
                                                                   :   +-> ServerQuotas -> OnDemandSafety
Allocator  <.......... implemented by Server (A == INSTANCE) ......:
    |
    +-> Notification -> MCNotification
             +-> NotificationSafety
Spawner -> SpawnerSafety
Cleaner -> CleanerSafety
```

| Module | Models | State |
|---|---|---|
| `Database` | rows, queries, row updates | one function per column, `rstate`, `rticket`, `tstate`, `tres`...; the two slot tables are sets of rows |
| `Workers` | the three hook threads | `allocating`, `releasing`: resources with such a thread; `termNew`, `termCmd`: TerminateWorkers of each resource before and after they set DELETING |
| `OnDemand` | `_decide_where_to_start_on_demand_instances()` | none, a function of the rows |
| `Manager` | `Manager._loop()` and `Pool`'s methods | `mpc`, the next transaction; `mpool`, its pool; the locals that live across transactions |
| `Server` | API, watcher, resource-delete, restart; `Next` and the fairness | `watch`, `maint`: lists read in an earlier session |
| `ServerProperties` | the properties, and the refinement mapping | - |
| `MCServer` | the pools, requests and bounds of the runs | - |
| `ServerTypes`, `ServerSafety`, `ServerQuotas`, `OnDemandSafety`, `ServerRefinement` | the proofs about `Server` | - |
| `Allocator` | the contract: what tickets and resources may do | `ticket`, `given`, `user`, `phase`, `sandbox`; `reserved`: about to be given or taken back |
| `Notification` | `AtomicEvent`, `Synchronizer`, `_notify_waiting()`, `waitTicket()` and when they are called, on top of `Allocator` | the event, where the manager is in its pass, its lists, the threads that are about to `set()`, `failing`: resources hidden by livechecks, `silent`: ready without a `set()`, `tid`, `sync.tid`, the waiting threads |
| `MCNotification` | the threads of the run `notification`, one for each ticket | - |
| `Cleaner` | `CleanUnknownWorker`, the cloud behind cmd_new, cmd_delete and cmd_list, and the life of the rows without tickets | `instances`, `creating`: machines; `all`, `known`: the two lists |
| `Spawner` | dispatcher, background workers and redis hashes of the agent spawner, the server as seen through its API | `redis`, `ticket`; `pc`, `todo`, `cur`, `n`...: the dispatcher's locals; `worker`: the state a running hook was started for |
| `NotificationSafety`, `SpawnerSafety`, `CleanerSafety` | the proofs about these three | - |

`Server` is the detailed model of the server's protocol. `Allocator` is what it promises, and
`Server` is shown to implement it; `Notification` adds to that contract what the manager knows and
when, so that rows and hooks need not be repeated there. `Cleaner` and `Spawner` look at the server
from its two outer sides, the cloud and a client, and each has its own view of it: `Cleaner` of rows
without tickets, `Spawner` of tickets that get a resource, and may fail.

Definitions carry the names of the source. In each module the definitions whose comment begins with
"Mutant" are faults that a property is shown to notice; no other definition uses them.

### What one step is

A `session_scope()` commits at its end, and the threads run in parallel with each other and with
resource-delete. Two transactions of the manager are two steps, the reads and the commit:

* `detect_closed_tickets()`: the rows it saw as UP may be killed before it overwrites `state` with
  RELEASING. SQLAlchemy writes exactly the columns that were assigned, so the commit sets
  `ticket_id`, `releases_counter` and `state` of these rows and nothing else.
* each ticket of `_assign_tickets()`: the resource may be killed, and the ticket closed, before
  `ticket_id`, `resource_id` and `sandbox` are written.

The other transactions of the manager write values that no concurrent transaction can make wrong:
`_request_resource_removal()` only moves UP to DELETE_REQUEST, as `kill()` does, and the tickets it
fails are linked to resources that only the manager links; `allocate()` writes a new row that no
other thread has heard of; the rest only read. The other transactions write the row of one resource
or ticket. A hook command separates two steps of its worker.

### Data

Timestamps are replaced by what is decided with them: whether a released resource is `late`
(`reuse_opportunity_time`, `reuse_max_time`), whether `_too_soon()` holds, which resources are due
for a livecheck. All three are chosen anew at each use. `released_at IS NOT NULL` is `rreleases >
0`: `release_resource()` writes both. A tag is a model value; the sandbox that `assign_ticket()`
makes up with `uuid1()` is the ticket's number. Hooks succeed or fail. `unclean` is a history
variable: the resources whose last cmd_release failed. Names, data, logs and statistics are left
out.

### The refinement

`ServerProperties` maps rows and locals to the variables of `Allocator`: `ticket` is `tstate`,
`given` is `tres`, `user` is `rticket`. `phase` forgets which thread works on a resource: STARTING
and RELEASING are "busy", UP is "up", DELETE_REQUEST is "doomed", DELETING and ENDED are "gone".
`sandbox` is what the ticket asked for: the name that `assign_ticket()` makes up is nobody's
request. `reserved` holds the rows that a split transaction has read and will write, `mclosed` and,
before the commit of an assignment, `mpick.res`. The contract is then: only resources that are up
get reserved, a reserved one may be doomed but is not destroyed before the commit; a ticket gets one
resource, once, that works for nobody and has worked only for tickets of the same sandbox; only
resources of closed tickets are taken back; what an OPEN ticket holds is not destroyed, and if it is
doomed, the ticket fails in the same step. `allocate()`, the decision on on-demand starts,
livechecks, slots and counters are stutters. `core_base` checks it without
reuse; for `core_reuse` it holds as well, in twice the time of that run, and the proof covers all
configurations.

### Notification

Threads that commit something the manager should look at call `set()` *after* their transaction, so
commit and `set()` are two steps and everything may come between, a restart too. `setters` holds the
threads in between; there is one for each commit (`takeTicket`, `closeTicket`, the end of a worker).
What tells nobody is modelled too: `kill()` from another process; the ReleaseWorker
whose cmd_release failed; and the watcher, whose success makes a resource ready again
(`check_failed_count`, `manager.py:546`): it has the manager's event (`manager.py:1234`) and never
uses it. `silent` are the resources that became ready in these two ways: only the next wake-up or
the timeout finds them. The watcher's list is left out: a check may come at any age of the list, so
in any state of a resource that was UP once (`checked`). `AtomicEvent.wait()` tests the event under
the lock and sleeps otherwise; after it is woken it takes the lock again, and what is set in between
is cleared with the rest before the pass.

A pass lists the waiting tickets (`queued`, of which `todo` are left) and the ready resources
(`listed`) at its beginning, and takes the tickets with an on-demand tag first, then by age
(`before`). So a newer on-demand ticket goes before an older normal one; and a normal ticket on the
list may be served before an on-demand ticket that came later. `NoOvertaking` says exactly that:
`u` goes before `t` if `before(u, t)`, and it is older than `t` or was on the list. That a ticket may
not get a resource is reduced to sandboxes; tags of tickets (other than `OnDemand`) and priorities
of resources are `Server`'s.

`waitTicket()` of a thread is about one ticket (`WaitsFor`) and may be called again; it registers
itself in `tickets.tid`, checks, and waits on the condition variable without holding the lock in
between. `sync.tid` is written without the lock, so the thread that was meant may find the name of
the next one there; only the timeout of 10 seconds helps it.

### Agent spawner

Each redis write and each call to the server is a step of its own; `cur` is the ticket between two
that belong together. A crash may fall anywhere between and loses all locals; workers are processes
of their own and live on. The answer of `takeTicket()` may be lost: the client repeats the call and
the server opens another ticket (`orphans`). Hooks that are only asked (cmd_check_finished,
cmd_try_release, cmd_converge_to) answer anything. copr_common's WorkerManager is not in this
repository; it is modelled as it is used, one process per ticket at a time, a dead one is started
again.

### Cleaner

A machine is created while cmd_new runs, also when the server that started it is gone, and
disappears by cmd_delete. Of cmd_list only the first lines count (`catch_stdout_bytes`), and when it
fails, any part and perhaps a line cut short. TerminateWorkers come late and several at a time, as
in `Server`. One CleanUnknownWorker runs at a time: one is started every half an hour.

### Bounds

| Bound | What it cuts off |
|---|---|
| `MaxResources`, `MaxTickets` | rows ever created; when they are used up `allocate()` and `takeTicket()` are disabled and the manager goes on |
| `MaxTerminators` | live TerminateWorkers of one resource |
| `Faults`, `MaxFaults` | what fails, and how often: starts, releases, livechecks, worker threads, restarts, resource-delete commands, in any combination. A failed start uses up a row, so a fair run has a row for each ticket and each fault |
| `notification` | 2 tickets, the newer one on demand; 1 resource; 2 waiting threads, one for each ticket, so that `sync.tid` is overwritten before the first looks at it; only the older ticket is closed (`Closing`); 1 kill, failed worker or livecheck, or restart. The order among tickets of one kind, and a second thread of a ticket, which only replaces the first in `tid`, are in the proofs |
| `spawner` | 3 tickets, 1 group, at most 2 agents asked for, 2 faults: two agents and the successor of a dropped one. Groups meet only in the list of `try_to_stop()` |
| `cleaner` | 2 rows, 1 machine of a stranger, 3 lines captured, 2 TerminateWorkers of a row, 3 faults: a row that ends between the two lists and one that starts there |

The proofs are for all values of the first two and of `MaxTerminators`, and for all initial budgets;
those of the last three modules for all values of their constants. In the runs two or three
resources and tickets suffice for the interesting collisions: a resource, its successor that takes
over the pool id, a third one that breaks a quota; a ticket that is being assigned while another is
closed. Two TerminateWorkers of one resource are enough for a late one to disturb an ENDED row.

## 3. Runs

The runs of the first five rows, and the four below the table, instantiate `MCServer`. `QuotasRespected`
is about `max_starting` and `max_prealloc`; `max` bounds the pool ids (`SlotsExclusive`).

| Run | Checks | Instance |
|---|---|---|
| `core_base` | types, links, open tickets, `WorkersOwnRows`, slots, quotas, no reuse, `LossIsReported`, `TicketLifecycle`, `ImplementsAllocator` | one pool with a named counter and no reuse, max 2, tickets of one sandbox (so that only the removal pass prevents reuse); 3 resources, 2 tickets, resource-delete by id, 2 faults; 610 thousand states |
| `core_reuse` | links, open tickets, sandboxes, `RemovalsStand`, `FailedReleaseIsRemoved` | cmd_release and reuse_max_count 1, tickets with and without a sandbox; 2 resources, 3 tickets, resource-delete --all, 2 faults; 1.2 million states |
| `core_liveness` | `WaitingIsServed`, `ClosedTicketIsReleased`, `RemovalCompletes` | cmd_release and reuse, fair; one failed start or release, kill or restart at any point. With 2 faults and 4 resources the properties hold as well; that takes four minutes |
| `livecheck` | `LossIsReported`, `WaitingIsServed` | livechecks, of which the second failure in a row is fatal, and no reuse, fair; 2 failures |
| `ondemand` | `OneStartPerTicket`, `OnDemandNotIdle`, `WaitingIsServed` | two on-demand pools, interchangeable tickets, fair, one failed start |
| `notification` | types, `SleepsOnlyWhenIdle`, `NoOvertaking`, `ServedPromptly`, `WaiterReturns` | `MCNotification`, see Bounds; every order of commit, `set()`, test, sleep, pass and notification; 248 thousand states |
| `spawner` | types, `TicketsAreTracked`, `HookOwnsRecord`, `RecordsComplete`, `GroupsBounded`, `AgentLifecycle`, `AgentsMoveOn` | see Bounds; two crashes, lost answers, failed tickets or dead workers in any combination |
| `cleaner` | types, `UpHasInstance`, `OnlyEndedAreUnknown`, `LeftoversAreRemoved` | see Bounds; three failing hooks, truncated listings or restarts; 109 thousand states |

Four runs show where the code differs from what the repository says of it; each is a finding in
PROJECT.json, with the quotation.

* `failed_release`: a failed cmd_release sets `releases_counter` to `reuse_max_count + 1`, which the
  removal pass ignores when `reuse_max_count` is 0 (`manager.py:969`): the resource stays in use,
  against `config/pools.yaml:135`.
* `reuse_disabled`: cmd_release ends between the removal pass and `_assign_tickets()` of one cycle;
  the resource is assigned again to a ticket of its sandbox with `reuse_opportunity_time` 0.
* `unused_delete`: `resource-delete --unused` kills a resource that was assigned after the list was
  made.
* `ondemand_mixed`: tickets with tags {beefy} and {A, beefy}, the first one older. The resource
  started for {A, beefy} in pool 1 is ready first and `_assign_tickets()` (`manager.py:1070`) gives it
  to {beefy}, whose own one still starts in pool 2. The {A, beefy} ticket has already triggered a
  start, pool 2 cannot serve it, and the next cycle starts another one for it: three resources for
  two tickets, against the comment at `manager.py:1101-1102`.

Also met while modelling; no run is about them:

* `resalloc/client.py:116` says that `wait()` returns immediately after the assignment. A thread
  that registers after the manager has read `tickets.tid`, or is notified between its check and its
  wait, sits out the 10 seconds.
* `waitTicket()` of a ticket that is closed before it has a resource never returns.
* Of a cmd_list output over 5120 bytes only the beginning counts; machines listed further down are
  not removed while those above stay.
* A dispatcher that dies between the two writes of a new redis hash leaves one without a state;
  `state not in "ENDED"` then raises TypeError in each cycle of every later dispatcher.
  `AgentsMoveOn` excludes this case (`unset`).
* `agent_counts()` counts agents that are leaving, so after a decrease `converge()` asks for more
  stops than are too many, and `try_to_stop()` goes through the WORKING agents of all groups.
* A crash between a successful cmd_try_release and the write of TERMINATING leaves an agent WORKING
  that has been told to go.

* A `kill()` that commits between the reads and the commit of `detect_closed_tickets()` is lost: the
  row becomes RELEASING, and UP after cmd_release. `RemovalsStand` excepts exactly this window; nothing
  in the repository promises more. `RemovalCompletes` does not notice the loss: the resource is
  assigned again, to an open ticket, or is late in the end and removed after all.
* With `reuse_max_count` above 0, a cmd_release that fails between the removal pass and
  `_assign_tickets()` of a cycle leaves a resource that may be assigned once more in that cycle,
  against `config/pools.yaml:135-136`. `FailedReleaseIsRemoved` is about the removal pass.
* A livecheck that succeeds again makes a resource ready and wakes nobody; a ticket that waits for it
  is served after the manager's timeout.
* A late TerminateWorker takes an ENDED row back to DELETING, which counts as `on` again: a pool whose
  place was taken meanwhile has `max` + 1 rows until cmd_delete ends.

### Fairness

`FairSpec` assumes that the manager's loop goes on (it sleeps at most `sleeptime` seconds), that
hooks end and their workers write the result, and that the watcher finishes its list. Strong
fairness stands for time: a resource that stays released is found late in some pass, `start_delay`
has passed in some pass, every `livecheck_period` ends. Without it the choice "not yet" could be
made for ever, which clocks exclude. Clients need not close tickets, and no fault is fair. A hook
that never ends, and a worker that dies, are not live: the row keeps its state and counts against
the quotas until the server restarts; so `worker` is not among the faults of the fair runs.

`WaitingIsServed` allows that the client closes its ticket. `RemovalCompletes` allows that an OPEN
ticket holds the resource, the case where the assignment commits after `kill()`.

`NotificationFairSpec`: the manager's pass and its wake-up after `notify()` go on, threads that
committed call `set()`, `waitTicket()` runs and its wait of 10 seconds ends. The manager's own
timeout is deliberately not fair: `ServedPromptly` says that wake-ups suffice. Each waiting
thread is fair by itself. A notification of another thread does not count as the end of the 10
seconds, it starts them again. Workers, the watcher, clients and faults are not fair.

`SpawnerFairSpec`: the dispatcher polls for ever, and each background worker goes on and its hook
ends. `CleanerFairSpec`: only the CleanUnknownWorker is started again and ends; the rows need not
move on.

## 4. Proofs

The theorems about the server are about its `Spec`, for all values of the constants that satisfy the
named assumptions: sizes and budgets are natural numbers, configurations are well typed, with
finitely many tags, and validated as `reload_config()` does, so that no two pools have the same
name; requests have tags and sandboxes, and sandbox names differ from the ones `uuid1()` makes up.

* `ServerTypes!Types`: `[]TypeOK`. `TypeOK` is not inductive: the number that
  `_find_smallest_number()` returns is a natural number only because finitely many are in use
  (`SmallestNumber`, by the pigeonhole principle and the well-foundedness of finite subsets), and
  the ReleaseWorker reads the configuration of the resource's pool, which must exist. `TypeInv` adds
  both.
* `ServerSafety`: `[]OpenTicketKeepsResource`, `[]LinksAgree`, `[]WorkersOwnRows`,
  `[]SandboxIsolation`, and the action properties `LossIsReported`, `TicketLifecycle` and
  `RemovalsStand`. The
  inductive invariant `IInv` has six parts: `Links` and `SandboxesAgree` generalise the properties;
  `Threads` ties each worker to the state of its row, so that a worker that ends late finds the row
  as it left it; `Closed` and `Picked` say what still holds of
  the rows a split transaction has read, when it commits; `Queued` says that the tickets on the
  manager's list have no resource. `Closed` and `Picked` are the core: `kill()` may intervene, but
  no TerminateWorker, as the garbage collector runs in the manager's own thread and starts them only
  for rows already in DELETE_REQUEST. `OpenTicketKeepsResource` then rests on the check of
  `ticket.state` in `TerminateWorker.job()` together with `LinksAgree`.
* `ServerQuotas!SlotsAreExclusive`: `[]SlotsExclusive`. A number is exclusive because it was unused;
  it is below `max` because `SlotsInv` maps the rows in use one to one to the live resources of the
  pool, of which `_allocate_more_resources()` saw fewer than `max`.
* `ServerQuotas!QuotasAreRespected`: `[]QuotasRespected`, by counting. What starts and what is free
  are disjoint, and a step either adds nothing to either (`NoGrowth`), or is the `allocate()` that
  has just counted both and adds one row. What a ReleaseWorker returns is never free again
  (`ReleasedWereUsed`).
* `ServerQuotas!ReuseIsLimited`: `[]ReuseLimit` for configurations where no pool has a cmd_release
  (with one it fails, see `reuse_disabled`). `ReuseInv` says, pool by pool, that after its removal
  pass a pool without cmd_release has no unassigned resource over its limits, until the next cycle:
  the only step that adds one, the commit of `detect_closed_tickets()`, is not in that part of the
  cycle.
* `ServerQuotas!FailedReleasesAreRemoved`: `FailedReleaseIsRemoved` for configurations where
  `reuse_max_count` is set if there is a cmd_release and reuse (`CounterIsRead`; with "unlimited" it
  fails, see `failed_release`). A failed cmd_release is recorded in `releases_counter` only, so
  `FailuresShow` says that the counter stays over the limit until a later cmd_release succeeds.
* `OnDemandSafety!NoNeedlessStarts`: `[]OneStartPerTicket` for configurations where on-demand pools
  have neither reuse nor cmd_release (`NotReused`) and each of them can serve every ticket with an
  on-demand tag (`InterchangeableRequests`). Both hold in the run `ondemand`; in `ondemand_mixed`
  the second does not and the property fails. The proof has two parts.
  - The decision, as a function of the rows. `RecursionExists` shows that the recursive functions
    `already_existing` and `triggered` satisfy their equations (`FirstPass`, `SecondPass`), and
    `UpTo` replaces induction on tickets by the least counterexample in a set, since the library's
    induction theorems cannot be used. With them: each ticket supplied by the first pass uses up one
    resource (`EachUsesOne`); a ticket that is not finds nothing left (`NothingIsLeft`), so that all
    that exists is used up by other tickets; and each remaining ticket starts at most one, since
    priorities are integers (`PriorityIsNumber`) and names are unique, so that at most one pool is
    best (`OneStartingPool`). Together: what is unused and what starts are no more than the tickets
    without a resource (`DecisionCounts`).
  - The cycle. The starts are decided in one transaction and made in later ones, while tickets close
    and resources fail or are killed. `OnDemandInv` therefore keeps, until the pools have allocated,
    a set of starts that is still covered by tickets and of which `demand` is the rest (`Covered`);
    and during the commit of an assignment to an on-demand ticket, that there is one ticket more
    than there are unused resources besides the one that is given away. A ticket with an on-demand
    tag always takes a resource of an on-demand pool (`validate`), and by `ReuseInv` one that no
    ticket had before.
* `ServerRefinement!ServerImplementsAllocator`: `Spec => A!Spec`. Each action is shown to be one
  action of `Allocator` or a stutter, from `IInv`: `Closed` and `Picked` are what makes the reserved
  rows safe from `Destroy`, `SandboxesAgree` gives the condition of `Give`.
* `NotificationSafety`: `[]SleepsOnlyWhenIdle` and `NoOvertaking`. What the next pass would do is
  *covered* when the event is set or a thread is about to set it. The invariant says for each place
  of a pass that what is not covered is still ahead of the pass: among the reserved resources, or on
  the lists `todo` and `listed` (`ClosedCovered`, `ServableCovered`); and that tickets which are not
  on the list any more cannot use what is (`Lists`), which is why the manager lists the ready
  resources once, before it looks at the first ticket. Resources that livechecks hide and show again
  within a pass are `silent`, and excepted from both. `TicketsInOrder` follows from `Lists` and from
  `TakenInOrder`: older tickets were taken before newer ones, so none can come late.
* `NotificationSafety!ContractKept` is about `Allocator` alone: its rules let an open ticket keep a
  resource that works for it and for no other sandbox (`Promise`). `ContractInv` adds that reserved
  resources are not destroyed, which makes `Give` safe. With `ServerImplementsAllocator` this is
  what the server owes its clients.
* `SpawnerSafety`: `[]TicketsAreTracked`, `[]HookOwnsRecord`, `[]RecordsComplete`,
  `[]GroupsBounded`, `AgentLifecycle`. The lists the dispatcher goes through stay true while workers
  write (`ListsAreFresh`), since workers move only agents that are on no list, and what the first of
  two calls did holds at the second (`CallsBelongTogether`). `GroupsBounded` counts hashes: a group
  grows only by `spawn_group`, and what `converge_to()` still has to start fits.
* `CleanerSafety`: `[]UpHasInstance` and `[]OnlyEndedAreUnknown`. Machines are listed before rows,
  and a listed machine's row has been allocated (`ListedHaveRows`): if it is not in the later list
  of known rows, it has ended, and an ended row never comes back to life but by a restart, which
  also ends the job. `Terminating` says that late TerminateWorkers have only rows that are to be
  deleted.

TLC checked `TypeInv` and `IInv` on the instances of `core_base` and `core_reuse`, and `OnDemandInv`
on the one of `ondemand` with failing starts, deletions, workers and restarts, before they were
proved; and the invariants of the other modules on the instances of their runs. The type invariants
of `Notification`, `Spawner` and `Cleaner` are conjuncts of their `IInv` and theorems of their own
(`NotificationTypes`, `SpawnerTypes`, `CleanerTypes`).

So every invariant and every action property of the passing runs is a theorem, under the hypotheses
named above. Only model-checked is what the prover cannot reach, liveness under fairness:
`WaitingIsServed`, `ClosedTicketIsReleased`, `RemovalCompletes`, `OnDemandNotIdle`,
`ServedPromptly`, `WaiterReturns`, `AgentsMoveOn` and `LeftoversAreRemoved`. Nothing is proved of
`ReuseLimit` in pools with cmd_release, nor of `OneStartPerTicket` when pools serve different
tickets.

## 5. Not modelled

* The loop of `yield_lines_from_fds()` and `run_command()` over pipes and buffers. Its result is
  modelled where something depends on it (cmd_list in `Cleaner`).
* Edits of pools.yaml while the server runs: `_detect_unknown_resources()` and pools removed from
  the file, new limits.
* `bin/resalloc`, which makes one call and prints the answer; of the client only the calls of the
  agent spawner are modelled.
* The other commands of resalloc-maint, statistics, the web UI, TLS, logging, command lines and
  migrations: no decision of the server depends on them.

## 6. What is left

1. `Capture`: `yield_lines_from_fds()` and the limits of `run_command()`, as functions of a list of
   chunks, against a reference definition of the lines.
2. Configurations that change: a pool that is removed from the file, or whose limits shrink, while
   its resources live.
3. `OnDemandNotIdle` with three on-demand pools.
4. `OneStartPerTicket` where the tickets fall into classes, each with on-demand pools of its own:
   `NoNeedlessStarts` should hold for each class.
5. `Allocator` as the abstract specification of `Notification`, whose actions conjoin its actions.
