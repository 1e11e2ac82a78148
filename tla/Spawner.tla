------------------------------ MODULE Spawner ------------------------------
(***************************************************************************)
(* The agent spawner (resalloc_agent_spawner): a dispatcher that keeps     *)
(* groups of agents, one resalloc ticket each, at the size an outside      *)
(* command asks for; background workers that run the slow hooks; and redis *)
(* hashes, which alone survive a restart of the dispatcher.  The resalloc  *)
(* server is seen through its API; worker processes are started and        *)
(* watched by copr_common's WorkerManager, one per ticket at a time.       *)
(***************************************************************************)
EXTENDS Naturals, FiniteSets

CONSTANTS
  Tickets,   \* bound of tickets taken
  Groups,    \* agent_groups of the configuration
  MaxIdeal,  \* bound of what cmd_converge_to prints
  MaxFaults, \* bound of crashes, lost answers, failed tickets and dead workers
  None

ASSUME SpawnerAssumption ==
  /\ Tickets \subseteq Nat /\ IsFiniteSet(Tickets) /\ MaxIdeal \in Nat
  /\ None \notin Tickets \cup Groups

VARIABLES
  ticket,   \* the server's tickets; READY and FAILED ones have a resource
  redis,    \* "agent:<ticket>" hashes
  pc,       \* which loop of get_frontend_tasks() the dispatcher is in
  todo,     \* tickets of the list the loop goes through
  cur,      \* the ticket between two calls that belong together
  counts,   \* agent_counts() of this cycle
  groups,   \* groups converge() still has to look at
  group,    \* the group it is busy with
  n,        \* how many agents to start or to stop for it
  tasks,    \* the queue of the WorkerManager
  worker,   \* the state each background worker has read, while its hook runs
  orphans,  \* tickets whose id was lost before it was written
  faults

spawnerVars == <<pc, todo, cur, counts, groups, group, n, tasks>>
spawnerAll == <<ticket, redis, spawnerVars, worker, orphans, faults>>

(* A key without a state: the hash has been half written. *)
States == {"none", "unset", "NEW", "PREPARING", "WORKING", "TERMINATING", "ENDED"}

NoRecord == [state |-> "none", group |-> None, data |-> FALSE]

(* Tickets, hashes and locals hold values of their types; no more agents   *)
(* are started or stopped than are left to start or to stop.               *)
SpawnerTypeOK ==
  /\ ticket \in [Tickets -> {"NONE", "OPEN", "READY", "FAILED", "CLOSED"}]
  /\ redis \in [Tickets -> [state : States, group : Groups \cup {None}, data : BOOLEAN]]
  /\ pc \in {"failed", "drop", "finished", "prepare", "converge", "spawn", "stop"}
  /\ todo \subseteq Tickets
  /\ cur \in Tickets \cup {None}
  /\ counts \in [Groups -> Nat]
  /\ groups \subseteq Groups /\ group \in Groups \cup {None}
  /\ n \in Nat
  /\ tasks \subseteq Tickets
  /\ worker \in [Tickets -> {"idle", "PREPARING", "TERMINATING"}]
  /\ orphans \subseteq Tickets
  /\ faults \in Nat

get_tickets(states) == {t \in Tickets : redis[t].state \in states}
keys == {t \in Tickets : redis[t].state # "none"}

Fresh ==
  /\ pc' = "failed" /\ todo' = keys /\ cur' = None
  /\ counts' = [g \in Groups |-> 0] /\ groups' = {} /\ group' = None /\ n' = 0
  /\ tasks' = {}

SpawnerInit ==
  /\ ticket = [t \in Tickets |-> "NONE"]
  /\ redis = [t \in Tickets |-> NoRecord]
  /\ pc = "failed" /\ todo = {} /\ cur = None
  /\ counts = [g \in Groups |-> 0] /\ groups = {} /\ group = None /\ n = 0
  /\ tasks = {}
  /\ worker = [t \in Tickets |-> "idle"]
  /\ orphans = {} /\ faults = 0

Fault ==
  /\ faults < MaxFaults
  /\ faults' = faults + 1

(* set_ticket_attribute(): hset creates the hash when it is not there. *)
set_state(t, state) == redis' = [redis EXCEPT ![t].state = state]

-----------------------------------------------------------------------------
(* get_frontend_tasks(): each loop goes through a list made at its start. *)

unset == \E t \in Tickets : redis[t].state = "unset"

(* `state not in "ENDED"' raises for a hash without a state. *)
loop(from, states, to) ==
  /\ pc = from /\ todo = {} /\ cur = None
  /\ ~unset
  /\ todo' = get_tickets(states)
  /\ pc' = to
  /\ UNCHANGED <<ticket, redis, cur, counts, groups, group, n, tasks, worker, orphans, faults>>

next_loop ==
  \/ loop("failed", {"ENDED"}, "drop")
  \/ loop("drop", {"WORKING"}, "finished")
  \/ loop("finished", {"NEW"}, "prepare")

within(loop_pc, t) ==
  /\ pc = loop_pc /\ t \in todo /\ cur = None
  /\ todo' = todo \ {t}
  /\ UNCHANGED <<ticket, pc, cur, counts, groups, group, n, tasks, worker, orphans, faults>>

(* Mutant: agents with a background worker are not spared *)
failed_state_any(state) == IF state = "WORKING" THEN "TERMINATING" ELSE "ENDED"

(* Mutant: the cmd_terminate hook is skipped *)
failed_state_ended(state) == IF state \in {"NEW", "WORKING"} THEN "ENDED" ELSE state

failed_state(state) ==
  CASE state = "WORKING" -> "TERMINATING"
    [] state = "NEW"     -> "ENDED"
    [] OTHER             -> state

detect_failed_tickets(t) ==
  /\ within("failed", t)
  /\ IF ticket[t] = "FAILED" THEN set_state(t, failed_state(redis[t].state))
                             ELSE UNCHANGED redis

(* Mutant: the hash is deleted first *)
agent_drop_delete_first(t) ==
  /\ pc = "drop" /\ t \in todo /\ cur = None
  /\ redis' = [redis EXCEPT ![t] = NoRecord]
  /\ cur' = t
  /\ UNCHANGED <<ticket, pc, todo, counts, groups, group, n, tasks, worker, orphans, faults>>

(* agent_drop(): the ticket is closed, then the hash deleted. *)
agent_drop_close(t) ==
  /\ pc = "drop" /\ t \in todo /\ cur = None
  /\ ticket' = [ticket EXCEPT ![t] = "CLOSED"]
  /\ cur' = t
  /\ UNCHANGED <<redis, pc, todo, counts, groups, group, n, tasks, worker, orphans, faults>>

agent_drop_delete ==
  /\ pc = "drop" /\ cur # None
  /\ redis' = [redis EXCEPT ![cur] = NoRecord]
  /\ todo' = todo \ {cur}
  /\ cur' = None
  /\ UNCHANGED <<ticket, pc, counts, groups, group, n, tasks, worker, orphans, faults>>

(* The hooks that poll an agent answer anything. *)
clean_finished_workers(t) ==
  /\ within("finished", t)
  /\ UNCHANGED redis \/ set_state(t, "TERMINATING")

has_data(t) == ticket[t] \in {"READY", "FAILED"}

start_preparing_skip(t) ==
  within("prepare", t) /\ ~has_data(t) /\ UNCHANGED redis

(* Mutant: the state is written first *)
start_preparing_early(t) ==
  /\ pc = "prepare" /\ t \in todo /\ cur = None
  /\ has_data(t)
  /\ set_state(t, "PREPARING")
  /\ cur' = t
  /\ UNCHANGED <<ticket, pc, todo, counts, groups, group, n, tasks, worker, orphans, faults>>

start_preparing_data(t) ==
  /\ pc = "prepare" /\ t \in todo /\ cur = None
  /\ has_data(t)
  /\ redis' = [redis EXCEPT ![t].data = TRUE]
  /\ cur' = t
  /\ UNCHANGED <<ticket, pc, todo, counts, groups, group, n, tasks, worker, orphans, faults>>

start_preparing_state ==
  /\ pc = "prepare" /\ cur # None
  /\ set_state(cur, "PREPARING")
  /\ todo' = todo \ {cur}
  /\ cur' = None
  /\ UNCHANGED <<ticket, pc, counts, groups, group, n, tasks, worker, orphans, faults>>

-----------------------------------------------------------------------------
(* converge() *)

members(g) == {t \in keys : redis[t].group = g}

(* Mutant: only agents that work are counted *)
agent_counts_working == [g \in Groups |->
  Cardinality({t \in members(g) : redis[t].state = "WORKING"})]

agent_counts == [g \in Groups |-> Cardinality(members(g))]

converge ==
  /\ pc = "prepare" /\ todo = {} /\ cur = None
  /\ counts' = agent_counts
  /\ groups' = Groups
  /\ pc' = "converge"
  /\ UNCHANGED <<ticket, redis, todo, cur, group, n, tasks, worker, orphans, faults>>

converge_idle(g) ==
  /\ pc = "converge" /\ g \in groups
  /\ groups' = groups \ {g}
  /\ UNCHANGED <<ticket, redis, pc, todo, cur, counts, group, n, tasks, worker, orphans, faults>>

(* What cmd_converge_to prints, if it does not fail, decides. *)
converge_to(g, ideal) ==
  /\ pc = "converge" /\ g \in groups
  /\ groups' = groups \ {g}
  /\ group' = g
  /\ \/ /\ counts[g] < ideal
        /\ n' = ideal - counts[g]
        /\ pc' = "spawn" /\ UNCHANGED todo
     \/ /\ counts[g] > ideal
        /\ ~unset
        /\ n' = counts[g] - ideal
        /\ pc' = "stop" /\ todo' = get_tickets({"WORKING"})
  /\ UNCHANGED <<ticket, redis, cur, counts, tasks, worker, orphans, faults>>

next_id(t) == ticket[t] = "NONE" /\ \A u \in Tickets : u < t => ticket[u] # "NONE"

(* Connection.newTicket(): when the answer of takeTicket is lost, call()   *)
(* takes another ticket; the first one belongs to nobody.                  *)
newTicket(t) ==
  /\ pc = "spawn" /\ n > 0 /\ cur = None
  /\ next_id(t)
  /\ ticket' = [ticket EXCEPT ![t] = "OPEN"]
  /\ \/ cur' = t /\ UNCHANGED <<orphans, faults>>
     \/ orphans' = orphans \cup {t} /\ Fault /\ UNCHANGED cur
  /\ UNCHANGED <<redis, pc, todo, counts, groups, group, n, tasks, worker>>

spawn_group ==
  /\ pc = "spawn" /\ cur # None /\ redis[cur].state = "none"
  /\ redis' = [redis EXCEPT ![cur].group = group, ![cur].state = "unset"]
  /\ UNCHANGED <<ticket, spawnerVars, worker, orphans, faults>>

spawn_state ==
  /\ pc = "spawn" /\ cur # None /\ redis[cur].state = "unset"
  /\ set_state(cur, "NEW")
  /\ cur' = None
  /\ n' = n - 1
  /\ UNCHANGED <<ticket, pc, todo, counts, groups, group, tasks, worker, orphans, faults>>

(* Mutant: more agents are stopped than asked for *)
try_to_stop_unbounded(t) ==
  /\ pc = "stop" /\ t \in todo
  /\ todo' = todo \ {t}
  /\ \/ UNCHANGED <<redis, n>>
     \/ set_state(t, "TERMINATING") /\ n' = n - 1
  /\ UNCHANGED <<ticket, pc, cur, counts, groups, group, tasks, worker, orphans, faults>>

(* The list holds the WORKING agents of all groups. *)
try_to_stop(t) ==
  /\ pc = "stop" /\ n > 0 /\ t \in todo
  /\ todo' = todo \ {t}
  /\ \/ UNCHANGED <<redis, n>>
     \/ set_state(t, "TERMINATING") /\ n' = n - 1
  /\ UNCHANGED <<ticket, pc, cur, counts, groups, group, tasks, worker, orphans, faults>>

(* The bound of Tickets ends the starting of new ones, too. *)
converge_next ==
  /\ \/ pc = "spawn" /\ cur = None /\ (n = 0 \/ \A t \in Tickets : ticket[t] # "NONE")
     \/ pc = "stop" /\ (n = 0 \/ todo = {})
  /\ pc' = "converge" /\ todo' = {} /\ n' = 0
  /\ UNCHANGED <<ticket, redis, cur, counts, groups, group, tasks, worker, orphans, faults>>

(* Mutant: agents in TERMINATING get no worker *)
background_tasks_preparing ==
  /\ pc = "converge" /\ groups = {}
  /\ tasks' = get_tickets({"PREPARING"})
  /\ pc' = "failed" /\ todo' = keys
  /\ counts' = [g \in Groups |-> 0] /\ group' = None
  /\ UNCHANGED <<ticket, redis, cur, groups, n, worker, orphans, faults>>

(* The tasks are handed over, and the next cycle begins. *)
background_tasks ==
  /\ pc = "converge" /\ groups = {}
  /\ tasks' = get_tickets({"PREPARING", "TERMINATING"})
  /\ pc' = "failed" /\ todo' = keys
  /\ counts' = [g \in Groups |-> 0] /\ group' = None
  /\ UNCHANGED <<ticket, redis, cur, groups, n, worker, orphans, faults>>

-----------------------------------------------------------------------------
(* The dispatcher dies and is started again; a ticket it had not written   *)
(* down is lost.  A half written hash stops it each time.                  *)
lost == IF pc = "spawn" /\ cur # None /\ redis[cur].state = "none" THEN {cur} ELSE {}

crash ==
  /\ Fault
  /\ Fresh
  /\ orphans' = orphans \cup lost
  /\ UNCHANGED <<ticket, redis, worker>>

raises ==
  /\ unset /\ todo = {} /\ cur = None
  /\ pc \in {"failed", "drop", "finished"}
  /\ Fresh
  /\ UNCHANGED <<ticket, redis, worker, orphans, faults>>

-----------------------------------------------------------------------------
(* AgentHandler.handle_ticket(): the hash is read once, the hook takes its *)
(* time, then the state is written.  Other states are left alone.          *)
worker_start(t) ==
  /\ t \in tasks /\ worker[t] = "idle"
  /\ tasks' = tasks \ {t}
  /\ worker' = IF redis[t].state \in {"PREPARING", "TERMINATING"} /\ redis[t].data
               THEN [worker EXCEPT ![t] = redis[t].state] ELSE worker
  /\ UNCHANGED <<ticket, redis, pc, todo, cur, counts, groups, group, n, orphans, faults>>

hook_ends(t, state) ==
  /\ set_state(t, state)
  /\ worker' = [worker EXCEPT ![t] = "idle"]
  /\ UNCHANGED <<ticket, spawnerVars, orphans, faults>>

worker_prepared(t) == worker[t] = "PREPARING" /\ hook_ends(t, "WORKING")
worker_prepare_failed(t) == worker[t] = "PREPARING" /\ hook_ends(t, "ENDED")
worker_terminated(t) == worker[t] = "TERMINATING" /\ hook_ends(t, "ENDED")

worker_dies(t) ==
  /\ worker[t] # "idle" /\ Fault
  /\ worker' = [worker EXCEPT ![t] = "idle"]
  /\ UNCHANGED <<ticket, redis, spawnerVars, orphans>>

(* The server assigns a resource to a ticket, and may lose it. *)
ticket_ready(t) ==
  /\ ticket[t] = "OPEN"
  /\ ticket' = [ticket EXCEPT ![t] = "READY"]
  /\ UNCHANGED <<redis, spawnerVars, worker, orphans, faults>>

ticket_failed(t) ==
  /\ ticket[t] = "READY" /\ Fault
  /\ ticket' = [ticket EXCEPT ![t] = "FAILED"]
  /\ UNCHANGED <<redis, spawnerVars, worker, orphans>>

dispatcher ==
  \/ next_loop \/ agent_drop_delete \/ start_preparing_state \/ converge
  \/ spawn_group \/ spawn_state \/ converge_next \/ background_tasks \/ raises
  \/ \E t \in Tickets : \/ detect_failed_tickets(t) \/ agent_drop_close(t)
                        \/ clean_finished_workers(t)
                        \/ start_preparing_skip(t) \/ start_preparing_data(t)
                        \/ newTicket(t) \/ try_to_stop(t)
  \/ \E g \in Groups : converge_idle(g) \/ \E ideal \in 0..MaxIdeal : converge_to(g, ideal)

background_worker(t) ==
  worker_start(t) \/ worker_prepared(t) \/ worker_prepare_failed(t) \/ worker_terminated(t)

SpawnerNext ==
  \/ dispatcher \/ crash
  \/ \E t \in Tickets : \/ background_worker(t) \/ worker_dies(t)
                        \/ ticket_ready(t) \/ ticket_failed(t)

SpawnerSpec == SpawnerInit /\ [][SpawnerNext]_spawnerAll

(* The dispatcher polls without end, and hooks of workers end.             *)
SpawnerFairSpec ==
  /\ SpawnerSpec
  /\ WF_spawnerAll(dispatcher)
  /\ \A t \in Tickets : WF_spawnerAll(background_worker(t))

-----------------------------------------------------------------------------
(* A ticket that is not closed can be found in redis, so that somebody     *)
(* closes it one day, however often the dispatcher dies between two of its *)
(* calls; only an id that was never written down is lost.                  *)
TicketsAreTracked ==
  \A t \in Tickets :
    ticket[t] \in {"OPEN", "READY", "FAILED"}
      => t \in keys \cup orphans \/ (pc = "spawn" /\ cur = t)

(* While the hook of a worker runs nobody changes the state it has read:   *)
(* its write never revives a dropped agent or undoes a decision.           *)
HookOwnsRecord ==
  \A t \in Tickets : worker[t] # "idle" => redis[t].state = worker[t]

(* What a hook needs is in the hash before a worker may be started for it. *)
RecordsComplete ==
  \A t \in Tickets :
    redis[t].state \in {"PREPARING", "WORKING", "TERMINATING"}
      => redis[t].data /\ redis[t].group # None

(* A group never has more agents, the failed and leaving ones included,    *)
(* than the largest number asked for.                                      *)
GroupsBounded == \A g \in Groups : Cardinality(members(g)) <= MaxIdeal

(* Agents go through their states in order: one that was prepared is       *)
(* cleaned up after with cmd_terminate before its ticket is closed, and    *)
(* no ticket is closed under an agent that has not ended.                  *)
AgentLifecycle ==
  [][\A t \in Tickets :
       /\ redis[t].state = "WORKING" => redis'[t].state \in {"WORKING", "TERMINATING"}
       /\ redis[t].state = "TERMINATING" => redis'[t].state \in {"TERMINATING", "ENDED"}
       /\ redis[t].state = "ENDED" /\ redis'[t].state # "ENDED"
            => redis'[t].state = "none" /\ ticket[t] = "CLOSED"
       /\ ticket[t] # "CLOSED" /\ ticket'[t] = "CLOSED" => redis[t].state = "ENDED"]_spawnerAll

(* An agent that is being prepared, terminated or dropped gets on, also    *)
(* when workers die and the dispatcher restarts, unless a half written     *)
(* hash stops the dispatcher for good.                                     *)
AgentsMoveOn ==
  \A t \in Tickets :
    (redis[t].state \in {"PREPARING", "TERMINATING", "ENDED"})
      ~> (redis[t].state \in {"WORKING", "none"} \/ unset)
=============================================================================
