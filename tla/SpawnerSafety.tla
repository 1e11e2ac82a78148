--------------------------- MODULE SpawnerSafety ---------------------------
(***************************************************************************)
(* Proofs about Spawner: for any number of tickets, groups and faults, no  *)
(* ticket is lost but by a lost answer, and dispatcher and workers do not  *)
(* disturb each other's agents.                                            *)
(***************************************************************************)
EXTENDS Spawner, FiniteSetTheorems, TLAPS

(* The loops of get_frontend_tasks() go through agents that are still in   *)
(* the state they were listed for: workers move only agents that are       *)
(* PREPARING or TERMINATING, and those are on no list.                     *)
ListsAreFresh ==
  /\ pc = "drop" => \A t \in todo : redis[t].state = "ENDED"
  /\ pc \in {"finished", "stop"} => \A t \in todo : redis[t].state = "WORKING"
  /\ pc = "prepare" => \A t \in todo : redis[t].state = "NEW"

(* Between two calls for one ticket, what the first one did holds. *)
CallsBelongTogether ==
  cur # None =>
    \/ pc = "drop" /\ cur \in todo /\ ticket[cur] = "CLOSED"
    \/ pc = "prepare" /\ cur \in todo /\ redis[cur].data
    \/ /\ pc = "spawn" /\ redis[cur].state \in {"none", "unset"} /\ n > 0
       /\ ticket[cur] # "NONE"

(* Every hash has a group, and a ticket. *)
GroupsAreWritten ==
  /\ pc \in {"spawn", "stop"} => group # None
  /\ \A t \in Tickets :
       redis[t].state # "none" => redis[t].group # None /\ ticket[t] # "NONE"

IInv ==
  /\ SpawnerTypeOK
  /\ ListsAreFresh
  /\ CallsBelongTogether
  /\ GroupsAreWritten
  /\ TicketsAreTracked
  /\ HookOwnsRecord
  /\ RecordsComplete

Records == [state : States, group : Groups \cup {None}, data : BOOLEAN]

(* set_ticket_attribute(ticket_id, "state", ...) touches one field of one  *)
(* hash.                                                                   *)
LEMMA SetState ==
  ASSUME redis \in [Tickets -> Records], NEW t \in Tickets, NEW state \in States,
         set_state(t, state)
  PROVE  /\ redis' \in [Tickets -> Records]
         /\ redis'[t].state = state
         /\ \A u \in Tickets : /\ u # t => redis'[u].state = redis[u].state
                               /\ redis'[u].group = redis[u].group
                               /\ redis'[u].data = redis[u].data
<1>1. redis' = [redis EXCEPT ![t] = [redis[t] EXCEPT !.state = state]]
  BY DEF set_state
<1>2. redis[t] \in Records
  OBVIOUS
<1>3. PICK r \in Records : r = [redis[t] EXCEPT !.state = state]
  BY <1>2 DEF Records
<1>4. r.state = state /\ r.group = redis[t].group /\ r.data = redis[t].data
  BY <1>2, <1>3 DEF Records
<1>5. redis' = [redis EXCEPT ![t] = r]
  BY <1>1, <1>3
<1> QED BY <1>4, <1>5

-----------------------------------------------------------------------------
(* Types *)

(* What is written to redis are whole records, field by field. *)
LEMMA RedisTypes ==
  ASSUME IInv, [SpawnerNext]_spawnerAll
  PROVE  redis' \in [Tickets -> Records]
<1> USE SpawnerAssumption
<1>1. redis \in [Tickets -> Records] /\ None \in Groups \cup {None}
  BY DEF IInv, SpawnerTypeOK, Records
<1>2. ASSUME NEW t \in Tickets, NEW state \in States, set_state(t, state)
      PROVE  redis' \in [Tickets -> Records]
  BY <1>1, <1>2, SetState
<1>3. ASSUME NEW t \in Tickets, detect_failed_tickets(t)
      PROVE  redis' \in [Tickets -> Records]
  <2>1. failed_state(redis[t].state) \in States
    BY <1>1 DEF failed_state, States, Records
  <2> QED BY <1>1, <1>2, <1>3, <2>1 DEF detect_failed_tickets
<1>4. ASSUME NEW t \in Tickets, clean_finished_workers(t) \/ try_to_stop(t)
      PROVE  redis' \in [Tickets -> Records]
  <2>1. "TERMINATING" \in States
    BY DEF States
  <2> QED BY <1>1, <1>2, <1>4, <2>1 DEF clean_finished_workers, try_to_stop
<1>5. ASSUME NEW t \in Tickets, background_worker(t)
      PROVE  redis' \in [Tickets -> Records]
  <2>1. "WORKING" \in States /\ "ENDED" \in States
    BY DEF States
  <2> QED BY <1>1, <1>2, <1>5, <2>1
          DEF background_worker, worker_start, worker_prepared, worker_prepare_failed,
              worker_terminated, hook_ends
<1>6. CASE start_preparing_state \/ spawn_state
  <2>1. "PREPARING" \in States /\ "NEW" \in States
    BY DEF States
  <2>2. cur \in Tickets
    BY <1>6 DEF start_preparing_state, spawn_state, IInv, SpawnerTypeOK
  <2> QED BY <1>2, <1>6, <2>1, <2>2 DEF start_preparing_state, spawn_state
<1>7. CASE agent_drop_delete
  <2>1. NoRecord \in Records
    BY DEF NoRecord, Records, States
  <2> QED BY <1>1, <1>7, <2>1 DEF agent_drop_delete
<1>8. ASSUME NEW t \in Tickets, start_preparing_data(t)
      PROVE  redis' \in [Tickets -> Records]
  <2>1. [redis[t] EXCEPT !.data = TRUE] \in Records
    <3>1. redis[t] \in Records
      BY <1>1
    <3> QED BY <3>1 DEF Records
  <2> QED BY <1>1, <1>8, <2>1 DEF start_preparing_data
<1>9. CASE spawn_group
  <2>1. cur \in Tickets /\ group \in Groups \cup {None} /\ "unset" \in States
    BY <1>9 DEF spawn_group, IInv, SpawnerTypeOK, States
  <2>2. redis[cur] \in Records
    BY <1>1, <2>1
  <2>3. [[redis[cur] EXCEPT !.group = group] EXCEPT !.state = "unset"] \in Records
    BY <2>1, <2>2 DEF Records
  <2>4. redis' = [redis EXCEPT ![cur] =
                    [[redis[cur] EXCEPT !.group = group] EXCEPT !.state = "unset"]]
    BY <1>1, <1>9, <2>1 DEF spawn_group
  <2> QED BY <1>1, <2>3, <2>4
<1>10. ASSUME UNCHANGED redis
       PROVE  redis' \in [Tickets -> Records]
  BY <1>1, <1>10
<1>11. CASE \/ next_loop \/ converge \/ converge_next \/ background_tasks \/ raises
            \/ crash \/ UNCHANGED spawnerAll
  BY <1>10, <1>11 DEF next_loop, loop, converge, converge_next, background_tasks, raises,
                      crash, spawnerAll
<1>12. ASSUME NEW t \in Tickets,
              \/ agent_drop_close(t) \/ start_preparing_skip(t) \/ newTicket(t)
              \/ worker_dies(t) \/ ticket_ready(t) \/ ticket_failed(t)
       PROVE  redis' \in [Tickets -> Records]
  BY <1>10, <1>12 DEF agent_drop_close, start_preparing_skip, newTicket, worker_dies,
                      ticket_ready, ticket_failed
<1>13. ASSUME NEW g \in Groups, converge_idle(g) \/ \E ideal \in 0..MaxIdeal : converge_to(g, ideal)
       PROVE  redis' \in [Tickets -> Records]
  BY <1>10, <1>13 DEF converge_idle, converge_to
<1> QED BY <1>3, <1>4, <1>5, <1>6, <1>7, <1>8, <1>9, <1>11, <1>12, <1>13
        DEF SpawnerNext, dispatcher

(* agent_counts() counts finitely many hashes. *)
LEMMA CountsAreNatural == agent_counts \in [Groups -> Nat]
<1>1. ASSUME NEW g \in Groups PROVE Cardinality(members(g)) \in Nat
  <2>1. members(g) \subseteq Tickets /\ IsFiniteSet(Tickets)
    BY SpawnerAssumption DEF members, keys
  <2> QED BY <2>1, FS_Subset, FS_CardinalityType
<1> QED BY <1>1 DEF agent_counts

(* Every step keeps the types; starting and stopping count down to 0. *)
LEMMA Types ==
  ASSUME IInv, [SpawnerNext]_spawnerAll
  PROVE  SpawnerTypeOK'
<1> USE SpawnerAssumption
<1>0. redis' \in [Tickets -> Records]
  BY RedisTypes
<1>1. SpawnerTypeOK
  BY DEF IInv
<1>2. get_tickets({"ENDED"}) \subseteq Tickets /\ keys \subseteq Tickets
      /\ \A S : get_tickets(S) \subseteq Tickets
  BY DEF get_tickets, keys
<1>F. Fault => faults' \in Nat
  BY <1>1 DEF Fault, SpawnerTypeOK
<1>3. ASSUME NEW t \in Tickets, NEW p, within(p, t)
      PROVE  SpawnerTypeOK'
  BY <1>0, <1>1, <1>3 DEF within, SpawnerTypeOK, Records
<1>4. ASSUME NEW t \in Tickets,
             detect_failed_tickets(t) \/ clean_finished_workers(t) \/ start_preparing_skip(t)
      PROVE  SpawnerTypeOK'
  BY <1>3, <1>4 DEF detect_failed_tickets, clean_finished_workers, start_preparing_skip
<1>5. ASSUME NEW t \in Tickets, agent_drop_close(t) \/ start_preparing_data(t)
      PROVE  SpawnerTypeOK'
  BY <1>0, <1>1, <1>5 DEF agent_drop_close, start_preparing_data, SpawnerTypeOK, Records
<1>6. CASE agent_drop_delete \/ start_preparing_state
  BY <1>0, <1>1, <1>6 DEF agent_drop_delete, start_preparing_state, SpawnerTypeOK, Records
<1>7. CASE next_loop
  BY <1>0, <1>1, <1>2, <1>7 DEF next_loop, loop, SpawnerTypeOK, Records
<1>8. CASE converge
  BY <1>0, <1>1, <1>8, CountsAreNatural DEF converge, SpawnerTypeOK, Records
<1>9. ASSUME NEW g \in Groups, converge_idle(g)
      PROVE  SpawnerTypeOK'
  BY <1>0, <1>1, <1>9 DEF converge_idle, SpawnerTypeOK, Records
<1>10. ASSUME NEW g \in Groups, NEW ideal \in 0..MaxIdeal, converge_to(g, ideal)
       PROVE  SpawnerTypeOK'
  <2>1. n' \in Nat
    BY <1>1, <1>10 DEF converge_to, SpawnerTypeOK
  <2> QED BY <1>0, <1>1, <1>2, <1>10, <2>1 DEF converge_to, SpawnerTypeOK, Records
<1>11. ASSUME NEW t \in Tickets, newTicket(t)
       PROVE  SpawnerTypeOK'
  <2>1. ticket' \in [Tickets -> {"NONE", "OPEN", "READY", "FAILED", "CLOSED"}]
    BY <1>1, <1>11 DEF newTicket, SpawnerTypeOK
  <2>2. cur' \in Tickets \cup {None} /\ orphans' \subseteq Tickets /\ faults' \in Nat
    BY <1>1, <1>F, <1>11 DEF newTicket, SpawnerTypeOK
  <2> QED BY <1>0, <1>1, <1>11, <2>1, <2>2 DEF newTicket, SpawnerTypeOK, Records
<1>12. CASE spawn_group
  BY <1>0, <1>1, <1>12 DEF spawn_group, spawnerVars, SpawnerTypeOK, Records
<1>13. CASE spawn_state
  <2>1. n > 0
    BY <1>13 DEF spawn_state, IInv, CallsBelongTogether
  <2>2. n' \in Nat
    BY <1>1, <1>13, <2>1 DEF spawn_state, SpawnerTypeOK
  <2> QED BY <1>0, <1>1, <1>13, <2>2 DEF spawn_state, SpawnerTypeOK, Records
<1>14. ASSUME NEW t \in Tickets, try_to_stop(t)
       PROVE  SpawnerTypeOK'
  <2>1. n' \in Nat
    BY <1>1, <1>14 DEF try_to_stop, SpawnerTypeOK
  <2> QED BY <1>0, <1>1, <1>14, <2>1 DEF try_to_stop, SpawnerTypeOK, Records
<1>15. CASE converge_next
  BY <1>0, <1>1, <1>15 DEF converge_next, SpawnerTypeOK, Records
<1>16. CASE background_tasks
  BY <1>0, <1>1, <1>2, <1>16 DEF background_tasks, SpawnerTypeOK, Records
<1>17. CASE crash \/ raises
  <2>1. lost \subseteq Tickets
    BY <1>1 DEF lost, SpawnerTypeOK
  <2>2. orphans' \subseteq Tickets /\ faults' \in Nat /\ ticket' = ticket /\ worker' = worker
    BY <1>1, <1>F, <1>17, <2>1 DEF crash, raises, SpawnerTypeOK
  <2>3. Fresh
    BY <1>17 DEF crash, raises
  <2> QED BY <1>0, <1>1, <1>2, <2>2, <2>3 DEF Fresh, SpawnerTypeOK, Records
<1>18. ASSUME NEW t \in Tickets, worker_start(t)
       PROVE  SpawnerTypeOK'
  BY <1>0, <1>1, <1>18 DEF worker_start, SpawnerTypeOK, Records
<1>19. ASSUME NEW t \in Tickets,
              \/ worker_prepared(t) \/ worker_prepare_failed(t) \/ worker_terminated(t)
              \/ worker_dies(t)
       PROVE  SpawnerTypeOK'
  <2>1. /\ worker' = [worker EXCEPT ![t] = "idle"] /\ faults' \in Nat
        /\ UNCHANGED <<ticket, spawnerVars, orphans>>
    BY <1>1, <1>F, <1>19 DEF worker_prepared, worker_prepare_failed, worker_terminated,
                             hook_ends, worker_dies, SpawnerTypeOK
  <2> QED BY <1>0, <1>1, <2>1 DEF spawnerVars, SpawnerTypeOK, Records
<1>20. ASSUME NEW t \in Tickets, ticket_ready(t) \/ ticket_failed(t)
       PROVE  SpawnerTypeOK'
  <2>1. /\ ticket' \in [Tickets -> {"NONE", "OPEN", "READY", "FAILED", "CLOSED"}]
        /\ faults' \in Nat /\ UNCHANGED <<spawnerVars, worker, orphans>>
    BY <1>1, <1>F, <1>20 DEF ticket_ready, ticket_failed, SpawnerTypeOK
  <2> QED BY <1>0, <1>1, <2>1 DEF spawnerVars, SpawnerTypeOK, Records
<1>21. CASE UNCHANGED spawnerAll
  BY <1>1, <1>21 DEF spawnerAll, spawnerVars, SpawnerTypeOK
<1> QED BY <1>4, <1>5, <1>6, <1>7, <1>8, <1>9, <1>10, <1>11, <1>12, <1>13, <1>14, <1>15,
           <1>16, <1>17, <1>18, <1>19, <1>20, <1>21
        DEF SpawnerNext, dispatcher, background_worker

-----------------------------------------------------------------------------
(* What ties the dispatcher, the workers, redis and the server together *)

Bonds ==
  /\ ListsAreFresh
  /\ CallsBelongTogether
  /\ GroupsAreWritten
  /\ TicketsAreTracked
  /\ HookOwnsRecord
  /\ RecordsComplete

(* A state was written to the hash of t. *)
Written(t, state) ==
  /\ redis'[t].state = state
  /\ \A u \in Tickets : /\ u # t => redis'[u].state = redis[u].state
                        /\ redis'[u].group = redis[u].group
                        /\ redis'[u].data = redis[u].data

(* SetState in the terms the following lemmas use. *)
LEMMA StateWritten ==
  ASSUME SpawnerTypeOK, NEW t \in Tickets, NEW state \in States, set_state(t, state)
  PROVE  Written(t, state)
BY SetState DEF SpawnerTypeOK, Records, Written

(* The first two loops of a cycle, and the third. *)
LEMMA LoopsKeepBonds ==
  ASSUME IInv,
         \/ next_loop \/ agent_drop_delete
         \/ \E t \in Tickets : \/ detect_failed_tickets(t) \/ agent_drop_close(t)
                               \/ clean_finished_workers(t)
  PROVE  Bonds'
<1> USE SpawnerAssumption
<1> USE DEF Bonds, ListsAreFresh, CallsBelongTogether, GroupsAreWritten, TicketsAreTracked,
            HookOwnsRecord, RecordsComplete, keys
<1>1. SpawnerTypeOK /\ Bonds
  BY DEF IInv
<1>2. CASE next_loop
  BY <1>1, <1>2 DEF next_loop, loop, get_tickets
<1>3. ASSUME NEW t \in Tickets, detect_failed_tickets(t)
      PROVE  Bonds'
  <2>1. CASE UNCHANGED redis
    BY <1>1, <1>3, <2>1 DEF detect_failed_tickets, within
  <2>2. CASE set_state(t, failed_state(redis[t].state))
    <3>1. failed_state(redis[t].state) \in States
      BY <1>1 DEF failed_state, States, SpawnerTypeOK
    <3>2. Written(t, failed_state(redis[t].state))
      BY <1>1, <2>2, <3>1, StateWritten
    <3>3. /\ pc = "failed" /\ cur = None
          /\ UNCHANGED <<ticket, pc, cur, counts, groups, group, n, tasks, worker, orphans>>
      BY <1>3 DEF detect_failed_tickets, within
    <3>4. ListsAreFresh' /\ CallsBelongTogether'
      BY <3>3
    <3>5. GroupsAreWritten' /\ TicketsAreTracked'
      BY <1>1, <3>2, <3>3 DEF Written, failed_state
    <3>6. HookOwnsRecord'
      <4>1. redis[t].state \in {"PREPARING", "TERMINATING"}
              => failed_state(redis[t].state) = redis[t].state
        BY DEF failed_state
      <4> QED BY <1>1, <3>2, <3>3, <4>1 DEF Written, SpawnerTypeOK
    <3>7. RecordsComplete'
      BY <1>1, <3>2, <3>3 DEF Written, failed_state
    <3> QED BY <3>4, <3>5, <3>6, <3>7
  <2> QED BY <1>3, <2>1, <2>2 DEF detect_failed_tickets
<1>4. ASSUME NEW t \in Tickets, agent_drop_close(t)
      PROVE  Bonds'
  BY <1>1, <1>4 DEF agent_drop_close, SpawnerTypeOK
<1>5. CASE agent_drop_delete
  <2>1. cur \in Tickets /\ pc = "drop" /\ ticket[cur] = "CLOSED" /\ redis[cur].state = "ENDED"
    BY <1>1, <1>5 DEF agent_drop_delete, SpawnerTypeOK
  <2>2. /\ redis'[cur].state = "none"
        /\ \A u \in Tickets : u # cur => redis'[u] = redis[u]
    BY <1>1, <1>5, <2>1 DEF agent_drop_delete, SpawnerTypeOK, NoRecord
  <2>3. /\ todo' = todo \ {cur} /\ cur' = None
        /\ UNCHANGED <<ticket, pc, group, worker, orphans>>
    BY <1>5 DEF agent_drop_delete
  <2>4. ListsAreFresh' /\ CallsBelongTogether'
    BY <1>1, <2>1, <2>2, <2>3 DEF SpawnerTypeOK
  <2>5. GroupsAreWritten' /\ RecordsComplete'
    BY <1>1, <2>1, <2>2, <2>3
  <2>6. TicketsAreTracked'
    BY <1>1, <2>1, <2>2, <2>3
  <2>7. HookOwnsRecord'
    BY <1>1, <2>1, <2>2, <2>3 DEF SpawnerTypeOK
  <2> QED BY <2>4, <2>5, <2>6, <2>7
<1>6. ASSUME NEW t \in Tickets, clean_finished_workers(t)
      PROVE  Bonds'
  <2>1. CASE UNCHANGED redis
    BY <1>1, <1>6, <2>1 DEF clean_finished_workers, within
  <2>2. CASE set_state(t, "TERMINATING")
    <3>1. "TERMINATING" \in States
      BY DEF States
    <3>2. Written(t, "TERMINATING")
      BY <1>1, <2>2, <3>1, StateWritten
    <3>3. /\ pc = "finished" /\ cur = None /\ redis[t].state = "WORKING"
          /\ todo' = todo \ {t}
          /\ UNCHANGED <<ticket, pc, cur, group, worker, orphans>>
      BY <1>1, <1>6 DEF clean_finished_workers, within
    <3>4. ListsAreFresh' /\ CallsBelongTogether'
      BY <1>1, <3>2, <3>3 DEF Written, SpawnerTypeOK
    <3>5. GroupsAreWritten'
      <4>1. /\ \A u \in Tickets : redis'[u].group = redis[u].group
            /\ \A u \in Tickets : redis'[u].state # "none" => redis[u].state # "none"
        BY <3>3, <3>2 DEF Written
      <4> QED BY <1>1, <3>3, <4>1
    <3>7. TicketsAreTracked'
      BY <1>1, <3>2, <3>3 DEF Written
    <3>6. HookOwnsRecord' /\ RecordsComplete'
      BY <1>1, <3>2, <3>3 DEF Written, SpawnerTypeOK
    <3> QED BY <3>4, <3>5, <3>6, <3>7
  <2> QED BY <1>6, <2>1, <2>2 DEF clean_finished_workers
<1> QED BY <1>2, <1>3, <1>4, <1>5, <1>6

(* start_preparing() and converge(). *)
LEMMA ConvergeKeepsBonds ==
  ASSUME IInv,
         \/ start_preparing_state \/ converge \/ spawn_group \/ spawn_state
         \/ converge_next \/ background_tasks
         \/ \E t \in Tickets : \/ start_preparing_skip(t) \/ start_preparing_data(t)
                               \/ newTicket(t) \/ try_to_stop(t)
         \/ \E g \in Groups : \/ converge_idle(g)
                              \/ \E ideal \in 0..MaxIdeal : converge_to(g, ideal)
  PROVE  Bonds'
<1> USE SpawnerAssumption
<1> USE DEF Bonds, ListsAreFresh, CallsBelongTogether, GroupsAreWritten, TicketsAreTracked,
            HookOwnsRecord, RecordsComplete, keys
<1>1. SpawnerTypeOK /\ Bonds
  BY DEF IInv
<1>2. ASSUME NEW t \in Tickets, start_preparing_skip(t)
      PROVE  Bonds'
  BY <1>1, <1>2 DEF start_preparing_skip, within
<1>3. ASSUME NEW t \in Tickets, start_preparing_data(t)
      PROVE  Bonds'
  <2>1. PICK r \in Records : r = [redis[t] EXCEPT !.data = TRUE]
    <3>1. redis[t] \in Records
      BY <1>1 DEF SpawnerTypeOK, Records
    <3> QED BY <3>1 DEF Records
  <2>2. r.state = redis[t].state /\ r.group = redis[t].group /\ r.data
    BY <1>1, <2>1 DEF SpawnerTypeOK, Records
  <2>3. redis' = [redis EXCEPT ![t] = r]
    BY <1>3, <2>1 DEF start_preparing_data
  <2>4. \A u \in Tickets : redis'[u].state = redis[u].state /\ redis'[u].group = redis[u].group
    BY <1>1, <2>2, <2>3 DEF SpawnerTypeOK
  <2>5. redis'[t].data /\ \A u \in Tickets : u # t => redis'[u].data = redis[u].data
    BY <1>1, <2>2, <2>3 DEF SpawnerTypeOK
  <2>6. /\ pc = "prepare" /\ t \in todo /\ cur' = t
        /\ UNCHANGED <<ticket, pc, todo, group, worker, orphans>>
    BY <1>3 DEF start_preparing_data
  <2>7. ListsAreFresh' /\ GroupsAreWritten'
    BY <1>1, <2>4, <2>6 DEF SpawnerTypeOK
  <2>8. CallsBelongTogether'
    BY <2>5, <2>6
  <2>9. TicketsAreTracked' /\ HookOwnsRecord'
    <3>1. cur = None \/ pc # "spawn"
      BY <1>1, <2>6
    <3> QED BY <1>1, <2>4, <2>6, <3>1
  <2>10. RecordsComplete'
    BY <1>1, <2>4, <2>5
  <2> QED BY <2>7, <2>8, <2>9, <2>10
<1>4. CASE start_preparing_state
  <2>1. /\ cur \in Tickets /\ pc = "prepare"
        /\ redis[cur].state = "NEW" /\ redis[cur].data /\ redis[cur].group # None
    BY <1>1, <1>4 DEF start_preparing_state, SpawnerTypeOK
  <2>2. Written(cur, "PREPARING")
    BY <1>1, <1>4, <2>1, StateWritten DEF start_preparing_state, States
  <2>3. /\ todo' = todo \ {cur} /\ cur' = None
        /\ UNCHANGED <<ticket, pc, group, worker, orphans>>
    BY <1>4 DEF start_preparing_state
  <2>4. ListsAreFresh' /\ CallsBelongTogether'
    BY <1>1, <2>1, <2>2, <2>3 DEF Written, SpawnerTypeOK
  <2>5. GroupsAreWritten'
    BY <1>1, <2>1, <2>2, <2>3 DEF Written
  <2>7. RecordsComplete'
    BY <1>1, <2>1, <2>2 DEF Written
  <2>6. TicketsAreTracked' /\ HookOwnsRecord'
    BY <1>1, <2>1, <2>2, <2>3 DEF Written, SpawnerTypeOK
  <2> QED BY <2>4, <2>5, <2>6, <2>7
<1>5. CASE converge \/ background_tasks \/ \E g \in Groups : converge_idle(g)
  <2>1. CASE converge \/ \E g \in Groups : converge_idle(g)
    BY <1>1, <2>1 DEF converge, converge_idle
  <2>2. CASE background_tasks
    BY <1>1, <2>2 DEF background_tasks
  <2> QED BY <1>5, <2>1, <2>2
<1>6. ASSUME NEW g \in Groups, NEW ideal, converge_to(g, ideal)
      PROVE  Bonds'
  BY <1>1, <1>6 DEF converge_to, get_tickets
<1>7. ASSUME NEW t \in Tickets, newTicket(t)
      PROVE  Bonds'
  <2>1. /\ pc = "spawn" /\ n > 0 /\ cur = None /\ ticket[t] = "NONE"
        /\ ticket' = [ticket EXCEPT ![t] = "OPEN"]
        /\ \/ cur' = t /\ orphans' = orphans
           \/ cur' = None /\ orphans' = orphans \cup {t}
        /\ UNCHANGED <<redis, pc, todo, group, n, worker>>
    BY <1>7 DEF newTicket, next_id
  <2>2. TicketsAreTracked'
    BY <1>1, <2>1 DEF SpawnerTypeOK
  <2>3. redis[t].state = "none"
    BY <1>1, <2>1
  <2>4. ListsAreFresh' /\ HookOwnsRecord' /\ RecordsComplete'
    BY <1>1, <2>1
  <2>5. CallsBelongTogether' /\ GroupsAreWritten'
    BY <1>1, <2>1, <2>3 DEF SpawnerTypeOK
  <2> QED BY <2>2, <2>4, <2>5
<1>8. CASE spawn_group
  <2>1. /\ cur \in Tickets /\ pc = "spawn" /\ redis[cur].state = "none" /\ group # None
        /\ UNCHANGED <<ticket, pc, todo, cur, group, n, worker, orphans>>
    BY <1>1, <1>8 DEF spawn_group, spawnerVars, SpawnerTypeOK
  <2>2. /\ redis'[cur].state = "unset" /\ redis'[cur].group = group
        /\ \A u \in Tickets : u # cur => redis'[u] = redis[u]
    <3>1. redis \in [Tickets -> Records] /\ group \in Groups \cup {None}
      BY <1>1 DEF SpawnerTypeOK, Records
    <3>2. PICK q \in Records : q = [redis[cur] EXCEPT !.group = group]
      <4>1. redis[cur] \in Records
        BY <2>1, <3>1
      <4> QED BY <3>1, <4>1 DEF Records
    <3>3. PICK r \in Records : r = [q EXCEPT !.state = "unset"]
      BY <3>2 DEF Records, States
    <3>4. r.state = "unset" /\ r.group = group
      <4>1. redis[cur] \in Records
        BY <2>1, <3>1
      <4> QED BY <3>2, <3>3, <4>1 DEF Records
    <3>5. redis' = [redis EXCEPT ![cur] = r]
      BY <1>8, <2>1, <3>1, <3>2, <3>3 DEF spawn_group
    <3> QED BY <2>1, <3>1, <3>4, <3>5
  <2>3. ListsAreFresh' /\ CallsBelongTogether' /\ GroupsAreWritten'
    BY <1>1, <2>1, <2>2
  <2>4. TicketsAreTracked' /\ RecordsComplete'
    BY <1>1, <2>1, <2>2
  <2>5. HookOwnsRecord'
    BY <1>1, <2>1, <2>2 DEF SpawnerTypeOK
  <2> QED BY <2>3, <2>4, <2>5
<1>9. CASE spawn_state
  <2>1. /\ cur \in Tickets /\ pc = "spawn" /\ redis[cur].state = "unset"
        /\ cur' = None
        /\ UNCHANGED <<ticket, pc, todo, group, worker, orphans>>
    BY <1>1, <1>9 DEF spawn_state, SpawnerTypeOK
  <2>2. Written(cur, "NEW")
    BY <1>1, <1>9, <2>1, StateWritten DEF spawn_state, States
  <2>3. ListsAreFresh' /\ CallsBelongTogether' /\ GroupsAreWritten'
    BY <1>1, <2>1, <2>2 DEF Written
  <2>4. TicketsAreTracked' /\ RecordsComplete'
    BY <1>1, <2>1, <2>2 DEF Written
  <2>5. HookOwnsRecord'
    BY <1>1, <2>1, <2>2 DEF Written, SpawnerTypeOK
  <2> QED BY <2>3, <2>4, <2>5
<1>10. ASSUME NEW t \in Tickets, try_to_stop(t)
      PROVE  Bonds'
  <2>1. /\ pc = "stop" /\ redis[t].state = "WORKING" /\ cur = None
        /\ todo' = todo \ {t}
        /\ UNCHANGED <<ticket, pc, cur, group, worker, orphans>>
    BY <1>1, <1>10 DEF try_to_stop
  <2>2. CASE UNCHANGED redis
    BY <1>1, <2>1, <2>2
  <2>3. CASE set_state(t, "TERMINATING")
    <3>1. Written(t, "TERMINATING")
      BY <1>1, <2>3, StateWritten DEF States
    <3>2. ListsAreFresh' /\ CallsBelongTogether'
      BY <1>1, <2>1, <3>1 DEF Written, SpawnerTypeOK
    <3>3. GroupsAreWritten'
      <4>1. /\ \A u \in Tickets : redis'[u].group = redis[u].group
            /\ \A u \in Tickets : redis'[u].state # "none" => redis[u].state # "none"
        BY <2>1, <3>1 DEF Written
      <4> QED BY <1>1, <2>1, <4>1
    <3>5. TicketsAreTracked'
      BY <1>1, <2>1, <3>1 DEF Written
    <3>4. HookOwnsRecord' /\ RecordsComplete'
      BY <1>1, <2>1, <3>1 DEF Written, SpawnerTypeOK
    <3> QED BY <3>2, <3>3, <3>4, <3>5
  <2> QED BY <1>10, <2>2, <2>3 DEF try_to_stop
<1>11. CASE converge_next
  BY <1>1, <1>11 DEF converge_next
<1> QED BY <1>2, <1>3, <1>4, <1>5, <1>6, <1>7, <1>8, <1>9, <1>10, <1>11

(* Crashes, background workers, and the server. *)
LEMMA OthersKeepBonds ==
  ASSUME IInv,
         \/ crash \/ raises \/ UNCHANGED spawnerAll
         \/ \E t \in Tickets : \/ background_worker(t) \/ worker_dies(t)
                               \/ ticket_ready(t) \/ ticket_failed(t)
  PROVE  Bonds'
<1> USE SpawnerAssumption
<1> USE DEF Bonds, ListsAreFresh, CallsBelongTogether, GroupsAreWritten, TicketsAreTracked,
            HookOwnsRecord, RecordsComplete, keys
<1>1. SpawnerTypeOK /\ Bonds
  BY DEF IInv
<1>2. CASE crash
  BY <1>1, <1>2 DEF crash, Fresh, lost
<1>3. CASE raises
  BY <1>1, <1>3 DEF raises, Fresh
<1>4. ASSUME NEW t \in Tickets, worker_start(t)
      PROVE  Bonds'
  <2>1. /\ \/ worker' = worker
           \/ worker' = [worker EXCEPT ![t] = redis[t].state]
        /\ UNCHANGED <<ticket, redis, pc, todo, cur, group, n, orphans>>
    BY <1>4 DEF worker_start
  <2>2. HookOwnsRecord'
    BY <1>1, <2>1 DEF SpawnerTypeOK
  <2> QED BY <1>1, <2>1, <2>2
<1>5. ASSUME NEW t \in Tickets, NEW state \in {"WORKING", "ENDED"}, worker[t] # "idle", hook_ends(t, state)
      PROVE  Bonds'
  <2>1. /\ Written(t, state)
        /\ redis[t].state \in {"PREPARING", "TERMINATING"}
        /\ worker' = [worker EXCEPT ![t] = "idle"]
        /\ UNCHANGED <<ticket, pc, todo, cur, group, n, orphans>>
    BY <1>1, <1>5, StateWritten DEF hook_ends, States, SpawnerTypeOK, spawnerVars
  <2>2. ListsAreFresh'
    BY <1>1, <2>1 DEF Written, SpawnerTypeOK
  <2>3. CallsBelongTogether'
    BY <1>1, <2>1 DEF Written, SpawnerTypeOK
  <2>4. GroupsAreWritten' /\ TicketsAreTracked'
    BY <1>1, <2>1 DEF Written
  <2>5. HookOwnsRecord' /\ RecordsComplete'
    BY <1>1, <2>1 DEF Written, SpawnerTypeOK
  <2> QED BY <2>2, <2>3, <2>4, <2>5
<1>6. ASSUME NEW t \in Tickets, worker_prepared(t) \/ worker_prepare_failed(t) \/ worker_terminated(t)
      PROVE  Bonds'
  BY <1>5, <1>6 DEF worker_prepared, worker_prepare_failed, worker_terminated
<1>7. ASSUME NEW t \in Tickets, worker_dies(t)
      PROVE  Bonds'
  BY <1>1, <1>7 DEF worker_dies, spawnerVars, SpawnerTypeOK
<1>8. ASSUME NEW t \in Tickets, ticket_ready(t) \/ ticket_failed(t)
      PROVE  Bonds'
  <2>1. /\ ticket[t] \in {"OPEN", "READY"}
        /\ \/ ticket' = [ticket EXCEPT ![t] = "READY"]
           \/ ticket' = [ticket EXCEPT ![t] = "FAILED"]
        /\ UNCHANGED <<redis, pc, todo, cur, group, n, worker, orphans>>
    BY <1>8 DEF ticket_ready, ticket_failed, spawnerVars
  <2> QED BY <1>1, <2>1 DEF SpawnerTypeOK
<1>9. CASE UNCHANGED spawnerAll
  BY <1>1, <1>9 DEF spawnerAll, spawnerVars
<1> QED BY <1>2, <1>3, <1>4, <1>6, <1>7, <1>8, <1>9 DEF background_worker

-----------------------------------------------------------------------------
(* IInv is an inductive invariant of Spawner. *)
THEOREM SpawnerInvariance == SpawnerSpec => []IInv
<1>1. SpawnerInit => IInv
  BY SpawnerAssumption
     DEF SpawnerInit, IInv, SpawnerTypeOK, NoRecord, States, ListsAreFresh,
         CallsBelongTogether, GroupsAreWritten, TicketsAreTracked, HookOwnsRecord,
         RecordsComplete
<1>2. IInv /\ [SpawnerNext]_spawnerAll => IInv'
  <2>1. SUFFICES ASSUME IInv, [SpawnerNext]_spawnerAll PROVE IInv'
    OBVIOUS
  <2>2. Bonds'
    BY <2>1, LoopsKeepBonds, ConvergeKeepsBonds, OthersKeepBonds DEF SpawnerNext, dispatcher
  <2> QED BY <2>1, <2>2, Types DEF IInv, Bonds
<1> QED BY <1>1, <1>2, PTL DEF SpawnerSpec

(* The records of the agents, the workers' tasks and the locals of the     *)
(* dispatcher have their types, also between two writes of a call that     *)
(* died (dispatcher.py, 96-211).                                           *)
THEOREM SpawnerTypes == SpawnerSpec => []SpawnerTypeOK
BY SpawnerInvariance, PTL DEF IInv

(* Tickets are found again, whatever dies between two calls of the         *)
(* dispatcher, unless newTicket() lost the id (client.py, 54-75).          *)
THEOREM TicketsStayTracked == SpawnerSpec => []TicketsAreTracked
BY SpawnerInvariance, PTL DEF IInv

(* A hook of a worker and the dispatcher never write to one agent's state  *)
(* at the same time (worker.py, 29-52, dispatcher.py, 207-211).            *)
THEOREM HooksOwnRecords == SpawnerSpec => []HookOwnsRecord
BY SpawnerInvariance, PTL DEF IInv

(* Workers find data and group of every agent they may be started for      *)
(* (dispatcher.py, 181-186, and worker.py, 37-43).                         *)
THEOREM RecordsAreComplete == SpawnerSpec => []RecordsComplete
BY SpawnerInvariance, PTL DEF IInv

-----------------------------------------------------------------------------
(* The states agents go through, whoever writes them: only converge() adds *)
(* an agent, it stays in its group, and its hash goes when its ticket is   *)
(* closed.                                                                 *)
Order == {<<"none", "unset">>, <<"unset", "NEW">>, <<"NEW", "PREPARING">>, <<"NEW", "ENDED">>,
          <<"PREPARING", "WORKING">>, <<"PREPARING", "ENDED">>,
          <<"WORKING", "TERMINATING">>, <<"TERMINATING", "ENDED">>, <<"ENDED", "none">>}

InOrder(t) ==
  /\ \/ redis'[t].state = redis[t].state
     \/ /\ <<redis[t].state, redis'[t].state>> \in Order
        /\ redis[t].state = "none" => spawn_group /\ t = cur
        /\ redis[t].state = "ENDED" => ticket[t] = "CLOSED"
  /\ redis[t].state # "none" /\ redis'[t].state # "none" => redis'[t].group = redis[t].group

(* A state written to one hash leaves the others where they are. *)
LEMMA WrittenInOrder ==
  ASSUME NEW t \in Tickets, NEW state, Written(t, state), <<redis[t].state, state>> \in Order,
         redis[t].state \notin {"none", "ENDED"}
  PROVE  \A u \in Tickets : InOrder(u)
BY DEF Written, InOrder

(* Each step moves agents along Order only, because lists are fresh and    *)
(* hooks own their records.                                                *)
LEMMA StatesInOrder ==
  ASSUME IInv, [SpawnerNext]_spawnerAll
  PROVE  \A u \in Tickets : InOrder(u)
<1>1. SpawnerTypeOK /\ ListsAreFresh /\ CallsBelongTogether /\ HookOwnsRecord
  BY DEF IInv
<1>2. ASSUME UNCHANGED redis
      PROVE  \A u \in Tickets : InOrder(u)
  BY <1>2 DEF InOrder
<1>3. ASSUME NEW t \in Tickets, NEW state \in States, set_state(t, state),
             <<redis[t].state, state>> \in Order, redis[t].state \notin {"none", "ENDED"}
      PROVE  \A u \in Tickets : InOrder(u)
  BY <1>1, <1>3, StateWritten, WrittenInOrder
<1>4. ASSUME NEW t \in Tickets, detect_failed_tickets(t)
      PROVE  \A u \in Tickets : InOrder(u)
  <2>1. CASE set_state(t, failed_state(redis[t].state))
    <3>1. CASE redis[t].state \in {"WORKING", "NEW"}
      <4>1. /\ failed_state(redis[t].state) \in States
            /\ <<redis[t].state, failed_state(redis[t].state)>> \in Order
        BY <3>1 DEF failed_state, States, Order
      <4>2. redis[t].state \notin {"none", "ENDED"}
        BY <3>1
      <4> QED BY <1>3, <2>1, <4>1, <4>2
    <3>2. CASE redis[t].state \notin {"WORKING", "NEW"}
      <4>1. failed_state(redis[t].state) = redis[t].state /\ redis[t].state \in States
        BY <1>1, <3>2 DEF failed_state, SpawnerTypeOK
      <4>2. Written(t, redis[t].state)
        BY <1>1, <2>1, <4>1, StateWritten
      <4> QED BY <4>2 DEF Written, InOrder
    <3> QED BY <3>1, <3>2
  <2> QED BY <1>2, <1>4, <2>1 DEF detect_failed_tickets
<1>5. ASSUME NEW t \in Tickets, clean_finished_workers(t) \/ try_to_stop(t)
      PROVE  \A u \in Tickets : InOrder(u)
  <2>1. redis[t].state = "WORKING"
    BY <1>1, <1>5 DEF clean_finished_workers, within, try_to_stop, ListsAreFresh
  <2>2. "TERMINATING" \in States /\ <<"WORKING", "TERMINATING">> \in Order
    BY DEF States, Order
  <2> QED BY <1>2, <1>3, <1>5, <2>1, <2>2 DEF clean_finished_workers, try_to_stop
<1>6. CASE start_preparing_state
  <2>1. cur \in Tickets /\ redis[cur].state = "NEW" /\ set_state(cur, "PREPARING")
    BY <1>1, <1>6
       DEF start_preparing_state, SpawnerTypeOK, ListsAreFresh, CallsBelongTogether
  <2>2. "PREPARING" \in States /\ <<"NEW", "PREPARING">> \in Order
    BY DEF States, Order
  <2> QED BY <1>3, <2>1, <2>2
<1>7. CASE spawn_state
  <2>1. cur \in Tickets /\ redis[cur].state = "unset" /\ set_state(cur, "NEW")
    BY <1>1, <1>7 DEF spawn_state, SpawnerTypeOK
  <2>2. "NEW" \in States /\ <<"unset", "NEW">> \in Order
    BY DEF States, Order
  <2> QED BY <1>3, <2>1, <2>2
<1>8. ASSUME NEW t \in Tickets, background_worker(t)
      PROVE  \A u \in Tickets : InOrder(u)
  <2>1. CASE worker_start(t)
    BY <1>2, <2>1 DEF worker_start
  <2>2. CASE worker_prepared(t)
    <3>1. redis[t].state = "PREPARING" /\ set_state(t, "WORKING")
      BY <1>1, <2>2 DEF worker_prepared, hook_ends, HookOwnsRecord
    <3>2. "WORKING" \in States /\ <<"PREPARING", "WORKING">> \in Order
      BY DEF States, Order
    <3> QED BY <1>3, <3>1, <3>2
  <2>3. CASE worker_prepare_failed(t) \/ worker_terminated(t)
    <3>1. redis[t].state \in {"PREPARING", "TERMINATING"} /\ set_state(t, "ENDED")
      BY <1>1, <2>3 DEF worker_prepare_failed, worker_terminated, hook_ends, HookOwnsRecord
    <3>2. "ENDED" \in States /\ <<"PREPARING", "ENDED">> \in Order
          /\ <<"TERMINATING", "ENDED">> \in Order
      BY DEF States, Order
    <3> QED BY <1>3, <3>1, <3>2
  <2> QED BY <1>8, <2>1, <2>2, <2>3 DEF background_worker
<1>9. CASE agent_drop_delete
  <2>1. cur \in Tickets /\ redis[cur].state = "ENDED" /\ ticket[cur] = "CLOSED"
    BY <1>1, <1>9 DEF agent_drop_delete, SpawnerTypeOK, ListsAreFresh, CallsBelongTogether
  <2>2. /\ redis'[cur].state = "none"
        /\ \A u \in Tickets : u # cur => redis'[u] = redis[u]
    BY <1>1, <1>9, <2>1 DEF agent_drop_delete, SpawnerTypeOK, NoRecord
  <2> QED BY <2>1, <2>2 DEF InOrder, Order
<1>10. ASSUME NEW t \in Tickets, start_preparing_data(t)
       PROVE  \A u \in Tickets : InOrder(u)
  <2>1. \A u \in Tickets : redis'[u].state = redis[u].state /\ redis'[u].group = redis[u].group
    <3>1. redis' = [redis EXCEPT ![t] = [redis[t] EXCEPT !.data = TRUE]]
      BY <1>10 DEF start_preparing_data
    <3>2. /\ [redis[t] EXCEPT !.data = TRUE].state = redis[t].state
          /\ [redis[t] EXCEPT !.data = TRUE].group = redis[t].group
      BY <1>1 DEF SpawnerTypeOK
    <3> QED BY <1>1, <3>1, <3>2 DEF SpawnerTypeOK
  <2> QED BY <2>1 DEF InOrder
<1>11. CASE spawn_group
  <2>1. cur \in Tickets /\ redis[cur].state = "none"
    BY <1>1, <1>11 DEF spawn_group, SpawnerTypeOK
  <2>2. [redis[cur] EXCEPT !.group = group, !.state = "unset"].state = "unset"
    BY <1>1, <2>1 DEF SpawnerTypeOK
  <2>3. /\ redis'[cur].state = "unset"
        /\ \A u \in Tickets : u # cur => redis'[u] = redis[u]
    BY <1>1, <1>11, <2>1, <2>2 DEF spawn_group, SpawnerTypeOK
  <2> QED BY <1>11, <2>1, <2>3 DEF InOrder, Order
<1>12. CASE \/ next_loop \/ converge \/ converge_next \/ background_tasks \/ raises
            \/ crash \/ UNCHANGED spawnerAll
  BY <1>2, <1>12 DEF next_loop, loop, converge, converge_next, background_tasks, raises,
                     crash, spawnerAll
<1>13. ASSUME NEW t \in Tickets,
              \/ agent_drop_close(t) \/ start_preparing_skip(t) \/ newTicket(t)
              \/ worker_dies(t) \/ ticket_ready(t) \/ ticket_failed(t)
       PROVE  \A u \in Tickets : InOrder(u)
  BY <1>2, <1>13 DEF agent_drop_close, start_preparing_skip, newTicket, worker_dies,
                     ticket_ready, ticket_failed
<1>14. ASSUME NEW g \in Groups,
              converge_idle(g) \/ \E ideal \in 0..MaxIdeal : converge_to(g, ideal)
       PROVE  \A u \in Tickets : InOrder(u)
  BY <1>2, <1>14 DEF converge_idle, converge_to
<1> QED BY <1>4, <1>5, <1>6, <1>7, <1>8, <1>9, <1>10, <1>11, <1>12, <1>13, <1>14
        DEF SpawnerNext, dispatcher

(* Only agent_drop() closes tickets. *)
LEMMA ClosedWhenEnded ==
  ASSUME IInv, [SpawnerNext]_spawnerAll, NEW u \in Tickets,
         ticket[u] # "CLOSED", ticket'[u] = "CLOSED"
  PROVE  redis[u].state = "ENDED"
<1>1. SpawnerTypeOK /\ ListsAreFresh
  BY DEF IInv
<1>2. ASSUME NEW t \in Tickets, agent_drop_close(t)
      PROVE  redis[u].state = "ENDED"
  BY <1>1, <1>2 DEF agent_drop_close, ListsAreFresh, SpawnerTypeOK
<1>3. ASSUME NEW t \in Tickets, newTicket(t) \/ ticket_ready(t) \/ ticket_failed(t)
      PROVE  FALSE
  BY <1>1, <1>3 DEF newTicket, ticket_ready, ticket_failed, SpawnerTypeOK
<1>4. ASSUME NEW t \in Tickets,
             \/ detect_failed_tickets(t) \/ clean_finished_workers(t) \/ try_to_stop(t)
             \/ start_preparing_skip(t) \/ start_preparing_data(t)
             \/ background_worker(t) \/ worker_dies(t)
      PROVE  UNCHANGED ticket
  BY <1>4 DEF detect_failed_tickets, clean_finished_workers, try_to_stop, start_preparing_skip,
              start_preparing_data, within, background_worker, worker_start, worker_prepared,
              worker_prepare_failed, worker_terminated, hook_ends, worker_dies
<1>5. ASSUME \/ next_loop \/ agent_drop_delete \/ start_preparing_state \/ converge
             \/ spawn_group \/ spawn_state \/ converge_next \/ background_tasks
             \/ raises \/ crash \/ UNCHANGED spawnerAll
      PROVE  UNCHANGED ticket
  BY <1>5 DEF next_loop, loop, agent_drop_delete, start_preparing_state, converge, spawn_group,
              spawn_state, converge_next, background_tasks, raises, crash, spawnerAll
<1>6. ASSUME NEW g \in Groups,
             converge_idle(g) \/ \E ideal \in 0..MaxIdeal : converge_to(g, ideal)
      PROVE  UNCHANGED ticket
  BY <1>6 DEF converge_idle, converge_to
<1> QED BY <1>2, <1>3, <1>4, <1>5, <1>6 DEF SpawnerNext, dispatcher

(* An agent that worked is terminated, and one that was prepared ends,     *)
(* before its ticket is closed (get_frontend_tasks(), dispatcher.py        *)
(* 253-278, and worker.py 29-52).                                          *)
THEOREM AgentsFollowLifecycle == SpawnerSpec => AgentLifecycle
<1>1. ASSUME IInv, [SpawnerNext]_spawnerAll, NEW t \in Tickets
      PROVE  /\ redis[t].state = "WORKING" => redis'[t].state \in {"WORKING", "TERMINATING"}
             /\ redis[t].state = "TERMINATING" => redis'[t].state \in {"TERMINATING", "ENDED"}
             /\ redis[t].state = "ENDED" /\ redis'[t].state # "ENDED"
                  => redis'[t].state = "none" /\ ticket[t] = "CLOSED"
             /\ ticket[t] # "CLOSED" /\ ticket'[t] = "CLOSED" => redis[t].state = "ENDED"
  <2>1. InOrder(t)
    BY <1>1, StatesInOrder
  <2> QED BY <1>1, <2>1, ClosedWhenEnded DEF InOrder, Order
<1>2. IInv /\ [SpawnerNext]_spawnerAll
      => [\A t \in Tickets :
            /\ redis[t].state = "WORKING" => redis'[t].state \in {"WORKING", "TERMINATING"}
            /\ redis[t].state = "TERMINATING" => redis'[t].state \in {"TERMINATING", "ENDED"}
            /\ redis[t].state = "ENDED" /\ redis'[t].state # "ENDED"
                 => redis'[t].state = "none" /\ ticket[t] = "CLOSED"
            /\ ticket[t] # "CLOSED" /\ ticket'[t] = "CLOSED" => redis[t].state = "ENDED"
         ]_spawnerAll
  BY <1>1
<1> QED BY <1>2, SpawnerInvariance, PTL DEF SpawnerSpec, AgentLifecycle

-----------------------------------------------------------------------------
(* How many agents a group has *)

(* The agents converge() has still to write down for the group. *)
missing == IF cur # None /\ redis[cur].state = "unset" THEN n - 1 ELSE n

(* counts is right until converge() adds agents, to the group it is busy   *)
(* with, which is not among those still to come.                           *)
Counted ==
  /\ pc \in {"converge", "spawn", "stop"} => \A g \in groups : agent_counts[g] <= counts[g]
  /\ pc \in {"spawn", "stop"} => group \in Groups \ groups
  /\ pc = "spawn" => agent_counts[group] + missing <= MaxIdeal

SizeInv ==
  /\ \A g \in Groups : agent_counts[g] <= MaxIdeal
  /\ Counted

(* A group has finitely many agents, before and after a step. *)
LEMMA MembersAreFinite ==
  ASSUME NEW g
  PROVE  /\ IsFiniteSet(members(g)) /\ Cardinality(members(g)) \in Nat
         /\ IsFiniteSet(members(g)') /\ Cardinality(members(g)') \in Nat
<1>1. members(g) \subseteq Tickets /\ members(g)' \subseteq Tickets
  BY DEF members, keys
<1>2. IsFiniteSet(members(g)) /\ IsFiniteSet(members(g)')
  BY <1>1, SpawnerAssumption, FS_Subset DEF SpawnerAssumption
<1> QED BY <1>2, FS_CardinalityType

(* So agent_counts() is a function to the natural numbers afterwards, too. *)
LEMMA CountsStayNatural == agent_counts' \in [Groups -> Nat]
BY MembersAreFinite DEF agent_counts

(* Steps other than the first write of a new agent add nobody to a group. *)
LEMMA GroupsShrink ==
  ASSUME IInv, [SpawnerNext]_spawnerAll, ~spawn_group
  PROVE  \A g \in Groups : agent_counts'[g] <= agent_counts[g]
<1>1. \A u \in Tickets : InOrder(u)
  BY StatesInOrder
<1>2. ASSUME NEW g \in Groups
      PROVE  Cardinality(members(g)') <= Cardinality(members(g))
  <2>1. members(g)' \subseteq members(g)
    BY <1>1 DEF members, keys, InOrder, Order
  <2> QED BY <2>1, MembersAreFinite, FS_Subset
<1> QED BY <1>2 DEF agent_counts

(* The first write of a new agent adds one agent to its group. *)
LEMMA SpawnGrows ==
  ASSUME IInv, spawn_group, NEW g \in Groups
  PROVE  agent_counts'[g] <= IF g = group THEN agent_counts[g] + 1 ELSE agent_counts[g]
<1>1. cur \in Tickets /\ redis[cur].state = "none"
  BY SpawnerAssumption DEF spawn_group, IInv, SpawnerTypeOK
<1>2. [redis[cur] EXCEPT !.group = group, !.state = "unset"].group = group
  BY <1>1 DEF IInv, SpawnerTypeOK
<1>3. /\ redis'[cur].group = group
      /\ \A u \in Tickets : u # cur => redis'[u] = redis[u]
  BY <1>1, <1>2 DEF spawn_group, IInv, SpawnerTypeOK
<1>4. IsFiniteSet(members(g)) /\ Cardinality(members(g)) \in Nat
      /\ Cardinality(members(g)') \in Nat
  BY MembersAreFinite
<1>5. agent_counts[g] = Cardinality(members(g)) /\ agent_counts'[g] = Cardinality(members(g)')
  BY DEF agent_counts
<1>6. CASE g = group
  <2>1. members(g)' \subseteq members(g) \cup {cur}
    BY <1>1, <1>3 DEF members, keys
  <2>2. /\ IsFiniteSet(members(g) \cup {cur})
        /\ \/ Cardinality(members(g) \cup {cur}) = Cardinality(members(g))
           \/ Cardinality(members(g) \cup {cur}) = Cardinality(members(g)) + 1
    BY <1>4, FS_AddElement
  <2>3. Cardinality(members(g)') <= Cardinality(members(g) \cup {cur})
    BY <2>1, <2>2, FS_Subset
  <2> QED BY <1>4, <1>5, <1>6, <2>2, <2>3
<1>7. CASE g # group
  <2>1. members(g)' \subseteq members(g)
    BY <1>1, <1>3, <1>7 DEF members, keys
  <2>2. Cardinality(members(g)') <= Cardinality(members(g))
    BY <1>4, <2>1, FS_Subset
  <2> QED BY <1>5, <1>7, <2>2
<1> QED BY <1>6, <1>7

(* The bound and the counts behind it are kept by every step. *)
LEMMA SizesStay ==
  ASSUME IInv, SizeInv, [SpawnerNext]_spawnerAll
  PROVE  SizeInv'
<1> USE SpawnerAssumption
<1>1. SpawnerTypeOK /\ CallsBelongTogether /\ GroupsAreWritten
  BY DEF IInv
<1>2. agent_counts \in [Groups -> Nat] /\ agent_counts' \in [Groups -> Nat]
  BY CountsAreNatural, CountsStayNatural
<1>3. n \in Nat /\ groups \subseteq Groups /\ counts \in [Groups -> Nat] /\ MaxIdeal \in Nat
  BY <1>1 DEF SpawnerTypeOK
<1>4. ASSUME ~spawn_group
      PROVE  /\ \A g \in Groups : agent_counts'[g] <= agent_counts[g]
             /\ \A g \in Groups : agent_counts'[g] <= MaxIdeal
  BY <1>2, <1>3, <1>4, GroupsShrink DEF SizeInv
<1>5. CASE spawn_group
  <2>1. /\ pc = "spawn" /\ cur # None /\ cur \in Tickets /\ redis[cur].state = "none"
        /\ UNCHANGED <<pc, cur, counts, groups, group, n>>
    BY <1>1, <1>5 DEF spawn_group, spawnerVars, SpawnerTypeOK
  <2>2. group \in Groups \ groups /\ agent_counts[group] + n <= MaxIdeal /\ n > 0
    BY <1>1, <2>1 DEF SizeInv, Counted, missing, CallsBelongTogether
  <2>3. \A g \in Groups :
          agent_counts'[g] <= IF g = group THEN agent_counts[g] + 1 ELSE agent_counts[g]
    BY <1>5, SpawnGrows
  <2>4. redis'[cur].state = "unset"
    BY <1>1, <1>5, <2>1 DEF spawn_group, SpawnerTypeOK
  <2>5. \A g \in Groups : agent_counts'[g] <= MaxIdeal
    BY <1>2, <1>3, <2>2, <2>3 DEF SizeInv
  <2>6. \A g \in groups : agent_counts'[g] <= counts[g]
    <3>1. SUFFICES ASSUME NEW g \in groups PROVE agent_counts'[g] <= counts[g]
      OBVIOUS
    <3>2. g \in Groups /\ g # group /\ agent_counts[g] <= counts[g]
      BY <1>3, <2>1, <2>2 DEF SizeInv, Counted
    <3>3. agent_counts'[g] <= agent_counts[g]
      BY <2>3, <3>2
    <3>4. agent_counts[g] \in Nat /\ agent_counts'[g] \in Nat /\ counts[g] \in Nat
      BY <1>2, <1>3, <3>2
    <3> QED BY <3>2, <3>3, <3>4
  <2>7. agent_counts'[group] + (n - 1) <= MaxIdeal
    BY <1>2, <1>3, <2>2, <2>3
  <2>8. missing' = n - 1
    BY <2>1, <2>4 DEF missing
  <2> QED BY <2>1, <2>2, <2>5, <2>6, <2>7, <2>8 DEF SizeInv, Counted
<1>6. CASE spawn_state
  <2>1. /\ pc = "spawn" /\ cur # None /\ redis[cur].state = "unset"
        /\ cur' = None /\ n' = n - 1
        /\ UNCHANGED <<pc, counts, groups, group>>
    BY <1>6 DEF spawn_state
  <2>2. ~spawn_group
    BY <2>1 DEF spawn_group
  <2>3. missing = n - 1 /\ missing' = n - 1
    BY <2>1 DEF missing
  <2>4. group \in Groups \ groups /\ agent_counts[group] + (n - 1) <= MaxIdeal
    BY <2>1, <2>3 DEF SizeInv, Counted
  <2>5. agent_counts'[group] + (n - 1) <= MaxIdeal
    BY <1>2, <1>3, <1>4, <2>2, <2>4
  <2>6. \A g \in groups : agent_counts'[g] <= counts[g]
    BY <1>2, <1>3, <1>4, <2>1, <2>2 DEF SizeInv, Counted
  <2> QED BY <1>4, <2>1, <2>2, <2>3, <2>4, <2>5, <2>6 DEF SizeInv, Counted
<1>7. CASE converge
  <2>1. /\ pc = "prepare" /\ pc' = "converge" /\ counts' = agent_counts /\ groups' = Groups
    BY <1>7 DEF converge
  <2>2. ~spawn_group
    BY <2>1 DEF spawn_group
  <2> QED BY <1>4, <2>1, <2>2 DEF SizeInv, Counted
<1>8. ASSUME NEW g \in Groups, NEW ideal \in 0..MaxIdeal, converge_to(g, ideal)
      PROVE  SizeInv'
  <2>1. /\ pc = "converge" /\ cur = None /\ cur' = None /\ g \in groups
        /\ groups' = groups \ {g} /\ group' = g /\ counts' = counts
        /\ pc' \in {"spawn", "stop"}
        /\ pc' = "spawn" => counts[g] < ideal /\ n' = ideal - counts[g]
    BY <1>1, <1>8 DEF converge_to, CallsBelongTogether
  <2>2. ~spawn_group
    BY <2>1 DEF spawn_group
  <2>3. \A h \in groups : agent_counts'[h] <= counts[h]
    BY <1>2, <1>3, <1>4, <2>1, <2>2 DEF SizeInv, Counted
  <2>4. missing' = n'
    BY <2>1 DEF missing
  <2>5. pc' = "spawn" => agent_counts'[g] + missing' <= MaxIdeal
    BY <1>2, <1>3, <2>1, <2>3, <2>4
  <2> QED BY <1>4, <2>1, <2>2, <2>3, <2>5 DEF SizeInv, Counted
<1>9. ASSUME NEW t \in Tickets, newTicket(t)
      PROVE  SizeInv'
  <2>1. /\ pc = "spawn" /\ cur = None /\ cur' \in {t, None} /\ ticket[t] = "NONE"
        /\ UNCHANGED <<redis, pc, counts, groups, group, n>>
    BY <1>9 DEF newTicket, next_id
  <2>2. ~spawn_group
    BY <2>1 DEF spawn_group
  <2>3. redis[t].state = "none"
    BY <1>1, <2>1 DEF GroupsAreWritten
  <2>4. missing = n /\ missing' = n
    BY <2>1, <2>3 DEF missing
  <2>5. agent_counts' = agent_counts
    BY <2>1 DEF agent_counts, members, keys
  <2> QED BY <1>4, <2>1, <2>2, <2>4, <2>5 DEF SizeInv, Counted
<1>10. ASSUME ~spawn_group, pc' = "spawn" => FALSE,
              pc' \in {"converge", "stop"} =>
                /\ pc \in {"converge", "spawn", "stop"}
                /\ groups' \subseteq groups /\ counts' = counts
                /\ pc' = "stop" => pc = "stop" /\ UNCHANGED <<groups, group>>
       PROVE  SizeInv'
  <2>1. pc' \in {"converge", "stop"} => \A g \in groups : agent_counts'[g] <= counts[g]
    BY <1>2, <1>3, <1>4, <1>10 DEF SizeInv, Counted
  <2> QED BY <1>4, <1>10, <2>1 DEF SizeInv, Counted
<1>11. ASSUME NEW t \in Tickets, try_to_stop(t)
       PROVE  SizeInv'
  BY <1>10, <1>11 DEF try_to_stop, spawn_group
<1>12. ASSUME NEW g \in Groups, converge_idle(g)
       PROVE  SizeInv'
  BY <1>10, <1>12 DEF converge_idle, spawn_group
<1>13. CASE converge_next
  BY <1>10, <1>13 DEF converge_next, spawn_group
<1>14. CASE \/ next_loop \/ agent_drop_delete \/ start_preparing_state
            \/ background_tasks \/ raises \/ crash
  <2>1. pc' \in {"failed", "drop", "finished", "prepare"}
    BY <1>14 DEF next_loop, loop, agent_drop_delete, start_preparing_state, background_tasks,
                 raises, crash, Fresh
  <2>2. ~spawn_group
    BY <2>1 DEF spawn_group, spawnerVars
  <2> QED BY <1>10, <2>1, <2>2
<1>15. ASSUME NEW t \in Tickets,
              \/ detect_failed_tickets(t) \/ agent_drop_close(t)
              \/ clean_finished_workers(t) \/ start_preparing_skip(t)
              \/ start_preparing_data(t)
       PROVE  SizeInv'
  <2>1. pc' \in {"failed", "drop", "finished", "prepare"}
    BY <1>15 DEF detect_failed_tickets, agent_drop_close, clean_finished_workers,
                 start_preparing_skip, start_preparing_data, within
  <2>2. ~spawn_group
    BY <2>1 DEF spawn_group, spawnerVars
  <2> QED BY <1>10, <2>1, <2>2
<1>16. ASSUME UNCHANGED <<pc, cur, counts, groups, group, n>>, ~spawn_group,
              cur # None /\ pc = "spawn" => redis'[cur].state = redis[cur].state
       PROVE  SizeInv'
  <2>1. pc = "spawn" => missing' = missing
    BY <1>16 DEF missing
  <2>2. missing \in Int
    BY <1>3 DEF missing
  <2>3. /\ pc = "spawn" => agent_counts'[group] + missing' <= MaxIdeal
        /\ pc \in {"converge", "spawn", "stop"}
             => \A g \in groups : agent_counts'[g] <= counts[g]
    BY <1>2, <1>3, <1>4, <1>16, <2>1, <2>2 DEF SizeInv, Counted
  <2> QED BY <1>4, <1>16, <2>3 DEF SizeInv, Counted
<1>17. ASSUME NEW t \in Tickets,
              \/ background_worker(t) \/ worker_dies(t) \/ ticket_ready(t)
              \/ ticket_failed(t)
       PROVE  SizeInv'
  <2>1. CASE worker_start(t) \/ worker_dies(t) \/ ticket_ready(t) \/ ticket_failed(t)
    <3>1. UNCHANGED <<redis, pc, cur, counts, groups, group, n>>
      BY <2>1 DEF worker_start, worker_dies, ticket_ready, ticket_failed, spawnerVars
    <3> QED BY <1>5, <1>16, <3>1
  <2>2. ASSUME NEW state \in {"WORKING", "ENDED"}, worker[t] # "idle", hook_ends(t, state)
        PROVE  SizeInv'
    <3>1. Written(t, state) /\ UNCHANGED <<pc, cur, counts, groups, group, n>>
      BY <1>1, <2>2, StateWritten DEF hook_ends, States, spawnerVars
    <3>2. redis[t].state \in {"PREPARING", "TERMINATING"}
      BY <1>1, <2>2 DEF IInv, HookOwnsRecord, SpawnerTypeOK
    <3>3. cur # None /\ pc = "spawn" => cur \in Tickets /\ cur # t
      BY <1>1, <3>2 DEF CallsBelongTogether, SpawnerTypeOK
    <3> QED BY <1>5, <1>16, <3>1, <3>3 DEF Written
  <2> QED BY <1>17, <2>1, <2>2 DEF background_worker, worker_prepared, worker_prepare_failed,
                                   worker_terminated
<1>18. CASE UNCHANGED spawnerAll
  <2>1. UNCHANGED <<redis, pc, cur, counts, groups, group, n>>
    BY <1>18 DEF spawnerAll, spawnerVars
  <2> QED BY <1>5, <1>16, <2>1
<1> QED BY <1>5, <1>6, <1>7, <1>8, <1>9, <1>11, <1>12, <1>13, <1>14, <1>15, <1>17, <1>18
        DEF SpawnerNext, dispatcher

(* A group never outgrows the largest number asked for: converge() counts  *)
(* every hash of the group and asks for the difference only (dispatcher.py *)
(* 143-154 and 228-247).                                                   *)
THEOREM GroupsStayBounded == SpawnerSpec => []GroupsBounded
<1>1. SpawnerInit => SizeInv
  <2>1. SUFFICES ASSUME SpawnerInit PROVE SizeInv
    OBVIOUS
  <2>2. \A g : members(g) = {}
    BY <2>1 DEF SpawnerInit, NoRecord, members, keys
  <2>3. \A g \in Groups : agent_counts[g] = 0
    BY <2>2, FS_EmptySet DEF agent_counts
  <2> QED BY <2>1, <2>3, SpawnerAssumption DEF SpawnerInit, SizeInv, Counted
<1>2. IInv /\ IInv' /\ SizeInv /\ [SpawnerNext]_spawnerAll => SizeInv'
  BY SizesStay
<1>3. SizeInv => GroupsBounded
  BY DEF SizeInv, GroupsBounded, agent_counts
<1> QED BY <1>1, <1>2, <1>3, SpawnerInvariance, PTL DEF SpawnerSpec
=============================================================================
