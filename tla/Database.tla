------------------------------ MODULE Database ------------------------------
(***************************************************************************)
(* The tables of the resalloc server (resallocserver/models.py) and the    *)
(* queries and row updates every thread uses (resallocserver/logic.py).    *)
(*                                                                         *)
(* A column is a function over the primary keys of its table.  Keys are    *)
(* handed out in order (autoincrement), a row that does not exist yet is   *)
(* in state "NONE", and SQL's NULL is None.  The one thing the timestamp   *)
(* columns decide, whether a timeout has passed, is chosen where it is     *)
(* tested; released_at IS NOT NULL is rreleases > 0, the two columns are   *)
(* always written together.                                                *)
(***************************************************************************)
EXTENDS Integers, FiniteSets

CONSTANTS
  NPools,        \* number of pools in pools.yaml, numbered in the file's order
  Config,        \* the configuration of each pool
  Tags,          \* tag names
  Counters,      \* names of named counters
  Sandboxes,     \* sandbox names a client may ask for
  NoSandbox,     \* a ticket taken, or a resource never assigned: no sandbox
  MaxResources,  \* bound: rows of the table resources
  MaxTickets     \* bound: rows of the table tickets

None == 0
Pools == 1..NPools
Resources == 1..MaxResources
Tickets == 1..MaxTickets

(***************************************************************************)
(* The attributes of class Pool that the server's logic reads.             *)
(* start_delay and reuse say whether start_delay, reuse_opportunity_time   *)
(* are non-zero, cmd_release and cmd_livecheck whether the command is set, *)
(* tags and tags_on_demand map tag names to priorities, and name is the    *)
(* pool's position in the alphabetical order of the pools' names.          *)
(***************************************************************************)
PoolConfigOK(c) ==
  /\ {c.max, c.max_starting, c.max_prealloc, c.reuse_max_count,
      c.livecheck_attempts, c.name} \subseteq Nat
  /\ {c.start_delay, c.reuse, c.cmd_release, c.cmd_livecheck} \subseteq BOOLEAN
  /\ DOMAIN c.tags \subseteq Tags /\ IsFiniteSet(DOMAIN c.tags)
  /\ \A x \in DOMAIN c.tags : c.tags[x] \in Int
  /\ DOMAIN c.tags_on_demand \subseteq Tags /\ IsFiniteSet(DOMAIN c.tags_on_demand)
  /\ \A x \in DOMAIN c.tags_on_demand : c.tags_on_demand[x] \in Int
  /\ c.named_counters \subseteq Counters /\ IsFiniteSet(c.named_counters)

ASSUME SizeAssumption ==
  /\ NPools \in Nat \ {0}
  /\ MaxResources \in Nat \ {0}
  /\ MaxTickets \in Nat \ {0}

ASSUME SandboxAssumption ==
  /\ Sandboxes \cap Tickets = {}
  /\ NoSandbox \notin Sandboxes \cup Tickets

ASSUME ConfigAssumption ==
  \A p \in Pools : PoolConfigOK(Config[p])

(* reload_config() asserts that no two pools have the same name. *)
ASSUME NamesAssumption ==
  \A p, q \in Pools : Config[p].name = Config[q].name => p = q

tag_set_normal(p) == DOMAIN Config[p].tags
tag_set_on_demand(p) == DOMAIN Config[p].tags_on_demand
tag_set(p) == tag_set_normal(p) \cup tag_set_on_demand(p)
on_demand_tags == UNION {tag_set_on_demand(p) : p \in Pools}

(* Pool.validate: what reload_config() asserts of every configuration. *)
validate(p) == on_demand_tags \cap tag_set_normal(p) = {}

ASSUME ValidateAssumption == \A p \in Pools : validate(p)

(* Pool.from_dict: an on-demand pool preallocates nothing. *)
from_dict(p) == tag_set_on_demand(p) # {} => Config[p].max_prealloc = 0

ASSUME OnDemandAssumption == \A p \in Pools : from_dict(p)

RStates == {"STARTING", "UP", "DELETE_REQUEST", "DELETING", "RELEASING", "ENDED"}
TStates == {"OPEN", "CLOSED", "FAILED"}

(* uuid1() of the ticket that had no sandbox: the ticket's own number. *)
uuid(t) == t
SandboxIDs == Sandboxes \cup Tickets \cup {NoSandbox}

VARIABLES
  \* table resources
  rstate,     \* state
  rpool,      \* pool
  rticket,    \* ticket_id, the ticket it works for now
  rsandbox,   \* sandbox
  rreleases,  \* releases_counter
  rfailed,    \* check_failed_count
  \* tables ids_within_pool and named_counters: sets of rows
  ids, counters,
  \* table tickets
  tstate,     \* state
  tres,       \* resource_id
  tsandbox,   \* sandbox
  ttags       \* tags

resourceRows == <<rstate, rpool, rticket, rsandbox, rreleases, rfailed>>
slotRows == <<ids, counters>>
ticketRows == <<tstate, tres, tsandbox, ttags>>
dbVars == <<resourceRows, slotRows, ticketRows>>

IDWithinPool == [res : Resources, pool : Pools, id : Nat]
NamedCounter == [res : Resources, name : Counters, value : Nat]

DatabaseTypeOK ==
  /\ rstate \in [Resources -> RStates \cup {"NONE"}]
  /\ rpool \in [Resources -> Pools \cup {None}]
  /\ rticket \in [Resources -> Tickets \cup {None}]
  /\ rsandbox \in [Resources -> SandboxIDs]
  /\ rreleases \in [Resources -> Nat]
  /\ rfailed \in [Resources -> Nat]
  /\ ids \in SUBSET IDWithinPool
  /\ counters \in SUBSET NamedCounter
  /\ tstate \in [Tickets -> TStates \cup {"NONE"}]
  /\ tres \in [Tickets -> Resources \cup {None}]
  /\ tsandbox \in [Tickets -> SandboxIDs]
  /\ ttags \in [Tickets -> SUBSET Tags]

(* init_by_alembic() on a new installation: empty tables. *)
DatabaseInit ==
  /\ rstate = [r \in Resources |-> "NONE"]
  /\ rpool = [r \in Resources |-> None]
  /\ rticket = [r \in Resources |-> None]
  /\ rsandbox = [r \in Resources |-> NoSandbox]
  /\ rreleases = [r \in Resources |-> 0]
  /\ rfailed = [r \in Resources |-> 0]
  /\ ids = {}
  /\ counters = {}
  /\ tstate = [t \in Tickets |-> "NONE"]
  /\ tres = [t \in Tickets |-> None]
  /\ tsandbox = [t \in Tickets |-> NoSandbox]
  /\ ttags = [t \in Tickets |-> {}]

-----------------------------------------------------------------------------
(* Definitions whose comment begins with "Mutant" are faults that the      *)
(* properties are shown to notice; no other definition uses them.          *)

(* The queries of QResources, restricted to a pool, and of QTickets. *)

in_pool(p) == {r \in Resources : rpool[r] = p}
on(p) == {r \in in_pool(p) : rstate[r] # "ENDED"}
up(p) == {r \in in_pool(p) : rstate[r] = "UP"}
taken(p) == {r \in up(p) : rticket[r] # None}
(* Mutant: ready() without the filter on ticket_id *)
ready_any_ticket(p) == {r \in up(p) : rfailed[r] = 0}

ready(p) == {r \in up(p) : rticket[r] = None /\ rfailed[r] = 0}
clean_candidates(p) == {r \in up(p) : rticket[r] = None /\ rreleases[r] > 0}
check_failure_candidates(p) == {r \in up(p) : rfailed[r] > 0}
clean(p) == {r \in on(p) : rstate[r] = "DELETE_REQUEST"}

(* stats(): note that its "ready", unlike ready(), ignores rfailed. *)
stats(p) ==
  LET unassigned == {r \in up(p) : rticket[r] = None}
  IN  [on        |-> Cardinality(on(p)),
       ready     |-> Cardinality(unassigned),
       start     |-> Cardinality({r \in on(p) : rstate[r] = "STARTING"}),
       free      |-> Cardinality({r \in unassigned : rreleases[r] = 0}),
       releasing |-> Cardinality({r \in on(p) : rstate[r] = "RELEASING"})]

waiting == {t \in Tickets : tstate[t] = "OPEN" /\ tres[t] = None}

-----------------------------------------------------------------------------
(* Row updates. *)

(* Mutants: kill() forgets the tickets, or fails tickets that are not open *)
killed_no_tickets(killed) == tstate

killed_all_tickets(killed) ==
  [t \in Tickets |-> IF tres[t] \in killed THEN "FAILED" ELSE tstate[t]]

(* Mutant: kill() of resources that are not UP *)
killed_any_state(killed) ==
  [r \in Resources |-> IF r \in killed THEN "DELETE_REQUEST" ELSE rstate[r]]

(* kill(): the open tickets of the killed resources fail, and only the     *)
(* resources that are UP are requested to be deleted.                      *)
killed_tickets(killed) ==
  [t \in Tickets |-> IF tres[t] \in killed /\ tstate[t] = "OPEN"
                     THEN "FAILED" ELSE tstate[t]]

killed_resources(killed) ==
  [r \in Resources |-> IF r \in killed /\ rstate[r] = "UP"
                       THEN "DELETE_REQUEST" ELSE rstate[r]]

(* assign_ticket() *)
assign_ticket(r, t) ==
  LET sandbox == IF tsandbox[t] = NoSandbox THEN uuid(t) ELSE tsandbox[t]
  IN  /\ rticket' = [rticket EXCEPT ![r] = t]
      /\ tres' = [tres EXCEPT ![t] = r]
      /\ tsandbox' = [tsandbox EXCEPT ![t] = sandbox]
      /\ rsandbox' = [rsandbox EXCEPT ![r] = IF @ = NoSandbox THEN sandbox ELSE @]

(* release_resource(), for the tickets of all the resources in released *)
release_resource(released) ==
  /\ rticket' = [r \in Resources |-> IF r \in released THEN None ELSE rticket[r]]
  /\ rreleases' = [r \in Resources |->
                     IF r \in released THEN rreleases[r] + 1 ELSE rreleases[r]]

(* Mutants: STARTING, or DELETING, is not a broken state *)
fix_broken_but_starting ==
  rstate' = [r \in Resources |->
               IF rstate[r] \in {"DELETING", "RELEASING"}
               THEN "DELETE_REQUEST" ELSE rstate[r]]

fix_broken_but_deleting ==
  rstate' = [r \in Resources |->
               IF rstate[r] \in {"STARTING", "RELEASING"}
               THEN "DELETE_REQUEST" ELSE rstate[r]]

(* fix_broken_after_restart() *)
fix_broken_after_restart ==
  rstate' = [r \in Resources |->
               IF rstate[r] \in {"STARTING", "DELETING", "RELEASING"}
               THEN "DELETE_REQUEST" ELSE rstate[r]]

(* Dropping the rows of ids_within_pool and named_counters of a resource. *)
delete_slots(r) ==
  /\ ids' = {row \in ids : row.res # r}
  /\ counters' = {row \in counters : row.res # r}
=============================================================================
