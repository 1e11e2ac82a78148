------------------------------ MODULE OnDemand ------------------------------
(***************************************************************************)
(* Manager._decide_where_to_start_on_demand_instances(): how many          *)
(* resources each on-demand pool may start in this cycle of the manager.   *)
(* A pure function of the rows.  The tickets are visited in the order of   *)
(* their ids; the i-th element of the two recursive functions is the       *)
(* bookkeeping of the code after the tickets 1..i.                         *)
(***************************************************************************)
EXTENDS Workers, FiniteSetsExt

pools_on_demand == {p \in Pools : tag_set_on_demand(p) # {}}

on_demand_tickets == {t \in waiting : ttags[t] \cap on_demand_tags # {}}

(* get_tags_priority() is not None for these pools, ... *)
capable(t) == {p \in pools_on_demand : ttags[t] \subseteq tag_set(p)}

(* ... and this is its value. *)
tag_priority(p, tag) ==
  IF tag \in tag_set_normal(p) THEN Config[p].tags[tag]
                               ELSE Config[p].tags_on_demand[tag]

get_tags_priority(p, tags) == MapThenSumSet(LAMBDA tag : tag_priority(p, tag), tags)

first_by_name(pools) ==
  CHOOSE p \in pools : \A q \in pools : Config[p].name <= Config[q].name

(* Mutants: nothing supplies a ticket; a pool with nothing left supplies it *)
supplying_none(t, existing) == {}
supplying_zero(t, existing) == {p \in capable(t) : existing[p] >= 0}

(* First pass: a ticket takes up one of the resources that a capable pool  *)
(* has or is about to have, the first such pool by name.                   *)
supplying(t, existing) == {p \in capable(t) : existing[p] > 0}

already_existing[i \in 0..MaxTickets] ==
  IF i = 0
  THEN [p \in Pools |-> stats(p).start + stats(p).ready + stats(p).releasing]
  ELSE LET before == already_existing[i - 1]
       IN  IF i \in on_demand_tickets /\ supplying(i, before) # {}
           THEN [before EXCEPT ![first_by_name(supplying(i, before))] = @ - 1]
           ELSE before

tickets_to_solve ==
  {t \in on_demand_tickets : /\ capable(t) # {}
                             /\ supplying(t, already_existing[t - 1]) = {}}

(* Second pass: a ticket starts a resource in the capable pool of the      *)
(* highest priority (the first by name among equals) that is below its     *)
(* quotas.  A start is a pair of a ticket and a pool.                      *)
starts_in(p, starts) == Cardinality({t \in Tickets : <<t, p>> \in starts})

below_quotas(p, starts) ==
  /\ starts_in(p, starts) + stats(p).on < Config[p].max
  /\ starts_in(p, starts) + stats(p).start < Config[p].max_starting

precedes(p, q, tags) ==
  \/ get_tags_priority(p, tags) > get_tags_priority(q, tags)
  \/ /\ get_tags_priority(p, tags) = get_tags_priority(q, tags)
     /\ Config[p].name <= Config[q].name

starting_pool(t, starts) ==
  LET open == {p \in capable(t) : below_quotas(p, starts)}
  IN  {p \in open : \A q \in open : precedes(p, q, ttags[t])}

triggered[i \in 0..MaxTickets] ==
  IF i = 0 THEN {}
  ELSE LET before == triggered[i - 1]
       IN  IF i \in tickets_to_solve
           THEN before \cup ({i} \X starting_pool(i, before))
           ELSE before

(* start_on_demand_this_cycle of every pool *)
start_on_demand == [p \in Pools |-> starts_in(p, triggered[MaxTickets])]
=============================================================================
