--------------------------- MODULE OnDemandSafety ---------------------------
(***************************************************************************)
(* Proof that the on-demand decision counts right: in pools without reuse  *)
(* whose tickets are interchangeable, no more resources are started than   *)
(* there are tickets that caused them.                                     *)
(***************************************************************************)
EXTENDS ServerQuotas

(* Induction up to N, on a set: its smallest counterexample is not 0. *)
LEMMA UpTo ==
  ASSUME NEW N \in Nat, NEW good, 0 \in good,
         \A i \in 1..N : i - 1 \in good => i \in good
  PROVE  \A i \in 0..N : i \in good
<1> DEFINE bad == {i \in 0..N : i \notin good}
<1>1. SUFFICES ASSUME bad # {} PROVE FALSE
  OBVIOUS
<1>2. PICK n \in bad : \A m \in bad : n <= m
  <2>1. bad \in SUBSET Nat OBVIOUS
  <2> HIDE DEF bad
  <2> QED BY <1>1, <2>1, SmallestOf
<1>3. n \in 1..N /\ n \notin good
  BY <1>2
<1>4. n - 1 \in 0..N /\ ~(n <= n - 1)
  BY <1>3
<1>5. n - 1 \in good
  BY <1>2, <1>4
<1> QED BY <1>3, <1>5

Recursions(N, S, base, next) ==
  {g \in [0..N -> S] : g[0] = base /\ \A i \in 1..N : g[i] = next[i][g[i - 1]]}

(* A recursive function over 0..N exists: what there is up to n - 1 can be *)
(* continued.                                                              *)
LEMMA RecursionExists ==
  ASSUME NEW N \in Nat, NEW S, NEW base \in S, NEW next \in [1..N -> [S -> S]]
  PROVE  Recursions(N, S, base, next) # {}
<1> DEFINE Solves(g, n) == /\ g \in [0..n -> S]
                           /\ g[0] = base
                           /\ \A i \in 1..n : g[i] = next[i][g[i - 1]]
           good == {n \in 0..N : \E g : Solves(g, n)}
<1>1. 0 \in good
  <2>1. Solves([i \in 0..0 |-> base], 0) OBVIOUS
  <2> HIDE DEF Solves
  <2> QED BY <2>1
<1>2. ASSUME NEW n \in 1..N, n - 1 \in good PROVE n \in good
  <2>1. PICK g : Solves(g, n - 1)
    BY <1>2
  <2> DEFINE h == [i \in 0..n |-> IF i = n THEN next[n][g[n - 1]] ELSE g[i]]
  <2>2. g[n - 1] \in S /\ next[n] \in [S -> S]
    BY <2>1
  <2>3. h \in [0..n -> S]
    BY <2>1, <2>2
  <2>4. h[0] = base
    BY <2>1
  <2>5. ASSUME NEW i \in 1..n PROVE h[i] = next[i][h[i - 1]]
    <3>1. CASE i = n BY <3>1
    <3>2. CASE i # n BY <2>1, <2>5, <3>2
    <3> QED BY <3>1, <3>2
  <2>6. Solves(h, n) BY <2>3, <2>4, <2>5
  <2> HIDE DEF Solves
  <2> QED BY <2>6
<1>3. N \in good
  <2>1. N \in 0..N OBVIOUS
  <2> HIDE DEF good
  <2> QED BY <1>1, <1>2, <2>1, UpTo
<1> QED BY <1>3 DEF Recursions

-----------------------------------------------------------------------------
(* The equations of the bookkeeping of the first pass. *)
existing_before ==
  [p \in Pools |-> stats(p).start + stats(p).ready + stats(p).releasing]

existing_after(i, before) ==
  IF i \in on_demand_tickets /\ supplying(i, before) # {}
  THEN [before EXCEPT ![first_by_name(supplying(i, before))] = @ - 1]
  ELSE before

LEMMA NumbersOfRows ==
  \A p \in Pools : /\ stats(p).start \in Nat
                   /\ stats(p).ready \in Nat
                   /\ stats(p).releasing \in Nat
<1> SUFFICES ASSUME NEW p \in Pools
             PROVE  /\ stats(p).start \in Nat
                    /\ stats(p).ready \in Nat
                    /\ stats(p).releasing \in Nat
  OBVIOUS
<1>1. IsFiniteSet(Resources)
  BY SizeAssumption, FS_Interval DEF Resources
<1>2. /\ {r \in on(p) : rstate[r] = "STARTING"} \in SUBSET Resources
      /\ {r \in up(p) : rticket[r] = None} \in SUBSET Resources
      /\ {r \in on(p) : rstate[r] = "RELEASING"} \in SUBSET Resources
  BY DEF on, up, in_pool
<1>3. /\ Cardinality({r \in on(p) : rstate[r] = "STARTING"}) \in Nat
      /\ Cardinality({r \in up(p) : rticket[r] = None}) \in Nat
      /\ Cardinality({r \in on(p) : rstate[r] = "RELEASING"}) \in Nat
  BY <1>1, <1>2, FS_Subset, FS_CardinalityType
<1> QED BY <1>3 DEF stats

LEMMA FirstPass ==
  /\ already_existing \in [0..MaxTickets -> [Pools -> Int]]
  /\ already_existing[0] = existing_before
  /\ \A i \in 1..MaxTickets :
       already_existing[i] = existing_after(i, already_existing[i - 1])
<1> DEFINE S == [Pools -> Int]
           step == [i \in 1..MaxTickets |-> [b \in S |-> existing_after(i, b)]]
           body(g) == [i \in 0..MaxTickets |->
                         IF i = 0 THEN existing_before
                         ELSE existing_after(i, g[i - 1])]
<1>0. MaxTickets \in Nat BY SizeAssumption
<1>1. existing_before \in S
  <2>1. \A p \in Pools : stats(p).start + stats(p).ready + stats(p).releasing \in Int
    BY NumbersOfRows
  <2> QED BY <2>1 DEF existing_before
<1>2. ASSUME NEW i \in 1..MaxTickets, NEW b \in S PROVE existing_after(i, b) \in S
  <2>1. ASSUME NEW x PROVE [b EXCEPT ![x] = @ - 1] \in S
    <3>1. CASE x \in Pools BY <3>1
    <3>2. CASE x \notin Pools BY <3>2
    <3> QED BY <3>1, <3>2
  <2> HIDE DEF S
  <2> QED BY <1>2, <2>1 DEF existing_after
<1>3. step \in [1..MaxTickets -> [S -> S]]
  BY <1>2
<1>4. PICK f \in Recursions(MaxTickets, S, existing_before, step) : TRUE
  <2> HIDE DEF S, step
  <2> QED BY <1>0, <1>1, <1>3, RecursionExists
<1>5. /\ f \in [0..MaxTickets -> S] /\ f[0] = existing_before
      /\ \A i \in 1..MaxTickets : f[i] = step[i][f[i - 1]] /\ f[i - 1] \in S
  <2> HIDE DEF S, step
  <2> QED BY <1>0, <1>4 DEF Recursions
<1>6. \A i \in 1..MaxTickets : f[i] = existing_after(i, f[i - 1])
  BY <1>5
<1>7. f = body(f)
  <2>1. \A i \in 0..MaxTickets : f[i] = body(f)[i]
    BY <1>0, <1>5, <1>6
  <2> QED BY <1>5, <2>1
<1>8. already_existing = CHOOSE g : g = body(g)
  BY DEF already_existing, existing_before, existing_after
<1>9. already_existing = body(already_existing)
  BY <1>7, <1>8
<1>10. DOMAIN already_existing = 0..MaxTickets /\ already_existing[0] = existing_before
  BY <1>0, <1>9
<1>11. \A i \in 1..MaxTickets :
         already_existing[i] = existing_after(i, already_existing[i - 1])
  BY <1>0, <1>9
<1> DEFINE good == {i \in 0..MaxTickets : already_existing[i] \in S}
<1>12. 0 \in good /\ \A i \in 1..MaxTickets : i - 1 \in good => i \in good
  <2> HIDE DEF S
  <2> QED BY <1>0, <1>1, <1>2, <1>10, <1>11
<1>13. \A i \in 0..MaxTickets : i \in good
  <2> HIDE DEF good
  <2> QED BY <1>0, <1>12, UpTo
<1>14. already_existing = [i \in 0..MaxTickets |-> already_existing[i]]
  <2> HIDE DEF S, good
  <2> QED BY <1>9
<1>15. already_existing \in [0..MaxTickets -> S]
  <2> HIDE DEF S
  <2> QED BY <1>13, <1>14
<1> QED BY <1>10, <1>11, <1>15
-----------------------------------------------------------------------------
(* The value of a pool for a ticket is a number: a sum over a finite set.  *)
one_of(s) == CHOOSE x \in s : TRUE

Small(S, n) == {s \in SUBSET S : Cardinality(s) <= n}

Sums(S, n, v) ==
  {g \in [Small(S, n) -> Int] :
     \A s \in Small(S, n) :
       g[s] = IF s = {} THEN 0 ELSE v[one_of(s)] + g[s \ {one_of(s)}]}

LEMMA OneLess ==
  ASSUME NEW S, IsFiniteSet(S), NEW n \in Nat, NEW s \in Small(S, n), s # {}
  PROVE  n # 0 /\ one_of(s) \in s /\ s \ {one_of(s)} \in Small(S, n - 1)
<1>1. one_of(s) \in s
  BY DEF one_of
<1>2. IsFiniteSet(s) /\ s \in SUBSET S
  BY FS_Subset DEF Small
<1>3. Cardinality(s) \in Nat /\ Cardinality(s) # 0
  BY <1>2, FS_CardinalityType, FS_EmptySet
<1>4. Cardinality(s \ {one_of(s)}) = Cardinality(s) - 1
  BY <1>1, <1>2, FS_RemoveElement
<1> QED BY <1>1, <1>2, <1>3, <1>4 DEF Small

LEMMA SumsExist ==
  ASSUME NEW S, IsFiniteSet(S), NEW v \in [S -> Int]
  PROVE  Sums(S, Cardinality(S), v) # {}
<1> DEFINE N == Cardinality(S)
           good == {n \in 0..N : Sums(S, n, v) # {}}
<1>0. N \in Nat
  BY FS_CardinalityType
<1>1. 0 \in good
  <2> DEFINE g == [s \in Small(S, 0) |-> 0]
  <2>1. \A s \in Small(S, 0) : s = {}
    BY OneLess
  <2>2. g \in Sums(S, 0, v)
    BY <2>1 DEF Sums
  <2> QED BY <1>0, <2>2
<1>2. ASSUME NEW n \in 1..N, n - 1 \in good PROVE n \in good
  <2>1. PICK g \in Sums(S, n - 1, v) : TRUE
    BY <1>2
  <2> DEFINE h == [s \in Small(S, n) |->
                     IF s = {} THEN 0 ELSE v[one_of(s)] + g[s \ {one_of(s)}]]
  <2>2. g \in [Small(S, n - 1) -> Int]
    BY <2>1 DEF Sums
  <2>3. ASSUME NEW s \in Small(S, n), s # {}
        PROVE  v[one_of(s)] \in Int /\ s \ {one_of(s)} \in Small(S, n - 1)
    BY <2>3, OneLess, n \in Nat DEF Small
  <2>4. h \in [Small(S, n) -> Int]
    BY <2>2, <2>3
  <2>5. ASSUME NEW s \in Small(S, n - 1) PROVE s \in Small(S, n) /\ h[s] = g[s]
    <3>1. s \in Small(S, n)
      <4>1. Cardinality(s) \in Nat
        BY FS_Subset, FS_CardinalityType DEF Small
      <4> QED BY <4>1 DEF Small
    <3> QED BY <2>1, <3>1 DEF Sums
  <2>6. \A s \in Small(S, n) :
          h[s] = IF s = {} THEN 0 ELSE v[one_of(s)] + h[s \ {one_of(s)}]
    <3> SUFFICES ASSUME NEW s \in Small(S, n), s # {}
                 PROVE  h[s] = v[one_of(s)] + h[s \ {one_of(s)}]
      OBVIOUS
    <3>1. h[s] = v[one_of(s)] + g[s \ {one_of(s)}]
      OBVIOUS
    <3>2. h[s \ {one_of(s)}] = g[s \ {one_of(s)}]
      <4> HIDE DEF h
      <4> QED BY <2>3, <2>5
    <3> QED BY <3>1, <3>2
  <2>7. h \in Sums(S, n, v)
    <3> HIDE DEF h
    <3> QED BY <2>4, <2>6 DEF Sums
  <2> QED BY <2>7
<1>3. N \in good
  <2>1. N \in 0..N BY <1>0
  <2> HIDE DEF good, N
  <2> QED BY <1>0, <1>1, <1>2, <2>1, UpTo
<1> QED BY <1>3

LEMMA PriorityIsNumber ==
  ASSUME NEW p \in Pools, NEW tags \in SUBSET tag_set(p)
  PROVE  get_tags_priority(p, tags) \in Int
<1> DEFINE N == Cardinality(tags)
           v == [x \in tags |-> tag_priority(p, x)]
           body(g) == [s \in SUBSET tags |->
                         IF s = {} THEN 0
                         ELSE tag_priority(p, CHOOSE x \in s : TRUE)
                                + g[s \ {CHOOSE x \in s : TRUE}]]
           iter == CHOOSE g : g = body(g)
<1>1. IsFiniteSet(tags)
  <2>1. IsFiniteSet(tag_set_normal(p)) /\ IsFiniteSet(tag_set_on_demand(p))
    BY ConfigAssumption DEF PoolConfigOK, tag_set_normal, tag_set_on_demand
  <2> QED BY <2>1, FS_Union, FS_Subset DEF tag_set
<1>2. v \in [tags -> Int]
  BY ConfigAssumption
     DEF PoolConfigOK, tag_priority, tag_set, tag_set_normal, tag_set_on_demand
<1>3. N \in Nat
  BY <1>1, FS_CardinalityType
<1>4. Small(tags, N) = SUBSET tags
  <2>1. ASSUME NEW s \in SUBSET tags PROVE Cardinality(s) <= N
    BY <1>1, FS_Subset
  <2> QED BY <2>1 DEF Small
<1>5. PICK f \in Sums(tags, N, v) : TRUE
  BY <1>1, <1>2, SumsExist
<1>6. f = body(f)
  <2>1. f \in [SUBSET tags -> Int]
    BY <1>4, <1>5 DEF Sums
  <2>2. ASSUME NEW s \in SUBSET tags PROVE f[s] = body(f)[s]
    <3>1. f[s] = IF s = {} THEN 0 ELSE v[one_of(s)] + f[s \ {one_of(s)}]
      BY <1>4, <1>5 DEF Sums
    <3>2. s # {} => v[one_of(s)] = tag_priority(p, one_of(s))
      BY DEF one_of
    <3> QED BY <3>1, <3>2 DEF one_of
  <2> QED BY <2>1, <2>2
<1>7. iter = body(iter)
  BY <1>6
<1>8. get_tags_priority(p, tags) = iter[tags]
  BY DEF get_tags_priority, MapThenSumSet, MapThenFoldSet
<1>9. \A s \in SUBSET tags :
        iter[s] = IF s = {} THEN 0 ELSE v[one_of(s)] + iter[s \ {one_of(s)}]
  <2> SUFFICES ASSUME NEW s \in SUBSET tags
               PROVE  iter[s] = IF s = {} THEN 0 ELSE v[one_of(s)] + iter[s \ {one_of(s)}]
    OBVIOUS
  <2>1. s # {} => v[one_of(s)] = tag_priority(p, one_of(s))
    BY DEF one_of
  <2>2. iter[s] = body(iter)[s]
    BY <1>7
  <2> HIDE DEF iter
  <2> QED BY <2>1, <2>2 DEF one_of
<1> DEFINE good == {n \in 0..N : \A s \in Small(tags, n) : iter[s] \in Int}
<1> HIDE DEF iter
<1>e. iter[{}] \in Int
  <2>1. {} \in SUBSET tags OBVIOUS
  <2>2. iter[{}] = 0 BY <1>9, <2>1
  <2> QED BY <2>2
<1>10. 0 \in good
  <2>1. \A s \in Small(tags, 0) : s = {}
    BY <1>1, OneLess
  <2>2. \A s \in Small(tags, 0) : iter[s] \in Int
    BY <1>e, <2>1
  <2> QED BY <1>3, <2>2
<1>11. ASSUME NEW n \in 1..N, n - 1 \in good PROVE n \in good
  <2>1. ASSUME NEW s \in Small(tags, n), s # {} PROVE iter[s] \in Int
    <3>1. n \in Nat BY <1>3
    <3>2. one_of(s) \in s /\ s \ {one_of(s)} \in Small(tags, n - 1)
      BY <1>1, <2>1, <3>1, OneLess
    <3>3. v[one_of(s)] \in Int
      BY <1>2, <2>1, <3>2 DEF Small
    <3>4. iter[s \ {one_of(s)}] \in Int
      BY <1>11, <3>2
    <3>5. iter[s] = v[one_of(s)] + iter[s \ {one_of(s)}]
      BY <1>9, <2>1 DEF Small
    <3> QED BY <3>3, <3>4, <3>5
  <2>2. \A s \in Small(tags, n) : iter[s] \in Int
    BY <1>e, <2>1
  <2> QED BY <2>2
<1>12. N \in good
  <2>1. N \in 0..N BY <1>3
  <2> HIDE DEF good, N
  <2> QED BY <1>3, <1>10, <1>11, <2>1, UpTo
<1> QED BY <1>4, <1>8, <1>12
-----------------------------------------------------------------------------
(* The equations of the second pass: a ticket starts in one pool at most.  *)
LEMMA OneStartingPool ==
  ASSUME NEW t, NEW starts
  PROVE  /\ starting_pool(t, starts) \in SUBSET Pools
         /\ \A p, q \in starting_pool(t, starts) : p = q
<1>1. starting_pool(t, starts) \in SUBSET capable(t)
  BY DEF starting_pool
<1>2. capable(t) \in SUBSET Pools
  BY DEF capable, pools_on_demand
<1>3. ASSUME NEW p \in starting_pool(t, starts), NEW q \in starting_pool(t, starts)
      PROVE  p = q
  <2>1. precedes(p, q, ttags[t]) /\ precedes(q, p, ttags[t])
    BY <1>3 DEF starting_pool
  <2>2. p \in Pools /\ q \in Pools
    BY <1>1, <1>2
  <2>3. get_tags_priority(p, ttags[t]) \in Int /\ get_tags_priority(q, ttags[t]) \in Int
    BY <1>1, <2>2, PriorityIsNumber DEF capable
  <2>4. Config[p].name \in Nat /\ Config[q].name \in Nat
    BY <2>2, ConfigAssumption DEF PoolConfigOK
  <2>5. Config[p].name = Config[q].name
    BY <2>1, <2>3, <2>4 DEF precedes
  <2> QED BY <2>2, <2>5, NamesAssumption
<1> QED BY <1>1, <1>2, <1>3

triggered_after(i, before) ==
  IF i \in tickets_to_solve THEN before \cup ({i} \X starting_pool(i, before))
                            ELSE before

LEMMA SecondPass ==
  /\ triggered[0] = {}
  /\ \A i \in 1..MaxTickets : triggered[i] = triggered_after(i, triggered[i - 1])
<1> DEFINE S == SUBSET (Tickets \X Pools)
           step == [i \in 1..MaxTickets |-> [b \in S |-> triggered_after(i, b)]]
           body(g) == [i \in 0..MaxTickets |->
                         IF i = 0 THEN {} ELSE triggered_after(i, g[i - 1])]
<1>0. MaxTickets \in Nat BY SizeAssumption
<1>1. {} \in S
  OBVIOUS
<1>2. ASSUME NEW i \in 1..MaxTickets, NEW b \in S PROVE triggered_after(i, b) \in S
  <2>1. starting_pool(i, b) \in SUBSET Pools /\ i \in Tickets
    BY OneStartingPool DEF Tickets
  <2> QED BY <2>1 DEF triggered_after
<1>3. step \in [1..MaxTickets -> [S -> S]]
  BY <1>2
<1>4. PICK f \in Recursions(MaxTickets, S, {}, step) : TRUE
  <2> HIDE DEF S, step
  <2> QED BY <1>0, <1>1, <1>3, RecursionExists
<1>5. /\ f \in [0..MaxTickets -> S] /\ f[0] = {}
      /\ \A i \in 1..MaxTickets : f[i] = step[i][f[i - 1]] /\ f[i - 1] \in S
  <2> HIDE DEF S, step
  <2> QED BY <1>0, <1>4 DEF Recursions
<1>6. \A i \in 1..MaxTickets : f[i] = triggered_after(i, f[i - 1])
  BY <1>5
<1>7. f = body(f)
  <2>1. \A i \in 0..MaxTickets : f[i] = body(f)[i]
    BY <1>0, <1>5, <1>6
  <2> QED BY <1>5, <2>1
<1>8. triggered = CHOOSE g : g = body(g)
  BY DEF triggered, triggered_after
<1>9. triggered = body(triggered)
  BY <1>7, <1>8
<1>10. triggered[0] = {}
  BY <1>0, <1>9
<1>11. ASSUME NEW i \in 1..MaxTickets
       PROVE  triggered[i] = triggered_after(i, triggered[i - 1])
  <2>1. triggered[i] = body(triggered)[i]
    BY <1>9
  <2>2. i \in 0..MaxTickets /\ i # 0
    BY <1>0
  <2> QED BY <2>1, <2>2, Zenon
<1> QED BY <1>10, <1>11

(* What the second pass starts: at most one resource for every ticket that *)
(* the first pass did not supply.                                          *)
StartsOf(i) == /\ triggered[i] \in SUBSET (tickets_to_solve \X Pools)
               /\ \A x \in triggered[i] : x[1] <= i
               /\ \A x, y \in triggered[i] : x[1] = y[1] => x = y

LEMMA OneStartEach == StartsOf(MaxTickets)
<1> DEFINE good == {i \in 0..MaxTickets : StartsOf(i)}
<1>0. MaxTickets \in Nat BY SizeAssumption
<1>1. 0 \in good
  BY <1>0, SecondPass DEF StartsOf
<1>2. ASSUME NEW i \in 1..MaxTickets, i - 1 \in good PROVE i \in good
  <2> DEFINE before == triggered[i - 1]
             pools == starting_pool(i, before)
  <2>1. StartsOf(i - 1)
    BY <1>2
  <2>2. \A t \in tickets_to_solve : t \in Int
    BY DEF tickets_to_solve, on_demand_tickets, waiting, Tickets
  <2>3. pools \in SUBSET Pools /\ \A p, q \in pools : p = q
    BY OneStartingPool
  <2>4. triggered[i] = triggered_after(i, before)
    BY SecondPass
  <2>5. CASE i \in tickets_to_solve
    <3>1. triggered[i] = before \cup ({i} \X pools)
      BY <2>4, <2>5 DEF triggered_after
    <3>2. \A x \in before : x[1] # i /\ x[1] <= i
      <4>1. \A x \in before : x[1] \in Int /\ x[1] <= i - 1
        BY <2>1, <2>2 DEF StartsOf
      <4> HIDE DEF before
      <4> QED BY <4>1, i \in Int
    <3>3. \A x \in {i} \X pools : x[1] = i /\ x = <<i, x[2]>> /\ x[2] \in pools
      OBVIOUS
    <3> HIDE DEF before, pools
    <3>4. triggered[i] \in SUBSET (tickets_to_solve \X Pools)
      BY <2>1, <2>3, <2>5, <3>1 DEF StartsOf, before
    <3>5. \A x \in triggered[i] : x[1] <= i
      BY <3>1, <3>2, <3>3
    <3>6. \A x, y \in triggered[i] : x[1] = y[1] => x = y
      <4>1. \A x, y \in before : x[1] = y[1] => x = y
        BY <2>1 DEF StartsOf, before
      <4>2. \A x, y \in {i} \X pools : x = y
        BY <2>3, <3>3
      <4> QED BY <3>1, <3>2, <3>3, <4>1, <4>2
    <3> QED BY <3>4, <3>5, <3>6 DEF StartsOf
  <2>6. CASE i \notin tickets_to_solve
    <3>1. triggered[i] = before
      BY <2>4, <2>6 DEF triggered_after
    <3>2. \A x \in before : x[1] <= i
      BY <2>1, <2>2 DEF StartsOf
    <3> QED BY <2>1, <3>1, <3>2 DEF StartsOf
  <2> QED BY <2>5, <2>6
<1>3. MaxTickets \in good
  <2>1. MaxTickets \in 0..MaxTickets BY <1>0
  <2> HIDE DEF good
  <2> QED BY <1>0, <1>1, <1>2, <2>1, UpTo
<1> QED BY <1>3

LEMMA StartsAreFew ==
  /\ IsFiniteSet(tickets_to_solve)
  /\ IsFiniteSet(triggered[MaxTickets])
  /\ Cardinality(triggered[MaxTickets]) <= Cardinality(tickets_to_solve)
<1> DEFINE T == triggered[MaxTickets]
           f == [x \in T |-> x[1]]
<1>1. IsFiniteSet(tickets_to_solve)
  <2>1. IsFiniteSet(Tickets)
    BY SizeAssumption, FS_Interval DEF Tickets
  <2>2. tickets_to_solve \in SUBSET Tickets
    BY DEF tickets_to_solve, on_demand_tickets, waiting
  <2> QED BY <2>1, <2>2, FS_Subset
<1>2. f \in Injection(T, tickets_to_solve)
  BY OneStartEach DEF StartsOf, Injection, IsInjective
<1> QED BY <1>1, <1>2, FS_Injection
-----------------------------------------------------------------------------
(* What the first pass counts: the resources of on-demand pools that a     *)
(* waiting ticket may get, and the tickets that it supplies with them.     *)
Available ==
  {r \in Resources :
     /\ rpool[r] \in pools_on_demand
     /\ \/ rstate[r] \in {"STARTING", "RELEASING"}
        \/ rstate[r] = "UP" /\ rticket[r] = None}

supplied(i) ==
  {t \in on_demand_tickets : t <= i /\ supplying(t, already_existing[t - 1]) # {}}

LEMMA AvailableRows ==
  ASSUME NEW p \in pools_on_demand
  PROVE  Cardinality(Available \cap in_pool(p)) = existing_before[p]
<1> DEFINE start == {r \in on(p) : rstate[r] = "STARTING"}
           ready_ == {r \in up(p) : rticket[r] = None}
           releasing_ == {r \in on(p) : rstate[r] = "RELEASING"}
<1>1. IsFiniteSet(Resources)
  BY SizeAssumption, FS_Interval DEF Resources
<1>2. start \in SUBSET Resources /\ ready_ \in SUBSET Resources /\ releasing_ \in SUBSET Resources
  BY DEF on, up, in_pool
<1>3. IsFiniteSet(start) /\ IsFiniteSet(ready_) /\ IsFiniteSet(releasing_)
  BY <1>1, <1>2, FS_Subset
<1>4. Available \cap in_pool(p) = (start \cup ready_) \cup releasing_
  BY DEF Available, on, up, in_pool
<1>5. start \cap ready_ = {} /\ (start \cup ready_) \cap releasing_ = {}
  BY DEF on, up
<1> HIDE DEF start, ready_, releasing_
<1>6. /\ IsFiniteSet(start \cup ready_)
      /\ Cardinality(start \cup ready_) = Cardinality(start) + Cardinality(ready_) - 0
  BY <1>3, <1>5, FS_Union, FS_EmptySet
<1>7. Cardinality((start \cup ready_) \cup releasing_)
        = Cardinality(start \cup ready_) + Cardinality(releasing_) - 0
  BY <1>3, <1>5, <1>6, FS_Union, FS_EmptySet
<1>8. /\ Cardinality(start) \in Nat /\ Cardinality(ready_) \in Nat
      /\ Cardinality(releasing_) \in Nat
  BY <1>3, FS_CardinalityType
<1>9. Cardinality((start \cup ready_) \cup releasing_)
        = Cardinality(start) + Cardinality(ready_) + Cardinality(releasing_)
  BY <1>6, <1>7, <1>8
<1>10. existing_before[p] = stats(p).start + stats(p).ready + stats(p).releasing
  BY DEF existing_before, pools_on_demand
<1>11. /\ stats(p).start = Cardinality(start)
       /\ stats(p).ready = Cardinality(ready_)
       /\ stats(p).releasing = Cardinality(releasing_)
  BY DEF stats, start, ready_, releasing_
<1> QED BY <1>4, <1>9, <1>10, <1>11

LEMMA FirstByName ==
  ASSUME NEW pools \in SUBSET Pools, pools # {}
  PROVE  first_by_name(pools) \in pools
<1> DEFINE names == {Config[p].name : p \in pools}
<1>1. names \in SUBSET Nat /\ names # {}
  BY ConfigAssumption DEF PoolConfigOK
<1>2. PICK n \in names : \A m \in names : n <= m
  <2> HIDE DEF names
  <2> QED BY <1>1, SmallestOf
<1>3. PICK p \in pools : n = Config[p].name
  BY <1>2
<1>4. \A q \in pools : Config[p].name <= Config[q].name
  BY <1>2, <1>3
<1> QED BY <1>4 DEF first_by_name

(* Each supplied ticket uses up one of the available resources, of a pool  *)
(* in which some are left.                                                 *)
LeftOver(i) ==
  \E left \in SUBSET Available :
    /\ \A p \in pools_on_demand :
         Cardinality(left \cap in_pool(p)) = already_existing[i][p]
    /\ Cardinality(left) + Cardinality(supplied(i)) = Cardinality(Available)

LEMMA SetsAreFinite ==
  /\ IsFiniteSet(Available) /\ Cardinality(Available) \in Nat
  /\ IsFiniteSet(on_demand_tickets)
  /\ \A i : IsFiniteSet(supplied(i)) /\ Cardinality(supplied(i)) \in Nat
<1>1. IsFiniteSet(Resources) /\ IsFiniteSet(Tickets)
  BY SizeAssumption, FS_Interval DEF Resources, Tickets
<1>2. Available \in SUBSET Resources /\ on_demand_tickets \in SUBSET Tickets
  BY DEF Available, on_demand_tickets, waiting
<1>3. \A i : supplied(i) \in SUBSET on_demand_tickets
  BY DEF supplied
<1>4. IsFiniteSet(Available) /\ IsFiniteSet(on_demand_tickets)
  BY <1>1, <1>2, FS_Subset
<1>5. \A i : IsFiniteSet(supplied(i))
  BY <1>3, <1>4, FS_Subset
<1> QED BY <1>4, <1>5, FS_CardinalityType

LEMMA EachUsesOne == \A i \in 0..MaxTickets : LeftOver(i)
<1> DEFINE good == {i \in 0..MaxTickets : LeftOver(i)}
<1>0. MaxTickets \in Nat BY SizeAssumption
<1>t. \A t \in on_demand_tickets : t \in Int /\ t > 0
  BY <1>0 DEF on_demand_tickets, waiting, Tickets
<1>1. 0 \in good
  <2>1. supplied(0) = {}
    BY <1>0, <1>t DEF supplied
  <2>2. \A p \in pools_on_demand :
          Cardinality(Available \cap in_pool(p)) = already_existing[0][p]
    BY AvailableRows, FirstPass
  <2>3. Cardinality(Available) + Cardinality(supplied(0)) = Cardinality(Available)
    BY <2>1, SetsAreFinite, FS_EmptySet
  <2> QED BY <1>0, <2>2, <2>3 DEF LeftOver
<1>2. ASSUME NEW i \in 1..MaxTickets, i - 1 \in good PROVE i \in good
  <2> DEFINE before == already_existing[i - 1]
             able == supplying(i, before)
             first == first_by_name(able)
  <2>1. PICK left \in SUBSET Available :
          /\ \A p \in pools_on_demand : Cardinality(left \cap in_pool(p)) = before[p]
          /\ Cardinality(left) + Cardinality(supplied(i - 1)) = Cardinality(Available)
    BY <1>2 DEF LeftOver
  <2>2. already_existing[i] = existing_after(i, before)
    BY FirstPass
  <2>3. CASE i \in on_demand_tickets /\ able # {}
    <3>1. able \in SUBSET Pools /\ able \in SUBSET pools_on_demand
      BY DEF supplying, capable, pools_on_demand
    <3>2. first \in able
      <4> HIDE DEF able
      <4> QED BY <2>3, <3>1, FirstByName
    <3>3. first \in pools_on_demand /\ before[first] > 0
      BY <3>1, <3>2 DEF supplying
    <3>4. before \in [Pools -> Int] /\ first \in Pools
      BY <1>0, <3>1, <3>2, FirstPass
    <3>5. /\ already_existing[i][first] = before[first] - 1
          /\ \A p \in Pools : p # first => already_existing[i][p] = before[p]
      <4>1. already_existing[i] = [before EXCEPT ![first] = @ - 1]
        BY <2>2, <2>3 DEF existing_after
      <4> HIDE DEF before, first
      <4> QED BY <3>4, <4>1
    <3>f. IsFiniteSet(left) /\ IsFiniteSet(left \cap in_pool(first))
      BY <2>1, SetsAreFinite, FS_Subset
    <3>6. PICK r \in left \cap in_pool(first) : TRUE
      <4>1. Cardinality(left \cap in_pool(first)) > 0
        BY <2>1, <3>3
      <4>2. left \cap in_pool(first) # {}
        BY <4>1, FS_EmptySet
      <4> QED BY <4>2
    <3> DEFINE rest == left \ {r}
    <3>7. /\ Cardinality(rest) = Cardinality(left) - 1
          /\ Cardinality((left \cap in_pool(first)) \ {r}) = Cardinality(left \cap in_pool(first)) - 1
      BY <3>f, <3>6, FS_RemoveElement
    <3>8. /\ rest \cap in_pool(first) = (left \cap in_pool(first)) \ {r}
          /\ \A p \in Pools : p # first => rest \cap in_pool(p) = left \cap in_pool(p)
      BY <3>6 DEF in_pool
    <3>9. \A p \in pools_on_demand :
            Cardinality(rest \cap in_pool(p)) = already_existing[i][p]
      <4>1. pools_on_demand \in SUBSET Pools
        BY DEF pools_on_demand
      <4>2. Cardinality(rest \cap in_pool(first)) = already_existing[i][first]
        BY <2>1, <3>3, <3>5, <3>7, <3>8
      <4>3. ASSUME NEW p \in pools_on_demand, p # first
            PROVE  Cardinality(rest \cap in_pool(p)) = already_existing[i][p]
        <5>1. already_existing[i][p] = before[p] /\ rest \cap in_pool(p) = left \cap in_pool(p)
          BY <3>5, <3>8, <4>1, <4>3
        <5>2. Cardinality(left \cap in_pool(p)) = before[p]
          BY <2>1
        <5> HIDE DEF before, rest
        <5> QED BY <5>1, <5>2
      <4> HIDE DEF rest, before, first
      <4> QED BY <4>2, <4>3
    <3>10. supplied(i) = supplied(i - 1) \cup {i} /\ i \notin supplied(i - 1)
      <4>1. \A t \in on_demand_tickets : t <= i <=> (t <= i - 1 \/ t = i)
        BY <1>t
      <4>2. i \in on_demand_tickets /\ supplying(i, before) # {} /\ i <= i /\ ~(i <= i - 1)
        BY <2>3
      <4> QED BY <4>1, <4>2, Zenon DEF supplied
    <3>11. Cardinality(supplied(i)) = Cardinality(supplied(i - 1)) + 1
      BY <3>10, SetsAreFinite, FS_AddElement
    <3>12. Cardinality(rest) + Cardinality(supplied(i)) = Cardinality(Available)
      <4>1. Cardinality(left) \in Nat
        BY <3>f, FS_CardinalityType
      <4> QED BY <2>1, <3>7, <3>11, <4>1, SetsAreFinite
    <3>13. rest \in SUBSET Available
      BY <2>1
    <3> HIDE DEF rest
    <3> QED BY <1>2, <3>9, <3>12, <3>13 DEF LeftOver
  <2>4. CASE ~(i \in on_demand_tickets /\ able # {})
    <3>1. already_existing[i] = before
      BY <2>2, <2>4 DEF existing_after
    <3>2. supplied(i) = supplied(i - 1)
      <4>1. \A t \in on_demand_tickets : t <= i <=> (t <= i - 1 \/ t = i)
        BY <1>t
      <4> QED BY <2>4, <4>1, Zenon DEF supplied
    <3> QED BY <1>2, <2>1, <3>1, <3>2 DEF LeftOver
  <2> QED BY <2>3, <2>4
<1>3. \A i \in 0..MaxTickets : i \in good
  <2> HIDE DEF good
  <2> QED BY <1>0, <1>1, <1>2, UpTo
<1> QED BY <1>3
-----------------------------------------------------------------------------
(* The resources that were started and not yet taken, and the tickets that *)
(* have none: the two sides of OneStartPerTicket.                          *)
NeverTaken(r) ==
  /\ rpool[r] \in pools_on_demand
  /\ \/ rstate[r] = "STARTING"
     \/ rstate[r] = "UP" /\ rticket[r] = None /\ rreleases[r] = 0

Unused == {r \in Resources : NeverTaken(r)}

Unserved == {t \in Tickets : ttags[t] \cap on_demand_tags # {} /\ tres[t] = None}

(* Every on-demand pool can serve every ticket that asks for one. *)
Interchangeable(tags) ==
  tags \cap on_demand_tags # {} => \A p \in pools_on_demand : tags \subseteq tag_set(p)

LEMMA BothAreFinite ==
  /\ IsFiniteSet(Unused) /\ Cardinality(Unused) \in Nat
  /\ IsFiniteSet(Unserved) /\ Cardinality(Unserved) \in Nat
<1>1. IsFiniteSet(Resources) /\ IsFiniteSet(Tickets)
  BY SizeAssumption, FS_Interval DEF Resources, Tickets
<1>2. Unused \in SUBSET Resources /\ Unserved \in SUBSET Tickets
  BY DEF Unused, Unserved
<1> QED BY <1>1, <1>2, FS_Subset, FS_CardinalityType

(* A ticket that the first pass cannot supply finds nothing left, so that  *)
(* each available resource was used up by another ticket.                  *)
LEMMA NothingIsLeft ==
  ASSUME NEW t \in tickets_to_solve, Interchangeable(ttags[t])
  PROVE  Cardinality(Available) = Cardinality(supplied(t - 1))
<1>1. t \in on_demand_tickets /\ supplying(t, already_existing[t - 1]) = {}
  BY DEF tickets_to_solve
<1>2. t - 1 \in 0..MaxTickets
  BY <1>1, SizeAssumption DEF on_demand_tickets, waiting, Tickets
<1>3. capable(t) = pools_on_demand
  BY <1>1 DEF capable, Interchangeable, on_demand_tickets
<1>4. PICK left \in SUBSET Available :
        /\ \A p \in pools_on_demand :
             Cardinality(left \cap in_pool(p)) = already_existing[t - 1][p]
        /\ Cardinality(left) + Cardinality(supplied(t - 1)) = Cardinality(Available)
  BY <1>2, EachUsesOne DEF LeftOver
<1>5. IsFiniteSet(left)
  BY SetsAreFinite, FS_Subset
<1>6. ASSUME NEW p \in pools_on_demand PROVE left \cap in_pool(p) = {}
  <2>1. ~(already_existing[t - 1][p] > 0)
    BY <1>1, <1>3 DEF supplying
  <2>2. IsFiniteSet(left \cap in_pool(p))
    BY <1>5, FS_Subset
  <2>3. Cardinality(left \cap in_pool(p)) = 0
    <3>1. Cardinality(left \cap in_pool(p)) \in Nat
      BY <2>2, FS_CardinalityType
    <3>2. Cardinality(left \cap in_pool(p)) = already_existing[t - 1][p]
      BY <1>4
    <3> QED BY <2>1, <3>1, <3>2
  <2> QED BY <2>2, <2>3, FS_EmptySet
<1>7. left = {}
  BY <1>6 DEF Available, in_pool
<1> QED BY <1>4, <1>7, FS_EmptySet, SetsAreFinite

(* With the resources that the decision starts there are still no more     *)
(* than tickets without one.                                               *)
LEMMA DecisionCounts ==
  ASSUME \A t \in Tickets : Interchangeable(ttags[t]),
         Cardinality(Unused) <= Cardinality(Unserved)
  PROVE  Cardinality(Unused) + Cardinality(triggered[MaxTickets]) <= Cardinality(Unserved)
<1>0. Cardinality(triggered[MaxTickets]) \in Nat /\ Cardinality(tickets_to_solve) \in Nat
  BY StartsAreFew, FS_CardinalityType
<1>1. CASE tickets_to_solve = {}
  <2>1. Cardinality(triggered[MaxTickets]) = 0
    BY <1>0, <1>1, StartsAreFew, FS_EmptySet
  <2> QED BY <2>1, BothAreFinite
<1>2. ASSUME NEW t \in tickets_to_solve
      PROVE  Cardinality(Unused) + Cardinality(triggered[MaxTickets]) <= Cardinality(Unserved)
  <2>1. tickets_to_solve \in SUBSET on_demand_tickets /\ on_demand_tickets \in SUBSET Tickets
    BY DEF tickets_to_solve, on_demand_tickets, waiting
  <2>2. Cardinality(Available) = Cardinality(supplied(t - 1))
    BY <2>1, NothingIsLeft
  <2>3. Cardinality(Unused) <= Cardinality(Available)
    <3>1. Unused \in SUBSET Available
      BY DEF Unused, NeverTaken, Available
    <3> QED BY <3>1, SetsAreFinite, FS_Subset
  <2>4. supplied(t - 1) \cap tickets_to_solve = {}
    BY DEF supplied, tickets_to_solve
  <2>5. IsFiniteSet(supplied(t - 1)) /\ Cardinality(supplied(t - 1)) \in Nat
    BY SetsAreFinite
  <2>6. Cardinality(supplied(t - 1) \cup tickets_to_solve)
          = Cardinality(supplied(t - 1)) + Cardinality(tickets_to_solve) - 0
    BY <2>4, <2>5, StartsAreFew, FS_Union, FS_EmptySet
  <2>7. Cardinality(supplied(t - 1) \cup tickets_to_solve) <= Cardinality(Unserved)
    <3>1. supplied(t - 1) \cup tickets_to_solve \in SUBSET Unserved
      BY <2>1 DEF supplied, Unserved, on_demand_tickets, waiting
    <3> QED BY <3>1, BothAreFinite, FS_Subset
  <2> QED BY <1>0, <2>2, <2>3, <2>5, <2>6, <2>7, BothAreFinite, StartsAreFew, SetsAreFinite
<1> QED BY <1>1, <1>2
-----------------------------------------------------------------------------
(* The starts of this cycle are still covered by tickets. *)
Covered(starts) ==
  /\ Cardinality(Unused) + Cardinality(starts) <= Cardinality(Unserved)
  /\ \A p \in pools_on_demand : demand[p] <= starts_in(p, starts)

Starting_phase == mpc \in {"removal", "gc", "alloc"}

OnDemandInv ==
  /\ Cardinality(Unused) <= Cardinality(Unserved)
  /\ Starting_phase => \E starts \in SUBSET (Tickets \X Pools) : Covered(starts)
  /\ mpc = "commit" /\ ttags[mpick.ticket] \cap on_demand_tags # {}
       => Cardinality(Unused \ {mpick.res}) < Cardinality(Unserved)
  /\ \A t \in Tickets : /\ tstate[t] = "NONE" => ttags[t] = {}
                        /\ Interchangeable(ttags[t])

(* The configurations that the count is right for *)
NotReused ==
  \A p \in pools_on_demand : ~Config[p].reuse /\ ~Config[p].cmd_release

InterchangeableRequests == \A request \in Requests : Interchangeable(request.tags)

LEMMA OneSize ==
  ASSUME Unused' \subseteq Unused, Unserved \subseteq Unserved'
  PROVE  /\ Cardinality(Unused') \in Nat /\ Cardinality(Unserved') \in Nat
         /\ Cardinality(Unused') <= Cardinality(Unused)
         /\ Cardinality(Unserved) <= Cardinality(Unserved')
         /\ \A r : Cardinality(Unused' \ {r}) <= Cardinality(Unused \ {r})
<1>1. IsFiniteSet(Unserved') /\ IsFiniteSet(Unused')
  <2>1. IsFiniteSet(Tickets)
    BY SizeAssumption, FS_Interval DEF Tickets
  <2>2. Unserved' \in SUBSET Tickets
    BY DEF Unserved
  <2> QED BY <2>1, <2>2, BothAreFinite, FS_Subset
<1>2. ASSUME NEW r PROVE Cardinality(Unused' \ {r}) <= Cardinality(Unused \ {r})
  <2>1. IsFiniteSet(Unused \ {r}) /\ Unused' \ {r} \in SUBSET (Unused \ {r})
    BY BothAreFinite, FS_RemoveElement
  <2> QED BY <2>1, FS_Subset
<1> QED BY <1>1, <1>2, BothAreFinite, FS_Subset, FS_CardinalityType

LEMMA NoneIsNew ==
  ASSUME NoNewSupply
  PROVE  Unused' \subseteq Unused
BY DEF NoNewSupply, Unused, NeverTaken

LEMMA StartsAreFinite ==
  ASSUME NEW starts \in SUBSET (Tickets \X Pools)
  PROVE  /\ IsFiniteSet(starts) /\ Cardinality(starts) \in Nat
         /\ \A p \in Pools : /\ IsFiniteSet({t \in Tickets : <<t, p>> \in starts})
                             /\ starts_in(p, starts) \in Nat
<1>1. IsFiniteSet(Tickets) /\ IsFiniteSet(Pools)
  BY SizeAssumption, FS_Interval DEF Tickets, Pools
<1>2. IsFiniteSet(starts)
  BY <1>1, FS_Product, FS_Subset
<1>3. ASSUME NEW p \in Pools PROVE IsFiniteSet({t \in Tickets : <<t, p>> \in starts})
  BY <1>1, FS_Subset
<1> QED BY <1>2, <1>3, FS_CardinalityType DEF starts_in

(* Steps that start nothing and serve nobody *)
LEMMA CountsStay ==
  ASSUME TypeInv, OnDemandInv, NoNewSupply, UNCHANGED tres,
         \A t \in Tickets :
           /\ tstate'[t] = "NONE" => tstate[t] = "NONE"
           /\ \/ ttags'[t] = ttags[t]
              \/ tstate[t] = "NONE" /\ tstate'[t] # "NONE" /\ Interchangeable(ttags'[t]),
         Starting_phase' => \/ Starting_phase /\ demand' = demand
                            \/ pools_on_demand = {},
         mpc' = "commit" => /\ mpc = "commit" /\ mpick' = mpick
                            /\ ttags'[mpick.ticket] = ttags[mpick.ticket]
  PROVE  OnDemandInv'
<1> USE DEF OnDemandInv
<1>1. Unserved \subseteq Unserved'
  BY DEF Unserved
<1>2. /\ Cardinality(Unused') \in Nat /\ Cardinality(Unserved') \in Nat
      /\ Cardinality(Unused') <= Cardinality(Unused)
      /\ Cardinality(Unserved) <= Cardinality(Unserved')
      /\ \A r : Cardinality(Unused' \ {r}) <= Cardinality(Unused \ {r})
  BY <1>1, NoneIsNew, OneSize
<1>3. Cardinality(Unused') <= Cardinality(Unserved')
  BY <1>2, BothAreFinite
<1>4. ASSUME Starting_phase' PROVE \E starts \in SUBSET (Tickets \X Pools) : Covered(starts)'
  <2>1. CASE Starting_phase /\ demand' = demand
    <3>1. PICK starts \in SUBSET (Tickets \X Pools) : Covered(starts)
      BY <2>1
    <3>2. Cardinality(Unused') + Cardinality(starts) <= Cardinality(Unserved')
      BY <1>2, <3>1, BothAreFinite, StartsAreFinite DEF Covered
    <3>3. Covered(starts)'
      BY <2>1, <3>1, <3>2 DEF Covered
    <3> QED BY <3>3
  <2>2. CASE pools_on_demand = {}
    <3>1. Cardinality(Unused') + Cardinality({}) <= Cardinality(Unserved')
      BY <1>2, <1>3, FS_EmptySet
    <3>2. Covered({})'
      BY <2>2, <3>1 DEF Covered
    <3> QED BY <3>2
  <2> QED BY <1>4, <2>1, <2>2
<1>5. ASSUME mpc' = "commit" /\ ttags'[mpick'.ticket] \cap on_demand_tags # {}
      PROVE  Cardinality(Unused' \ {mpick'.res}) < Cardinality(Unserved')
  <2>1. Cardinality(Unused \ {mpick.res}) < Cardinality(Unserved) /\ mpick' = mpick
    BY <1>5
  <2>2. /\ Cardinality(Unused \ {mpick.res}) \in Nat
        /\ Cardinality(Unused' \ {mpick.res}) \in Nat
    <3>1. IsFiniteSet(Unused \ {mpick.res}) /\ IsFiniteSet(Unused' \ {mpick.res})
      BY BothAreFinite, NoneIsNew, FS_Subset, FS_RemoveElement
    <3> QED BY <3>1, FS_CardinalityType
  <2>3. Cardinality(Unused' \ {mpick.res}) <= Cardinality(Unused \ {mpick.res})
    BY <1>2
  <2>4. Cardinality(Unused' \ {mpick.res}) < Cardinality(Unserved')
    BY <1>2, <2>1, <2>2, <2>3, BothAreFinite
  <2> QED BY <2>1, <2>4
<1>6. \A t \in Tickets : /\ tstate'[t] = "NONE" => ttags'[t] = {}
                         /\ Interchangeable(ttags'[t])
  <2> SUFFICES ASSUME NEW t \in Tickets
               PROVE  (tstate'[t] = "NONE" => ttags'[t] = {}) /\ Interchangeable(ttags'[t])
    OBVIOUS
  <2>1. (tstate[t] = "NONE" => ttags[t] = {}) /\ Interchangeable(ttags[t])
    OBVIOUS
  <2> QED BY <2>1
<1>7. \A t \in Tickets : Interchangeable(ttags'[t]) <=> Interchangeable(ttags[t])'
  BY DEF Interchangeable
<1> QED BY <1>3, <1>4, <1>5, <1>6, <1>7

-----------------------------------------------------------------------------
(* The decision: its starts are covered. *)
LEMMA DecideOnDemand ==
  ASSUME OnDemandInv, decide_where_to_start_on_demand_instances
  PROVE  OnDemandInv'
<1> USE DEF OnDemandInv
<1>0. PICK starts : starts = triggered[MaxTickets]
  OBVIOUS
<1>1. /\ UNCHANGED <<rstate, rpool, rticket, rreleases, tstate, ttags, tres>>
      /\ demand' = start_on_demand /\ mpc' = "removal"
  BY DEF decide_where_to_start_on_demand_instances, dbVars, resourceRows, ticketRows
<1>2. Unused' = Unused /\ Unserved' = Unserved
  BY <1>1 DEF Unused, NeverTaken, Unserved
<1>3. Cardinality(Unused) + Cardinality(starts) <= Cardinality(Unserved)
  BY <1>0, DecisionCounts
<1>4. starts \in SUBSET (Tickets \X Pools)
  BY <1>0, OneStartEach DEF StartsOf, tickets_to_solve, on_demand_tickets, waiting
<1>5. \A p \in pools_on_demand : demand'[p] = starts_in(p, starts)
  BY <1>0, <1>1 DEF start_on_demand, pools_on_demand
<1>6. ASSUME NEW p \in pools_on_demand PROVE demand'[p] <= starts_in(p, starts)
  <2>1. starts_in(p, starts) \in Nat
    BY <1>4, StartsAreFinite DEF pools_on_demand
  <2> QED BY <1>5, <2>1
<1>7. Covered(starts)'
  BY <1>2, <1>3, <1>6 DEF Covered
<1>8. \A t \in Tickets : /\ tstate'[t] = "NONE" => ttags'[t] = {}
                         /\ Interchangeable(ttags[t])'
  BY <1>1 DEF Interchangeable
<1> QED BY <1>1, <1>2, <1>4, <1>7, <1>8

(* A resource that is started uses up one of the starts of its pool. *)
LEMMA AllocateOnDemand ==
  ASSUME TypeInv, OnDemandInv, NEW r \in Resources, allocate(r)
  PROVE  OnDemandInv'
<1> USE DEF OnDemandInv
<1>1. /\ UNCHANGED <<rticket, rreleases, tstate, ttags, tres, mpc>> /\ mpc = "alloc"
      /\ rstate[r] = "NONE"
      /\ rstate' = [rstate EXCEPT ![r] = "STARTING"]
      /\ rpool' = [rpool EXCEPT ![r] = mpool]
      /\ demand' = [demand EXCEPT ![mpool] = @ - 1]
      /\ wants_more(mpool)
  BY DEF allocate, next_row, ticketRows
<1>2. mpool \in Pools /\ demand \in [Pools -> Int]
  BY DEF TypeInv, TypeOK, ManagerTypeOK
<1>3. Unserved' = Unserved
  BY <1>1 DEF Unserved
<1>4. \A q \in Resources : q # r => (NeverTaken(q)' <=> NeverTaken(q))
  BY <1>1 DEF NeverTaken, TypeInv, TypeOK, DatabaseTypeOK
<1>5. ~NeverTaken(r) /\ (NeverTaken(r)' => mpool \in pools_on_demand)
  BY <1>1 DEF NeverTaken, TypeInv, TypeOK, DatabaseTypeOK
<1>6. PICK starts \in SUBSET (Tickets \X Pools) : Covered(starts)
  BY <1>1 DEF Starting_phase
<1>7. \A p \in Pools : p # mpool => demand'[p] = demand[p]
  BY <1>1, <1>2
<1>8. \E left \in SUBSET (Tickets \X Pools) : Covered(left)'
  <2>1. CASE mpool \notin pools_on_demand
    <3>1. Unused' = Unused
      BY <1>4, <1>5, <2>1 DEF Unused
    <3>2. \A p \in pools_on_demand : demand'[p] = demand[p]
      BY <1>7, <2>1 DEF pools_on_demand
    <3>3. Covered(starts)'
      BY <1>3, <1>6, <3>1, <3>2 DEF Covered
    <3> QED BY <3>3
  <2>2. CASE mpool \in pools_on_demand
    <3>1. demand[mpool] > 0
      BY <1>1, <1>2, <2>2, OnDemandAssumption DEF wants_more, from_dict, pools_on_demand
    <3> DEFINE tickets == {t \in Tickets : <<t, mpool>> \in starts}
    <3>2. starts_in(mpool, starts) > 0
      <4>1. starts_in(mpool, starts) \in Nat /\ demand[mpool] \in Int
        BY <1>2, StartsAreFinite
      <4>2. demand[mpool] <= starts_in(mpool, starts)
        BY <1>6, <2>2 DEF Covered
      <4> QED BY <3>1, <4>1, <4>2
    <3>3. PICK t \in tickets : TRUE
      <4>1. starts_in(mpool, starts) = Cardinality(tickets)
        BY DEF starts_in
      <4> HIDE DEF tickets
      <4>2. tickets # {}
        BY <3>2, <4>1, FS_EmptySet
      <4> QED BY <4>2
    <3>l. PICK left : left = starts \ {<<t, mpool>>}
      OBVIOUS
    <3>4. Cardinality(left) = Cardinality(starts) - 1
      BY <3>3, <3>l, StartsAreFinite, FS_RemoveElement
    <3>5. starts_in(mpool, left) = starts_in(mpool, starts) - 1
      <4>1. {u \in Tickets : <<u, mpool>> \in left} = tickets \ {t}
        BY <3>l
      <4>2. IsFiniteSet(tickets)
        BY <1>2, StartsAreFinite
      <4>3. Cardinality(tickets \ {t}) = Cardinality(tickets) - 1
        BY <3>3, <4>2, FS_RemoveElement
      <4> QED BY <4>1, <4>3 DEF starts_in
    <3>6. ASSUME NEW p, p # mpool PROVE starts_in(p, left) = starts_in(p, starts)
      <4>1. {u \in Tickets : <<u, p>> \in left} = {u \in Tickets : <<u, p>> \in starts}
        BY <3>6, <3>l
      <4> QED BY <4>1 DEF starts_in
    <3>7. left \in SUBSET (Tickets \X Pools)
      BY <3>l
    <3>8. \A p \in pools_on_demand : demand'[p] <= starts_in(p, left)
      <4>1. demand[mpool] <= starts_in(mpool, starts)
        BY <1>6, <2>2 DEF Covered
      <4>2. demand'[mpool] = demand[mpool] - 1
        BY <1>1, <1>2
      <4>3. demand'[mpool] <= starts_in(mpool, left)
        <5>1. starts_in(mpool, starts) \in Nat /\ demand[mpool] \in Int
          BY <1>2, StartsAreFinite
        <5> QED BY <3>5, <4>1, <4>2, <5>1
      <4>4. \A p \in pools_on_demand : p # mpool => demand'[p] <= starts_in(p, left)
        BY <1>6, <1>7, <3>6 DEF Covered, pools_on_demand
      <4> QED BY <4>3, <4>4
    <3>9. Cardinality(Unused') = Cardinality(Unused) + 1
      <4>1. Unused' = Unused \cup {r} /\ r \notin Unused
        <5>1. NeverTaken(r)'
          BY <1>1, <1>2, <2>2 DEF NeverTaken, TypeInv, TypeOK, DatabaseTypeOK
        <5> QED BY <1>4, <1>5, <5>1 DEF Unused
      <4> QED BY <4>1, BothAreFinite, FS_AddElement
    <3>10. Cardinality(Unused') + Cardinality(left) <= Cardinality(Unserved')
      <4>1. Cardinality(Unused) + Cardinality(starts) <= Cardinality(Unserved)
        BY <1>6 DEF Covered
      <4> QED BY <1>3, <3>4, <3>9, <4>1, BothAreFinite, StartsAreFinite
    <3>11. Covered(left)'
      BY <3>8, <3>10 DEF Covered
    <3> QED BY <3>7, <3>11
  <2> QED BY <2>1, <2>2
<1>9. Cardinality(Unused') <= Cardinality(Unserved')
  <2>1. PICK left \in SUBSET (Tickets \X Pools) : Covered(left)'
    BY <1>8
  <2>2. Cardinality(left) \in Nat
    BY StartsAreFinite
  <2>3. Cardinality(Unused') \in Nat /\ Cardinality(Unserved') \in Nat
    <3>1. Unused' \subseteq Unused \cup {r}
      BY <1>4 DEF Unused
    <3>2. IsFiniteSet(Unused')
      BY <3>1, BothAreFinite, FS_AddElement, FS_Subset
    <3> QED BY <1>3, <3>2, BothAreFinite, FS_CardinalityType
  <2>4. Cardinality(Unused') + Cardinality(left) <= Cardinality(Unserved')
    BY <2>1 DEF Covered
  <2> QED BY <2>2, <2>3, <2>4
<1>10. \A t \in Tickets : /\ tstate'[t] = "NONE" => ttags'[t] = {}
                          /\ Interchangeable(ttags[t])'
  BY <1>1 DEF Interchangeable
<1>11. mpc' # "commit"
  BY <1>1
<1> QED BY <1>8, <1>9, <1>10, <1>11

(* An on-demand ticket is given an unused resource: only an on-demand pool *)
(* has its tags, and what was released before is not reused.               *)
LEMMA ReadOnDemand ==
  ASSUME NotReused, TypeInv, ReuseInv, OnDemandInv, NEW t \in Tickets, NEW r \in Resources,
         assign_ticket_read(t, r)
  PROVE  OnDemandInv'
<1> USE DEF OnDemandInv
<1>1. /\ UNCHANGED <<rstate, rpool, rticket, rreleases, tstate, ttags, tres>>
      /\ mpc = "assign" /\ mpc' = "commit" /\ mpick' = [ticket |-> t, res |-> r]
  BY DEF assign_ticket_read, dbVars, resourceRows, ticketRows
<1>2. Unused' = Unused /\ Unserved' = Unserved
  BY <1>1 DEF Unused, NeverTaken, Unserved
<1>3. /\ rpool[r] \in Pools /\ rstate[r] = "UP" /\ rticket[r] = None
      /\ ttags[t] \subseteq tag_set(rpool[r])
  BY DEF assign_ticket_read, best, usable, ready, up, in_pool
<1>4. ASSUME ttags[t] \cap on_demand_tags # {}
      PROVE  Cardinality(Unused \ {r}) < Cardinality(Unserved)
  <2>1. rpool[r] \in pools_on_demand
    BY <1>3, <1>4, ValidateAssumption DEF validate, tag_set, pools_on_demand
  <2>2. rreleases[r] = 0
    BY <1>1, <1>3, <2>1 DEF NotReused, ReuseInv, Passed, WithinLimit, cleaned
  <2>3. r \in Unused
    BY <1>3, <2>1, <2>2 DEF Unused, NeverTaken
  <2>4. Cardinality(Unused \ {r}) = Cardinality(Unused) - 1
    BY <2>3, BothAreFinite, FS_RemoveElement
  <2> QED BY <2>4, BothAreFinite
<1>5. \A u \in Tickets : /\ tstate'[u] = "NONE" => ttags'[u] = {}
                         /\ Interchangeable(ttags[u])'
  BY <1>1 DEF Interchangeable
<1>6. ~Starting_phase'
  BY <1>1 DEF Starting_phase
<1>7. mpc' = "commit" /\ ttags'[mpick'.ticket] \cap on_demand_tags # {}
        => Cardinality(Unused' \ {mpick'.res}) < Cardinality(Unserved')
  BY <1>1, <1>2, <1>4
<1> QED BY <1>2, <1>5, <1>6, <1>7

(* An assignment takes a resource away whenever it serves a ticket. *)
LEMMA CommitOnDemand ==
  ASSUME TypeInv, IInv, OnDemandInv, assign_ticket_commit
  PROVE  OnDemandInv'
<1> USE DEF OnDemandInv
<1> DEFINE t == mpick.ticket
           r == mpick.res
<1>1. t \in Tickets /\ r \in Resources /\ mpc = "commit"
  BY DEF TypeInv, PickKnown, assign_ticket_commit
<1>2. /\ UNCHANGED <<rstate, rpool, rreleases, tstate, ttags>>
      /\ rticket' = [rticket EXCEPT ![r] = t]
      /\ tres' = [tres EXCEPT ![t] = r]
  BY DEF assign_ticket_commit, assign_ticket
<1>3. mpc' \in {"assign", "closed"}
  BY DEF assign_ticket_commit, assign_next, FreshManager
<1>4. t # None /\ r # None
  BY <1>1, SizeAssumption DEF Tickets, Resources, None
<1>5. Unused' \subseteq Unused
  BY <1>1, <1>2, <1>4 DEF Unused, NeverTaken, TypeInv, TypeOK, DatabaseTypeOK
<1>6. Unserved' = Unserved \ {t}
  BY <1>1, <1>2, <1>4 DEF Unserved, TypeInv, TypeOK, DatabaseTypeOK
<1>7. Cardinality(Unused') <= Cardinality(Unserved')
  <2>1. CASE ttags[t] \cap on_demand_tags = {}
    <3>1. Unserved' = Unserved
      BY <1>6, <2>1 DEF Unserved
    <3>2. Cardinality(Unused') <= Cardinality(Unused) /\ Cardinality(Unused') \in Nat
      BY <1>5, BothAreFinite, FS_Subset, FS_CardinalityType
    <3> QED BY <3>1, <3>2, BothAreFinite
  <2>2. CASE ttags[t] \cap on_demand_tags # {}
    <3>1. Cardinality(Unused \ {r}) < Cardinality(Unserved)
      BY <1>1, <2>2
    <3>2. rstate[r] \in {"UP", "DELETE_REQUEST"}
      BY <1>1 DEF IInv, Picked, Undisturbed
    <3>3. Unused' \subseteq Unused \ {r}
      BY <1>1, <1>2, <1>4, <1>5, <3>2 DEF Unused, NeverTaken, TypeInv, TypeOK, DatabaseTypeOK
    <3>4. IsFiniteSet(Unused \ {r}) /\ Cardinality(Unused \ {r}) \in Nat
      BY BothAreFinite, FS_RemoveElement, FS_CardinalityType
    <3>5. Cardinality(Unused') <= Cardinality(Unused \ {r}) /\ Cardinality(Unused') \in Nat
      BY <3>3, <3>4, FS_Subset, FS_CardinalityType
    <3>6. Cardinality(Unserved') >= Cardinality(Unserved) - 1
      <4>1. Cardinality(Unserved \ {t}) = IF t \in Unserved THEN Cardinality(Unserved) - 1
                                          ELSE Cardinality(Unserved)
        BY BothAreFinite, FS_RemoveElement
      <4> QED BY <1>6, <4>1, BothAreFinite
    <3>7. Cardinality(Unserved') \in Nat
      BY <1>6, BothAreFinite, FS_RemoveElement, FS_CardinalityType
    <3> QED BY <3>1, <3>4, <3>5, <3>6, <3>7, BothAreFinite
  <2> QED BY <2>1, <2>2
<1>8. \A u \in Tickets : /\ tstate'[u] = "NONE" => ttags'[u] = {}
                         /\ Interchangeable(ttags[u])'
  BY <1>2 DEF Interchangeable
<1> QED BY <1>3, <1>7, <1>8 DEF Starting_phase


LEMMA ManagerOnDemand ==
  ASSUME NotReused, TypeInv, IInv, ReuseInv, ReleasedWereUsed, OnDemandInv, Manager_step
  PROVE  OnDemandInv'
<1>1. CASE decide_where_to_start_on_demand_instances
  BY <1>1, DecideOnDemand
<1>2. ASSUME NEW r \in Resources, allocate(r) PROVE OnDemandInv'
  BY <1>2, AllocateOnDemand
<1>3. ASSUME NEW t \in Tickets, NEW r \in Resources, assign_ticket_read(t, r)
      PROVE  OnDemandInv'
  BY <1>3, ReadOnDemand
<1>4. CASE assign_ticket_commit
  BY <1>4, CommitOnDemand
<1>5. ASSUME UNCHANGED <<ttags, tres>>,
             \A t \in Tickets : tstate'[t] = "NONE" => tstate[t] = "NONE",
             mpc' # "commit", \A r \in Resources : ~allocate(r),
             Starting_phase' => \/ Starting_phase /\ demand' = demand
                                \/ pools_on_demand = {}
      PROVE  OnDemandInv'
  <2>1. NoNewSupply
    BY <1>5, ManagerSupplies
  <2> QED BY <1>5, <2>1, CountsStay
<1>6. CASE detect_closed_tickets \/ detect_closed_tickets_commit
  <2>1. mpc' # "commit" /\ (Starting_phase' => pools_on_demand = {})
    BY <1>6 DEF detect_closed_tickets, detect_closed_tickets_commit, NextPool,
                decide_phase, Starting_phase
  <2>2. UNCHANGED <<tstate, ttags, tres>> /\ mpc \in {"closed", "release"}
    BY <1>6 DEF detect_closed_tickets, detect_closed_tickets_commit, dbVars, ticketRows
  <2>3. \A r \in Resources : ~allocate(r)
    BY <2>2 DEF allocate
  <2> QED BY <1>5, <2>1, <2>2, <2>3
<1>7. ASSUME NEW late, request_resource_removal(late) PROVE OnDemandInv'
  <2>1. /\ mpc = "removal" /\ mpc' = "gc" /\ UNCHANGED <<demand, ttags, tres>>
        /\ tstate' = killed_tickets(dead(mpool))
    BY <1>7 DEF request_resource_removal
  <2>2. \A t \in Tickets : tstate'[t] = "NONE" => tstate[t] = "NONE"
    BY <2>1 DEF killed_tickets
  <2>3. \A r \in Resources : ~allocate(r)
    BY <2>1 DEF allocate
  <2> QED BY <1>5, <2>1, <2>2, <2>3 DEF Starting_phase
<1>8. CASE garbage_collector \/ allocate_more_resources_break
  <2>1. /\ mpc \in {"gc", "alloc"} /\ mpc' # "commit"
        /\ UNCHANGED <<rstate, demand, tstate, ttags, tres>>
    BY <1>8 DEF garbage_collector, allocate_more_resources_break, NextPool, dbVars,
                resourceRows, ticketRows
  <2>2. \A r \in Resources : ~allocate(r)
    BY <2>1 DEF allocate, next_row, TypeInv, TypeOK, DatabaseTypeOK
  <2> QED BY <1>5, <2>1, <2>2 DEF Starting_phase
<1>9. CASE assign_tickets \/ \E t \in Tickets : assign_ticket_skip(t)
  <2>1. /\ UNCHANGED <<tstate, ttags, tres>> /\ mpc \in {"snapshot", "assign"}
        /\ mpc' \in {"assign", "closed"}
    BY <1>9 DEF assign_tickets, assign_ticket_skip, assign_next, FreshManager, dbVars,
                ticketRows
  <2>2. \A r \in Resources : ~allocate(r)
    BY <2>1 DEF allocate
  <2> QED BY <1>5, <2>1, <2>2 DEF Starting_phase
<1> QED BY <1>1, <1>2, <1>3, <1>4, <1>6, <1>7, <1>8, <1>9 DEF Manager_step, ManagerStep

LEMMA WorkerOnDemand ==
  ASSUME TypeInv, IInv, ReleasedWereUsed, OnDemandInv, NEW r \in Resources, Worker_step(r)
  PROVE  OnDemandInv'
<1>1. NoNewSupply
  BY WorkerSupplies
<1>2. UNCHANGED <<tstate, ttags, tres, mpc, demand, mpick>>
  BY DEF Worker_step, AllocWorker, AllocWorker_up, AllocWorker_failed, ReleaseWorker,
         ReleaseWorker_job, TerminateWorker, TerminateWorker_job, TerminateWorker_close,
         Worker_run_raises, dbVars, ticketRows, managerVars
<1> QED BY <1>1, <1>2, CountsStay DEF Starting_phase

LEMMA OtherOnDemand ==
  ASSUME InterchangeableRequests, TypeInv, IInv, ReleasedWereUsed, OnDemandInv, Next,
         ~Manager_step, \A r \in Resources : ~Worker_step(r)
  PROVE  OnDemandInv'
<1>1. NoNewSupply
  BY OtherSupplies
<1>2. /\ UNCHANGED tres
      /\ UNCHANGED <<mpc, demand, mpick>> \/ mpc' = "closed"
  BY DEF Next, takeTicket, closeTicket, Watcher_step, Watcher_loop, Watcher_check,
         resource_delete, resource_delete_kill, restart, FreshManager, dbVars, ticketRows,
         managerVars
<1>3. \A t \in Tickets :
        /\ tstate'[t] = "NONE" => tstate[t] = "NONE"
        /\ \/ ttags'[t] = ttags[t]
           \/ tstate[t] = "NONE" /\ tstate'[t] # "NONE" /\ Interchangeable(ttags'[t])
  <2>1. ASSUME NEW u \in Tickets, NEW request \in Requests, takeTicket(u, request)
        PROVE  \A t \in Tickets :
                 /\ tstate'[t] = "NONE" => tstate[t] = "NONE"
                 /\ \/ ttags'[t] = ttags[t]
                    \/ /\ tstate[t] = "NONE" /\ tstate'[t] # "NONE"
                       /\ Interchangeable(ttags'[t])
    <3>1. /\ tstate[u] = "NONE" /\ tstate' = [tstate EXCEPT ![u] = "OPEN"]
          /\ ttags' = [ttags EXCEPT ![u] = request.tags]
      BY <2>1 DEF takeTicket
    <3>2. Interchangeable(request.tags)
      BY DEF InterchangeableRequests
    <3> QED BY <3>1, <3>2 DEF TypeInv, TypeOK, DatabaseTypeOK
  <2>2. ASSUME NEW u \in Tickets, closeTicket(u)
        PROVE  /\ UNCHANGED ttags
               /\ \A t \in Tickets : tstate'[t] = "NONE" => tstate[t] = "NONE"
    BY <2>2 DEF closeTicket, TypeInv, TypeOK, DatabaseTypeOK
  <2>3. ASSUME NEW r \in Resources, resource_delete_kill(r)
        PROVE  /\ UNCHANGED ttags
               /\ \A t \in Tickets : tstate'[t] = "NONE" => tstate[t] = "NONE"
    BY <2>3 DEF resource_delete_kill, killed_tickets
  <2>4. CASE UNCHANGED <<tstate, ttags>>
    BY <2>4
  <2> QED BY <2>1, <2>2, <2>3, <2>4
          DEF Next, Watcher_step, Watcher_loop, Watcher_check, resource_delete, restart,
              dbVars, ticketRows
<1>4. ASSUME mpc' = "commit"
      PROVE  /\ mpc = "commit" /\ mpick' = mpick
             /\ ttags'[mpick.ticket] = ttags[mpick.ticket]
  <2>1. mpc = "commit" /\ mpick' = mpick
    BY <1>2, <1>4
  <2>2. mpick.ticket \in Tickets /\ tstate[mpick.ticket] # "NONE"
    BY <2>1 DEF TypeInv, PickKnown, IInv, Picked
  <2> QED BY <1>3, <2>1, <2>2
<1> QED BY <1>1, <1>2, <1>3, <1>4, CountsStay DEF Starting_phase

LEMMA StepOnDemand ==
  ASSUME NotReused, InterchangeableRequests
  PROVE  TypeInv /\ IInv /\ ReuseInv /\ QuotasInv /\ OnDemandInv /\ [Next]_vars => OnDemandInv'
<1>1. ASSUME TypeInv, OnDemandInv, UNCHANGED vars PROVE OnDemandInv'
  <2>1. UNCHANGED <<rstate, rpool, rticket, rreleases, tstate, ttags, tres, mpc, demand, mpick>>
    BY <1>1 DEF vars, dbVars, resourceRows, ticketRows, managerVars
  <2>2. NoNewSupply
    BY <2>1 DEF NoNewSupply
  <2> QED BY <1>1, <2>1, <2>2, CountsStay DEF Starting_phase
<1> QED BY <1>1, ManagerOnDemand, WorkerOnDemand, OtherOnDemand DEF QuotasInv

LEMMA InitOnDemand == Init => OnDemandInv
<1> SUFFICES ASSUME Init PROVE OnDemandInv OBVIOUS
<1>1. Unused = {} /\ mpc = "closed" /\ \A t \in Tickets : ttags[t] = {}
  BY DEF Init, DatabaseInit, FreshManager, Unused, NeverTaken
<1>2. Cardinality(Unused) <= Cardinality(Unserved)
  BY <1>1, BothAreFinite, FS_EmptySet
<1> QED BY <1>1, <1>2 DEF OnDemandInv, Starting_phase, Interchangeable

(* In on-demand pools that are not reused and can serve each other's       *)
(* tickets, the resources that are started and not yet taken are no more   *)
(* than the tickets without one: _decide_where_to_start_on_demand_         *)
(* instances() never counts a resource that starts, fails, is killed or is *)
(* left over from the last cycle twice.  When the tickets are not          *)
(* interchangeable it does (the run ondemand_mixed).                       *)
THEOREM NoNeedlessStarts ==
  ASSUME NotReused, InterchangeableRequests
  PROVE  Spec => []OneStartPerTicket
<1>1. OnDemandInv => OneStartPerTicket
  <2>1. Unused = {r \in UNION {on(p) : p \in pools_on_demand} :
                    \/ rstate[r] = "STARTING"
                    \/ rstate[r] = "UP" /\ rticket[r] = None /\ rreleases[r] = 0}
    BY DEF Unused, NeverTaken, on, in_pool
  <2> QED BY <2>1 DEF OnDemandInv, OneStartPerTicket, Unserved
<1>2. TypeInv /\ IInv /\ ReuseInv /\ QuotasInv /\ OnDemandInv /\ [Next]_vars => OnDemandInv'
  BY StepOnDemand
<1> QED BY <1>1, <1>2, InitOnDemand, InitQuotas, StepQuotas, ReuseInvariant, PTL DEF Spec
=============================================================================
