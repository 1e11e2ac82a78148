------------------------- MODULE NotificationSafety -------------------------
(***************************************************************************)
(* The manager's sleep loses no wake-up and a pass keeps the order of      *)
(* tickets, for any number of tickets, resources, threads and failures.    *)
(*                                                                         *)
(* What the next pass would do is covered when the event is set or a       *)
(* thread is about to set it.  The invariant says, for each place of a     *)
(* pass, that what is not covered is still before the pass: it sits among  *)
(* the reserved resources or on the lists todo and listed.                 *)
(***************************************************************************)
EXTENDS Notification, TLAPS

AllocatorTypeOK ==
  /\ ticket \in [Tickets -> {"NONE", "OPEN", "FAILED", "CLOSED"}]
  /\ sandbox \in [Tickets -> Sandboxes \cup {NoSandbox}]
  /\ given \in [Tickets -> Resources \cup {None}]
  /\ phase \in [Resources -> {"busy", "up", "doomed", "gone"}]
  /\ user \in [Resources -> Tickets \cup {None}]
  /\ reserved \subseteq Resources

Types == AllocatorTypeOK /\ NotificationTypeOK

(* Older tickets were taken before newer ones, and got nothing before. *)
TakenInOrder ==
  /\ \A t, u \in Tickets : u < t /\ ticket[t] # "NONE" => ticket[u] # "NONE"
  /\ \A t \in Tickets : ticket[t] = "NONE" => given[t] = None

(* u comes before t, and the pass cannot have missed it. *)
ahead(u, t) == before(u, t) /\ (u < t \/ u \in queued)

assigning == manager \in {"assign", "give", "tell", "notify"}
covered == event \/ setters # {}

ClosedCovered ==
  manager \in {"return", "list", "assign", "give", "tell", "notify", "wait", "sleep"}
    => \A r \in Resources :
         used_by_closed(r) => covered \/ (manager = "return" /\ r \in reserved)

ServableCovered ==
  assigning \/ manager \in {"wait", "sleep"}
    => \A t \in waiting, r \in ready \ silent :
         serves(r, t) => covered \/ (assigning /\ t \in todo /\ r \in listed)

(* The lists of a pass. *)
Lists ==
  assigning =>
    /\ \A t \in queued : ticket[t] # "NONE"
    /\ \A t \in todo : ticket[t] = "CLOSED" => covered
    /\ \A r \in listed : phase[r] # "busy"
    /\ \A u \in waiting \ todo, t \in todo, r \in (listed \cap ready) \ silent :
         ahead(u, t) => ~serves(r, u)

Reserved ==
  manager = "give" =>
    /\ pick.ticket \in todo
    /\ reserved \subseteq listed \cap {r \in Resources : user[r] = None}
    /\ \A u \in waiting, r \in reserved \ silent : ahead(u, pick.ticket) => ~serves(r, u)

Sleeping == manager = "sleep" => ~event

IInv ==
  /\ Types
  /\ TakenInOrder
  /\ ClosedCovered
  /\ ServableCovered
  /\ Lists
  /\ Reserved
  /\ Sleeping

LEMMA InitInv == NotificationInit => IInv
<1> SUFFICES ASSUME NotificationInit PROVE IInv
  OBVIOUS
<1> USE NoneAssumption DEF NotificationInit, Init
<1>1. Types
  BY DEF Types, AllocatorTypeOK, NotificationTypeOK, NoPick
<1>2. TakenInOrder
  BY DEF TakenInOrder
<1>3. ClosedCovered /\ ServableCovered /\ Lists /\ Reserved /\ Sleeping
  BY DEF ClosedCovered, ServableCovered, Lists, Reserved, Sleeping, assigning
<1> QED BY <1>1, <1>2, <1>3 DEF IInv

-----------------------------------------------------------------------------
(* Steps that only waitTicket(), the Watcher and the event see *)

LEMMA QuietStep ==
  ASSUME IInv, Types', UNCHANGED <<vars, managerVars, setters>>,
         silent \subseteq silent', ready' \ silent' \subseteq ready \ silent
  PROVE  IInv'
<1> USE DEF vars, managerVars, passVars
<1>1. TakenInOrder' /\ Sleeping'
  BY DEF IInv, TakenInOrder, Sleeping
<1>2. ClosedCovered'
  BY DEF IInv, ClosedCovered, covered, used_by_closed
<1>3. waiting' = waiting /\ \A r, u : serves(r, u)' <=> serves(r, u)
  BY DEF waiting, serves
<1>4. \A u, t : ahead(u, t)' <=> ahead(u, t)
  BY DEF ahead, before
<1>5. ServableCovered'
  BY <1>3 DEF IInv, ServableCovered, assigning, covered
<1>6. Lists'
  BY <1>3, <1>4 DEF IInv, Lists, assigning, covered
<1>7. Reserved'
  BY <1>3, <1>4 DEF IInv, Reserved
<1> QED BY <1>1, <1>2, <1>5, <1>6, <1>7 DEF IInv

LEMMA WaiterStep ==
  ASSUME IInv, NEW w \in Threads,
         waitTicket(w) \/ waitTicket_step(w) \/ waitTicket_timeout(w)
  PROVE  IInv'
<1> USE DEF otherVars
<1> DEFINE Pcs == {"idle", "check", "gap", "blocked", "notified"}
<1>1. \/ waitTicket(w)
      \/ \E from, to \in Pcs : wait_step(w, from, to)
  BY DEF waitTicket_step, waitTicket_check, waitTicket_block, waitTicket_notified,
         waitTicket_timeout
<1>2. UNCHANGED <<vars, managerVars, setters, silent, failing>>
  BY <1>1 DEF waitTicket, wait_step
<1>3. Types'
  <2>1. AllocatorTypeOK'
    BY <1>2 DEF IInv, Types, AllocatorTypeOK, vars
  <2>2. tid' \in [Tickets -> Threads \cup {None}] /\ wait' \in [Threads -> Pcs]
    BY <1>1, WaitsForAssumption DEF IInv, Types, NotificationTypeOK, waitTicket, wait_step
  <2>3. sync_tid' = sync_tid /\ faults' = faults
    BY <1>1 DEF waitTicket, wait_step
  <2> QED BY <1>2, <2>1, <2>2, <2>3
          DEF IInv, Types, NotificationTypeOK, vars, managerVars, passVars
<1>4. ready' = ready
  BY <1>2 DEF ready, vars
<1> QED BY <1>2, <1>3, <1>4, QuietStep

(* What a failed livecheck hides is not ready; what a later one shows is   *)
(* ready silently.                                                         *)
LEMMA WatcherStep ==
  ASSUME IInv, NEW r \in Resources, Watcher_failed(r) \/ Watcher_succeeded(r)
  PROVE  IInv'
<1> USE DEF Watcher_failed, Watcher_succeeded, Fault
<1>1. UNCHANGED <<vars, managerVars, setters, waiterVars>>
  OBVIOUS
<1>2. silent \subseteq silent' /\ ready' \ silent' \subseteq ready \ silent
  BY DEF ready, vars
<1>3. silent' \subseteq Resources /\ failing' \subseteq Resources /\ faults' \in Nat
  BY DEF IInv, Types, NotificationTypeOK, ready
<1>4. Types'
  BY <1>1, <1>3 DEF IInv, Types, AllocatorTypeOK, NotificationTypeOK, vars, managerVars,
     passVars, waiterVars
<1> QED BY <1>1, <1>2, <1>4, QuietStep

LEMMA EventStep ==
  ASSUME IInv,
         \/ \E thread \in setters : AtomicEvent_set(thread)
         \/ AtomicEvent_wait \/ AtomicEvent_timeout \/ AtomicEvent_woken
  PROVE  IInv'
<1> USE DEF waiterVars, otherVars, passVars
<1>1. UNCHANGED <<vars, silent, failing, queued, todo, listed, pick>>
  BY DEF AtomicEvent_set, AtomicEvent_wait, AtomicEvent_timeout, AtomicEvent_woken
<1>2. Types'
  BY DEF IInv, Types, AllocatorTypeOK, NotificationTypeOK, vars, AtomicEvent_set,
         AtomicEvent_wait, AtomicEvent_timeout, AtomicEvent_woken
<1>3. TakenInOrder'
  BY <1>1 DEF IInv, TakenInOrder, vars
<1>4. \/ manager' \in {"detect", "woken"}
      \/ manager' = "sleep" /\ manager = "wait" /\ ~event /\ UNCHANGED <<event, setters>>
      \/ manager' = manager /\ manager # "sleep" /\ event'
  BY DEF AtomicEvent_set, AtomicEvent_wait, AtomicEvent_timeout, AtomicEvent_woken
<1>5. ClosedCovered' /\ ServableCovered'
  BY <1>1, <1>4 DEF IInv, ClosedCovered, ServableCovered, assigning, covered,
     used_by_closed, waiting, ready, serves, vars
<1>6. Lists' /\ Reserved' /\ Sleeping'
  BY <1>1, <1>4 DEF IInv, Lists, Reserved, Sleeping, assigning, covered, waiting, ready,
     serves, vars, ahead, before
<1> QED BY <1>2, <1>3, <1>5, <1>6 DEF IInv

-----------------------------------------------------------------------------
(* Commits of clients and workers, and kills.  They find the event covered *)
(* by their own set(), or create nothing to do.                            *)

LEMMA TakeStep ==
  ASSUME IInv, NEW t \in Tickets, takeTicket(t)
  PROVE  IInv'
<1> USE DEF takeTicket, Take, commits, managerVars, passVars, waiterVars
<1>1. Types'
  BY DEF IInv, Types, AllocatorTypeOK, NotificationTypeOK
<1>2. ticket[t] = "NONE" /\ ticket' = [ticket EXCEPT ![t] = "OPEN"] /\ covered'
  BY DEF covered
<1>3. given[t] = None /\ t \in Tickets /\ \A u \in Tickets : u < t => ticket[u] # "NONE"
  BY <1>2 DEF IInv, TakenInOrder
<1>4. TakenInOrder'
  BY <1>2, <1>3, TicketsAssumption
     DEF IInv, TakenInOrder, Types, AllocatorTypeOK
<1>5. \A r \in Resources, u \in Tickets : u # t => (serves(r, u)' <=> serves(r, u))
  BY <1>3, NoneAssumption DEF serves, IInv, Types, AllocatorTypeOK
<1>6. waiting' = waiting \cup {t} /\ ready' = ready
  BY <1>2, <1>3 DEF waiting, ready, IInv, Types, AllocatorTypeOK
<1>7. ClosedCovered' /\ ServableCovered' /\ Sleeping'
  BY <1>2 DEF ClosedCovered, ServableCovered, IInv, Sleeping
<1>8. assigning => t \notin queued /\ \A u \in todo : u \in Tickets /\ ~(t < u)
  BY <1>2, TicketsAssumption
     DEF IInv, Lists, TakenInOrder, Types, NotificationTypeOK
<1>9. assigning => \A u \in todo : ~ahead(t, u)' /\ \A v \in Tickets : ahead(v, u)' <=> ahead(v, u)
  BY <1>8 DEF ahead, before
<1>10. Lists'
  <2>1. SUFFICES ASSUME assigning' PROVE Lists!2'
    BY DEF Lists
  <2>2. assigning /\ UNCHANGED <<queued, todo, listed, silent>>
    BY <2>1 DEF assigning
  <2>3. \A u \in queued : ticket'[u] # "NONE"
    BY <2>2, <1>2 DEF IInv, Lists, Types, AllocatorTypeOK, NotificationTypeOK
  <2>4. \A r \in listed : phase'[r] # "busy"
    BY <2>2 DEF IInv, Lists
  <2>5. ASSUME NEW u \in waiting' \ todo', NEW v \in todo',
               NEW r \in (listed \cap ready)' \ silent', ahead(u, v)'
        PROVE  ~serves(r, u)'
    <3>1. u # t /\ u \in waiting \ todo /\ v \in todo /\ r \in (listed \cap ready) \ silent
      BY <1>6, <1>9, <2>2, <2>5
    <3>2. ahead(u, v) /\ u \in Tickets
      BY <1>9, <2>2, <2>5, <3>1 DEF waiting
    <3>3. ~serves(r, u)
      BY <3>1, <3>2, <2>2 DEF IInv, Lists
    <3> QED BY <3>1, <3>2, <3>3, <1>5 DEF ready
  <2> QED BY <2>2, <2>3, <2>4, <2>5, <1>2
<1>11. Reserved'
  <2>1. SUFFICES ASSUME manager' = "give" PROVE Reserved!2'
    BY DEF Reserved
  <2>2. manager = "give" /\ assigning /\ pick.ticket \in todo
    BY <2>1 DEF IInv, Reserved, assigning
  <2>3. ASSUME NEW u \in waiting', NEW r \in reserved' \ silent', ahead(u, pick.ticket)'
        PROVE  ~serves(r, u)'
    <3>1. u # t /\ u \in waiting /\ r \in reserved \ silent /\ r \in Resources
      BY <1>6, <1>9, <2>2, <2>3 DEF IInv, Types, AllocatorTypeOK
    <3>2. ahead(u, pick.ticket) /\ u \in Tickets
      BY <1>9, <2>2, <2>3, <3>1 DEF waiting
    <3> QED BY <3>1, <3>2, <1>5, <2>2 DEF IInv, Reserved
  <2> QED BY <2>2, <2>3 DEF IInv, Reserved
<1> QED BY <1>1, <1>4, <1>7, <1>10, <1>11 DEF IInv

LEMMA CloseStep ==
  ASSUME IInv, NEW t \in Tickets, closeTicket(t)
  PROVE  IInv'
<1> USE DEF closeTicket, Close, commits, managerVars, passVars, waiterVars
<1>1. Types'
  BY DEF IInv, Types, AllocatorTypeOK, NotificationTypeOK
<1>2. ticket' = [ticket EXCEPT ![t] = "CLOSED"] /\ ticket[t] # "NONE" /\ covered'
  BY DEF covered
<1>3. TakenInOrder'
  BY <1>2 DEF IInv, TakenInOrder, Types, AllocatorTypeOK
<1>4. waiting' \subseteq waiting /\ ready' = ready
  BY <1>2 DEF waiting, ready, IInv, Types, AllocatorTypeOK
<1>5. \A r \in Resources, u \in Tickets : serves(r, u)' <=> serves(r, u)
  BY DEF serves
<1>6. ClosedCovered' /\ ServableCovered' /\ Sleeping'
  BY <1>2 DEF ClosedCovered, ServableCovered, IInv, Sleeping
<1>7. Lists'
  BY <1>2, <1>4, <1>5 DEF IInv, Lists, assigning, ready, waiting, Types, AllocatorTypeOK,
     NotificationTypeOK, ahead, before
<1>8. Reserved'
  BY <1>4, <1>5 DEF IInv, Reserved, waiting, Types, AllocatorTypeOK, ahead, before
<1> QED BY <1>1, <1>3, <1>6, <1>7, <1>8 DEF IInv

(* What a worker or a kill does to one resource. *)
LEMMA ResourceStep ==
  ASSUME IInv, Types', NEW r \in Resources, NEW s \in {"up", "doomed", "gone"},
         phase' = [phase EXCEPT ![r] = s],
         s = "up" => phase[r] = "busy" /\ user[r] = None,
         s = "up" => covered' \/ r \in silent' \/ r \notin ready',
         silent \ {r} \subseteq silent', s # "up" => silent \subseteq silent',
         setters \subseteq setters',
         \A t \in Tickets : \/ ticket'[t] = ticket[t]
                            \/ ticket[t] = "OPEN" /\ ticket'[t] = "FAILED" /\ given[t] = r,
         UNCHANGED <<sandbox, given, user, reserved, managerVars, failing>>
  PROVE  IInv'
<1> USE DEF managerVars, passVars
<1>1. TakenInOrder'
  BY DEF IInv, TakenInOrder
<1>2. waiting' = waiting
  BY NoneAssumption DEF waiting
<1>3. \A q \in ready' : q \in ready \/ (q = r /\ s = "up")
  BY DEF ready, IInv, Types, AllocatorTypeOK
<1>4. \A q \in Resources, u \in Tickets : serves(q, u)' <=> serves(q, u)
  BY DEF serves
<1>5. covered => covered'
  BY DEF covered
<1>6. \A q \in Resources : used_by_closed(q)' => used_by_closed(q)
  BY NoneAssumption DEF used_by_closed, IInv, Types, AllocatorTypeOK
<1>7. ClosedCovered' /\ Sleeping'
  BY <1>5, <1>6 DEF IInv, ClosedCovered, Sleeping
<1>8. ServableCovered'
  BY <1>2, <1>3, <1>4, <1>5 DEF IInv, ServableCovered, assigning, ready, waiting
<1>9. \A u, t : ahead(u, t)' <=> ahead(u, t)
  BY DEF ahead, before
<1>10. assigning /\ s = "up" => r \notin listed
  BY DEF IInv, Lists
<1>11. Lists'
  <2>1. SUFFICES ASSUME assigning PROVE Lists!2'
    BY DEF Lists, assigning
  <2>2. \A t \in queued : ticket'[t] # "NONE"
    BY <2>1 DEF IInv, Lists, Types, NotificationTypeOK
  <2>3. \A t \in todo : ticket'[t] = "CLOSED" => covered'
    BY <1>5, <2>1 DEF IInv, Lists, Types, NotificationTypeOK
  <2>4. \A q \in listed : phase'[q] # "busy"
    BY <2>1 DEF IInv, Lists, Types, AllocatorTypeOK, NotificationTypeOK
  <2>5. ASSUME NEW q \in (listed \cap ready') \ silent'
        PROVE  q \in (listed \cap ready) \ silent /\ q \in Resources
    BY <1>3, <1>10, <2>1 DEF ready
  <2>6. \A u \in waiting \ todo, t \in todo, q \in (listed \cap ready') \ silent' :
          ahead(u, t)' => ~serves(q, u)'
    BY <1>4, <1>9, <2>1, <2>5 DEF IInv, Lists, waiting
  <2> QED BY <1>2, <2>2, <2>3, <2>4, <2>6
<1>12. Reserved'
  <2>1. manager = "give" => assigning /\ (s = "up" => r \notin reserved)
    BY <1>10 DEF IInv, Reserved, assigning
  <2>2. manager = "give" => \A q \in reserved \ silent' : q \in reserved \ silent /\ q \in Resources
    BY <2>1 DEF IInv, Types, AllocatorTypeOK
  <2> QED BY <1>2, <1>4, <1>9, <2>2 DEF IInv, Reserved, waiting
<1> QED BY <1>1, <1>7, <1>8, <1>11, <1>12 DEF IInv

LEMMA WorkerStep ==
  ASSUME IInv, NEW r \in Resources,
         \/ Worker_up(r) \/ AllocWorker_failed(r) \/ ReleaseWorker_failed(r)
         \/ TerminateWorker(r) \/ kill(r)
  PROVE  IInv'
<1> USE DEF commits, Fault, managerVars, passVars, waiterVars
<1>1. CASE kill(r)
  <2> USE DEF kill, Kill
  <2>1. Types'
    BY <1>1 DEF IInv, Types, AllocatorTypeOK, NotificationTypeOK
  <2>2. phase' = [phase EXCEPT ![r] = "doomed"]
    BY <1>1 DEF IInv, Types, AllocatorTypeOK
  <2>3. \A t \in Tickets : \/ ticket'[t] = ticket[t]
                           \/ ticket[t] = "OPEN" /\ ticket'[t] = "FAILED" /\ given[t] = r
    BY <1>1
  <2> QED BY <1>1, <2>1, <2>2, <2>3, ResourceStep
<1>2. CASE Worker_up(r)
  <2> USE DEF Worker_up, Ready
  <2>1. Types'
    BY <1>2 DEF IInv, Types, AllocatorTypeOK, NotificationTypeOK
  <2> QED BY <1>2, <2>1, ResourceStep DEF covered
<1>3. CASE ReleaseWorker_failed(r)
  <2> USE DEF ReleaseWorker_failed, Ready
  <2>1. silent' \subseteq Resources /\ silent \subseteq silent'
    BY <1>3 DEF ready, IInv, Types, NotificationTypeOK
  <2>2. Types'
    BY <1>3, <2>1 DEF IInv, Types, AllocatorTypeOK, NotificationTypeOK
  <2>3. r \in silent' \/ r \notin ready'
    BY <1>3 DEF ready
  <2> QED BY <1>3, <2>1, <2>2, <2>3, ResourceStep
<1>4. CASE AllocWorker_failed(r) \/ TerminateWorker(r)
  <2> USE DEF AllocWorker_failed, TerminateWorker, Destroy
  <2>1. Types'
    BY <1>4 DEF IInv, Types, AllocatorTypeOK, NotificationTypeOK
  <2> QED BY <1>4, <2>1, ResourceStep
<1> QED BY <1>1, <1>2, <1>3, <1>4

-----------------------------------------------------------------------------
(* The pass *)

LEMMA DetectStep ==
  ASSUME IInv, detect_closed_tickets \/ detect_closed_tickets_commit
  PROVE  IInv'
<1> USE DEF waiterVars, otherVars, passVars
<1>1. CASE detect_closed_tickets
  <2> USE DEF detect_closed_tickets, Reserve
  <2>1. Types'
    BY <1>1 DEF IInv, Types, AllocatorTypeOK, NotificationTypeOK
  <2>2. TakenInOrder'
    BY <1>1 DEF IInv, TakenInOrder
  <2>3. ClosedCovered'
    BY <1>1 DEF ClosedCovered, used_by_closed
  <2>4. ServableCovered' /\ Lists' /\ Reserved' /\ Sleeping'
    BY <1>1 DEF ServableCovered, Lists, Reserved, Sleeping, assigning
  <2> QED BY <2>1, <2>2, <2>3, <2>4 DEF IInv
<1>2. CASE detect_closed_tickets_commit
  <2>1. PICK cleaned \in BOOLEAN : Return(cleaned)
    BY <1>2 DEF detect_closed_tickets_commit
  <2> USE DEF detect_closed_tickets_commit, Return
  <2>2. Types'
    <3>1. AllocatorTypeOK'
      BY <1>2, <2>1 DEF IInv, Types, AllocatorTypeOK
    <3>2. NotificationTypeOK'
      BY <1>2, <2>1 DEF IInv, Types, NotificationTypeOK
    <3> QED BY <3>1, <3>2 DEF Types
  <2>3. TakenInOrder'
    BY <1>2, <2>1 DEF IInv, TakenInOrder
  <2>4. \A r \in Resources : used_by_closed(r)' => used_by_closed(r) /\ r \notin reserved
    BY <2>1 DEF used_by_closed, IInv, Types, AllocatorTypeOK
  <2>5. ClosedCovered'
    BY <1>2, <2>4 DEF IInv, ClosedCovered, covered
  <2>6. ServableCovered' /\ Lists' /\ Reserved' /\ Sleeping'
    BY <1>2 DEF ServableCovered, Lists, Reserved, Sleeping, assigning
  <2> QED BY <2>2, <2>3, <2>5, <2>6 DEF IInv
<1> QED BY <1>1, <1>2

LEMMA ListStep ==
  ASSUME IInv, assign_tickets
  PROVE  IInv'
<1> USE DEF assign_tickets, waiterVars, otherVars, vars
<1>1. Types'
  BY DEF IInv, Types, AllocatorTypeOK, NotificationTypeOK, waiting, ready
<1>2. TakenInOrder'
  BY DEF IInv, TakenInOrder
<1>3. ClosedCovered'
  BY DEF IInv, ClosedCovered, used_by_closed, covered
<1>4. waiting' = waiting /\ ready' = ready
  BY DEF waiting, ready
<1>5. ServableCovered' /\ Lists'
  BY <1>4 DEF ServableCovered, Lists, assigning, waiting, ready
<1>6. Reserved' /\ Sleeping'
  BY DEF Reserved, Sleeping
<1> QED BY <1>1, <1>2, <1>3, <1>5, <1>6 DEF IInv

LEMMA ReadStep ==
  ASSUME IInv, NEW t \in Tickets, NEW r \in Resources, assign_ticket_read(t, r)
  PROVE  IInv'
<1> USE DEF assign_ticket_read, Reserve, waiterVars, otherVars
<1>1. r \in ready \cap listed /\ serves(r, t) /\ t \in todo /\ \A u \in todo : ~before(u, t)
  BY DEF candidates, next_ticket
<1>2. Types'
  BY NoneAssumption DEF IInv, Types, AllocatorTypeOK, NotificationTypeOK
<1>3. TakenInOrder'
  BY DEF IInv, TakenInOrder
<1>4. ClosedCovered' /\ Sleeping'
  BY DEF IInv, ClosedCovered, Sleeping, used_by_closed, covered
<1>5. waiting' = waiting /\ ready' = ready
  BY DEF waiting, ready
<1>6. \A q \in Resources, u \in Tickets : serves(q, u)' <=> serves(q, u)
  BY DEF serves
<1>7. assigning /\ assigning' /\ covered' = covered
  BY DEF assigning, covered
<1>8. ServableCovered'
  BY <1>5, <1>6, <1>7 DEF IInv, ServableCovered, waiting, ready
<1>9. Lists'
  BY <1>5, <1>6, <1>7 DEF IInv, Lists, Types, NotificationTypeOK, waiting, ready, ahead,
     before
<1>10. Reserved'
  <2>1. \A u \in waiting : ahead(u, t) => u \notin todo
    BY <1>1 DEF ahead
  <2>2. r \notin silent => \A u \in waiting : ahead(u, t) => ~serves(r, u)
    BY <1>1, <1>7, <2>1 DEF IInv, Lists
  <2> QED BY <1>1, <1>5, <1>6, <2>2 DEF Reserved, ready, waiting, ahead, before
<1> QED BY <1>2, <1>3, <1>4, <1>8, <1>9, <1>10 DEF IInv

LEMMA SkipStep ==
  ASSUME IInv, NEW t \in Tickets, assign_ticket_skip(t)
  PROVE  IInv'
<1> USE DEF assign_ticket_skip, waiterVars, otherVars, vars
<1>1. Types'
  BY DEF IInv, Types, AllocatorTypeOK, NotificationTypeOK
<1>2. TakenInOrder'
  BY DEF IInv, TakenInOrder
<1>3. ClosedCovered' /\ Sleeping' /\ Reserved'
  BY DEF IInv, ClosedCovered, Sleeping, Reserved, used_by_closed, covered
<1>4. waiting' = waiting /\ ready' = ready
  BY DEF waiting, ready
<1>5. \A q \in Resources, u \in Tickets : serves(q, u)' <=> serves(q, u)
  BY DEF serves
<1>6. assigning /\ assigning' /\ covered' = covered
  BY DEF assigning, covered
<1>7. \A q \in ready \cap listed : ~serves(q, t)
  BY DEF candidates
<1>8. ServableCovered'
  BY <1>4, <1>5, <1>6, <1>7 DEF IInv, ServableCovered, waiting, ready
<1>9. Lists'
  BY <1>4, <1>5, <1>6, <1>7 DEF IInv, Lists, Types, NotificationTypeOK, waiting, ready,
     ahead, before
<1> QED BY <1>1, <1>2, <1>3, <1>8, <1>9 DEF IInv

(* Giving r to t takes r from the ready resources and t from those that    *)
(* wait; no resource serves a ticket it did not serve before.              *)
LEMMA CommitStep ==
  ASSUME IInv, assign_ticket_commit
  PROVE  IInv'
<1> DEFINE t == pick.ticket
<1>1. PICK r \in reserved : Give(t, r)
  BY DEF assign_ticket_commit
<1> USE DEF assign_ticket_commit, Give, waiterVars, otherVars
<1>2. t \in Tickets /\ t \in todo /\ r \in Resources /\ user[r] = None /\ given[t] = None
  BY <1>1 DEF IInv, Reserved, Types, AllocatorTypeOK, NotificationTypeOK
<1>3. Types'
  BY <1>1, <1>2 DEF IInv, Types, AllocatorTypeOK, NotificationTypeOK
<1>4. TakenInOrder'
  BY <1>1, <1>2 DEF IInv, TakenInOrder, Types, AllocatorTypeOK
<1>5. assigning /\ assigning' /\ covered' = covered
  BY DEF assigning, covered
<1>6. waiting' \subseteq waiting \ {t} /\ ready' \subseteq ready
  BY <1>1, <1>2, NoneAssumption DEF waiting, ready, IInv, Types, AllocatorTypeOK
<1>7. \A q \in Resources, u \in Tickets : serves(q, u)' => serves(q, u)
  BY <1>1, <1>2, NoneAssumption DEF serves, IInv, Types, AllocatorTypeOK
<1>8. ClosedCovered'
  <2>1. ticket[t] = "CLOSED" => covered
    BY <1>2, <1>5 DEF IInv, Lists
  <2>2. \A q \in Resources : used_by_closed(q)' => used_by_closed(q) \/ ticket[t] = "CLOSED"
    BY <1>1, <1>2 DEF used_by_closed, IInv, Types, AllocatorTypeOK
  <2>3. \A q \in Resources : used_by_closed(q) => covered
    BY DEF IInv, ClosedCovered
  <2> QED BY <2>1, <2>2, <2>3, <1>5 DEF ClosedCovered
<1>9. ServableCovered'
  BY <1>1, <1>5, <1>6, <1>7 DEF IInv, ServableCovered, waiting, ready
<1>10. Lists'
  <2>1. \A u \in queued' : ticket'[u] # "NONE"
    BY <1>1, <1>5 DEF IInv, Lists
  <2>2. \A u \in todo' : ticket'[u] = "CLOSED" => covered'
    BY <1>1, <1>5 DEF IInv, Lists
  <2>3. \A q \in listed' : phase'[q] # "busy"
    BY <1>1, <1>5 DEF IInv, Lists
  <2>4. \A u \in (waiting \ todo)', v \in todo', q \in (listed \cap ready)' \ silent' :
          ahead(u, v)' => ~serves(q, u)'
    BY <1>1, <1>5, <1>6, <1>7 DEF IInv, Lists, waiting, ready, ahead, before
  <2> QED BY <2>1, <2>2, <2>3, <2>4 DEF Lists
<1>11. Reserved' /\ Sleeping'
  BY DEF Reserved, Sleeping
<1> QED BY <1>3, <1>4, <1>8, <1>9, <1>10, <1>11 DEF IInv

LEMMA TellStep ==
  ASSUME IInv, notify_waiting_tid \/ notify_all \/ assign_tickets_done
  PROVE  IInv'
<1> USE DEF notify_waiting_tid, notify_all, assign_tickets_done, waiterVars, otherVars,
            passVars, vars
<1>1. Types'
  <2>1. CASE notify_waiting_tid \/ assign_tickets_done
    BY <2>1 DEF IInv, Types, AllocatorTypeOK, NotificationTypeOK, NoPick
  <2>2. CASE notify_all
    <3>1. wait' \in [Threads -> {"idle", "check", "gap", "blocked", "notified"}]
      BY <2>2 DEF IInv, Types, NotificationTypeOK
    <3> QED BY <2>2, <3>1 DEF IInv, Types, AllocatorTypeOK, NotificationTypeOK
  <2> QED BY <2>1, <2>2
<1>2. TakenInOrder'
  BY DEF IInv, TakenInOrder
<1>3. ClosedCovered' /\ Sleeping' /\ Reserved'
  BY DEF IInv, ClosedCovered, Sleeping, Reserved, used_by_closed, covered
<1>4. waiting' = waiting /\ ready' = ready
  BY DEF waiting, ready
<1>5. \A q \in Resources, u \in Tickets : serves(q, u)' <=> serves(q, u)
  BY DEF serves
<1>6. assigning /\ covered' = covered
  BY DEF assigning, covered
<1>7. ServableCovered'
  BY <1>4, <1>5, <1>6 DEF IInv, ServableCovered, assigning, waiting, ready
<1>8. Lists'
  BY <1>4, <1>5, <1>6 DEF IInv, Lists, assigning, waiting, ready, Types,
     NotificationTypeOK, ahead, before
<1> QED BY <1>1, <1>2, <1>3, <1>7, <1>8 DEF IInv

LEMMA RestartStep ==
  ASSUME IInv, restart
  PROVE  IInv'
<1>1. PICK R \in SUBSET Resources : Recover(R)
  BY DEF restart
<1> USE DEF restart, Fault, Recover
<1>2. Types'
  <2>1. AllocatorTypeOK'
    BY <1>1 DEF IInv, Types, AllocatorTypeOK
  <2>2. NotificationTypeOK'
    <3>1. wait' \in [Threads -> {"idle", "check", "gap", "blocked", "notified"}]
      OBVIOUS
    <3>2. pick' \in [ticket : Tickets \cup {None}, tid : Threads \cup {None}]
      BY DEF NoPick
    <3>3. faults' \in Nat /\ sync_tid' \in Threads \cup {None}
      BY DEF IInv, Types, NotificationTypeOK
    <3> QED BY <3>1, <3>2, <3>3 DEF IInv, Types, NotificationTypeOK
  <2> QED BY <2>1, <2>2 DEF Types
<1>3. TakenInOrder'
  BY <1>1 DEF IInv, TakenInOrder
<1>4. ClosedCovered' /\ ServableCovered' /\ Lists' /\ Reserved' /\ Sleeping'
  BY DEF ClosedCovered, ServableCovered, Lists, Reserved, Sleeping, assigning
<1> QED BY <1>2, <1>3, <1>4 DEF IInv

LEMMA NextInv ==
  ASSUME IInv, [NotificationNext]_allVars
  PROVE  IInv'
<1>1. CASE Pass
  BY <1>1, DetectStep, ListStep, ReadStep, SkipStep, CommitStep, TellStep, EventStep
     DEF Pass
<1>2. CASE Workers \/ Watcher \/ Set \/ AtomicEvent_timeout \/ restart
  BY <1>2, WorkerStep, WatcherStep, EventStep, RestartStep DEF Workers, Watcher, Set
<1>3. CASE \E t \in Tickets : takeTicket(t) \/ closeTicket(t)
  BY <1>3, TakeStep, CloseStep
<1>4. CASE \E w \in Threads : waitTicket(w) \/ waitTicket_step(w) \/ waitTicket_timeout(w)
  BY <1>4, WaiterStep
<1>5. CASE UNCHANGED allVars
  <2>1. Types'
    BY <1>5 DEF IInv, Types, AllocatorTypeOK, NotificationTypeOK, allVars, vars,
       managerVars, passVars, waiterVars, otherVars
  <2> QED BY <1>5, <2>1, QuietStep DEF allVars, otherVars, ready, vars
<1> QED BY <1>1, <1>2, <1>3, <1>4, <1>5 DEF NotificationNext

(* IInv is an inductive invariant of Notification. *)
THEOREM Invariance == NotificationSpec => []IInv
<1> QED BY InitInv, NextInv, PTL DEF NotificationSpec

(* The flag, the threads about to set it, the tables of the Synchronizer   *)
(* and the lists of a pass of the manager have their types.                *)
THEOREM NotificationTypes == NotificationSpec => []NotificationTypeOK
BY Invariance, PTL DEF IInv, Types

-----------------------------------------------------------------------------
(* AtomicEvent.wait() and set() lose no wake-up: the manager sleeps until  *)
(* its timeout only when there is nothing to do or somebody is about to    *)
(* set the event; but for resources that became ready silently.            *)
THEOREM NoWakeupIsLost == NotificationSpec => []SleepsOnlyWhenIdle
<1>1. IInv => SleepsOnlyWhenIdle
  BY DEF IInv, SleepsOnlyWhenIdle, ClosedCovered, ServableCovered, Sleeping, covered,
     assigning, work, servable
<1> QED BY <1>1, Invariance, PTL

(* The order of _assign_tickets() is kept, because the ids of tickets and  *)
(* of ready resources are read once, when it begins.                       *)
THEOREM TicketsInOrder == NotificationSpec => NoOvertaking
<1> DEFINE InOrder ==
      \A t, u \in Tickets :
        before(u, t) /\ u \in waiting /\ (u < t \/ u \in queued) /\ given'[t] # given[t]
          => \A r \in Resources \ silent : given'[t] = r => ~serves(r, u)
<1>1. ASSUME IInv, [NotificationNext]_allVars PROVE InOrder
  <2>1. CASE assign_ticket_commit
    <3>1. PICK r \in reserved : Give(pick.ticket, r)
      BY <2>1 DEF assign_ticket_commit
    <3>2. given' = [given EXCEPT ![pick.ticket] = r]
      BY <3>1 DEF Give
    <3>3. r \notin silent => \A u \in waiting : ahead(u, pick.ticket) => ~serves(r, u)
      BY <1>1, <2>1 DEF IInv, Reserved, assign_ticket_commit
    <3> QED BY <1>1, <3>2, <3>3 DEF IInv, Types, AllocatorTypeOK, ahead
  <2>2. CASE ~assign_ticket_commit
    <3>1. given' = given
      BY <1>1, <2>2 DEF NotificationNext, allVars, vars, Pass, Workers, Watcher, Set, restart,
         detect_closed_tickets, detect_closed_tickets_commit, assign_tickets,
         assign_ticket_read, assign_ticket_skip, notify_waiting_tid, notify_all,
         assign_tickets_done, AtomicEvent_wait, AtomicEvent_woken, AtomicEvent_set,
         AtomicEvent_timeout, Worker_up, AllocWorker_failed, ReleaseWorker_failed,
         TerminateWorker, kill, Watcher_failed, Watcher_succeeded, takeTicket, closeTicket,
         waitTicket, waitTicket_step, waitTicket_check, waitTicket_block,
         waitTicket_notified, waitTicket_timeout, wait_step, Reserve, Return, Ready,
         Destroy, Kill, Take, Close, Recover
    <3> QED BY <3>1
  <2> QED BY <2>1, <2>2
<1> QED BY <1>1, Invariance, PTL DEF NotificationSpec, NoOvertaking

-----------------------------------------------------------------------------
(* The contract alone, whoever implements it                               *)

(* What a client with an open ticket relies on: the resource it was given  *)
(* works for this ticket and is not destroyed, and was used by no ticket   *)
(* outside its sandbox.                                                    *)
Promise ==
  \A t \in Tickets : ticket[t] = "OPEN" /\ given[t] # None =>
    /\ user[given[t]] = t
    /\ phase[given[t]] \in {"up", "doomed"}
    /\ \A u \in Tickets \ {t} :
         given[u] = given[t] => sandbox[u] = sandbox[t] /\ sandbox[t] # NoSandbox

ContractInv ==
  /\ AllocatorTypeOK
  /\ \A t \in Tickets : ticket[t] = "NONE" => given[t] = None
  /\ \A r \in reserved : phase[r] \in {"up", "doomed"}
  /\ \A t \in Tickets : ticket[t] = "OPEN" /\ given[t] # None =>
       user[given[t]] = t /\ phase[given[t]] \in {"up", "doomed"}
  /\ \A t, u \in Tickets : t # u /\ given[t] # None /\ given[u] = given[t] =>
       sandbox[u] = sandbox[t] /\ sandbox[t] # NoSandbox

LEMMA StepContract == ContractInv /\ [Next]_vars => ContractInv'
<1> SUFFICES ASSUME ContractInv, [Next]_vars PROVE ContractInv'
  OBVIOUS
<1> USE NoneAssumption DEF ContractInv, AllocatorTypeOK
<1>1. ASSUME NEW t \in Tickets, Take(t) PROVE ContractInv'
  BY <1>1 DEF Take
<1>2. ASSUME NEW t \in Tickets, Close(t) PROVE ContractInv'
  BY <1>2 DEF Close
<1>3. ASSUME NEW r \in Resources, Ready(r) PROVE ContractInv'
  BY <1>3 DEF Ready
<1>4. ASSUME NEW r \in Resources, Destroy(r) PROVE ContractInv'
  BY <1>4 DEF Destroy, Held
<1>5. ASSUME NEW t \in Tickets, NEW r \in Resources, Give(t, r) PROVE ContractInv'
  BY <1>5 DEF Give
<1>6. ASSUME NEW cleaned \in BOOLEAN, Return(cleaned) PROVE ContractInv'
  BY <1>6 DEF Return
<1>7. ASSUME NEW R \in SUBSET Resources, Reserve(R) PROVE ContractInv'
  BY <1>7 DEF Reserve
<1>8. ASSUME NEW R \in SUBSET Resources, Kill(R) PROVE ContractInv'
  BY <1>8 DEF Kill
<1>9. ASSUME NEW R \in SUBSET Resources, Recover(R) PROVE ContractInv'
  BY <1>9 DEF Recover
<1>10. CASE UNCHANGED vars
  BY <1>10 DEF vars
<1> QED BY <1>1, <1>2, <1>3, <1>4, <1>5, <1>6, <1>7, <1>8, <1>9, <1>10 DEF Next

(* Allocator's rules suffice for its clients: whatever implements them, as *)
(* the server does, lets an open ticket keep a working resource of its own *)
(* and isolates sandboxes.                                                 *)
THEOREM ContractKept == Spec => []Promise
<1>1. Init => ContractInv
  BY DEF Init, ContractInv, AllocatorTypeOK
<1>2. ContractInv => Promise
  BY DEF ContractInv, Promise
<1> QED BY <1>1, <1>2, StepContract, PTL DEF Spec
=============================================================================
