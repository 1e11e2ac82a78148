---------------------------- MODULE Notification ----------------------------
(***************************************************************************)
(* Who wakes whom in the resalloc server.  Threads that commit something   *)
(* the manager should look at call set() on an AtomicEvent afterwards      *)
(* (resallocserver/main.py); the manager tells the XML-RPC threads that    *)
(* wait for their tickets (resallocserver/api.py).  Tickets and resources  *)
(* are those of Allocator, which the server implements: only what a pass   *)
(* of the manager sees, and when, is added here.                           *)
(***************************************************************************)
EXTENDS Allocator, Naturals

CONSTANTS
  Threads,    \* XML-RPC threads that run waitTicket()
  WaitsFor,   \* the ticket each of them is asked for
  Requests,   \* the sandboxes clients ask for
  OnDemand,   \* tickets with an on-demand tag
  Closing,    \* the tickets that clients may close
  MaxFaults   \* bound of kills, failed workers and livechecks, and restarts

ASSUME TicketsAssumption == Tickets \subseteq Nat  \* ids grow
ASSUME WaitsForAssumption == WaitsFor \in [Threads -> Tickets]
ASSUME OnDemandAssumption == OnDemand \subseteq Tickets
ASSUME RequestsAssumption == Requests \subseteq Sandboxes \cup {NoSandbox}
ASSUME NoneAssumption == None \notin Tickets \cup Resources \cup Threads

VARIABLES
  event,     \* AtomicEvent.event of sync.ticket
  manager,   \* where the manager's pass is, or how it waits for the event
  queued,    \* tickets that waited when the pass began to assign
  todo,      \* those of them it still has to look at
  listed,    \* resource_ids: the resources ready when the pass began to assign
  pick,      \* the ticket about to be given the reserved resource, and its tid
  setters,   \* threads between their commit and their set()
  failing,   \* resources whose check_failed_count is not 0
  silent,    \* resources that became ready without a set()
  tid,       \* tickets.tid: the thread to notify
  sync_tid,  \* sync.tid: the thread the last notification is for
  wait,      \* where each thread is in waitTicket()
  faults     \* kills, failures and restarts so far

passVars == <<queued, todo, listed, pick>>
managerVars == <<event, manager, passVars>>
waiterVars == <<tid, sync_tid, wait>>
otherVars == <<setters, failing, faults>>
allVars == <<vars, managerVars, silent, waiterVars, otherVars>>

NoPick == [ticket |-> None, tid |-> None]

(* The pass, the event and the threads hold values of their types; a       *)
(* resource is given to a ticket, and a thread told, only if there is one. *)
NotificationTypeOK ==
  /\ event \in BOOLEAN
  /\ manager \in {"detect", "return", "list", "assign", "give", "tell", "notify",
                  "wait", "sleep", "woken"}
  /\ todo \subseteq queued /\ queued \subseteq Tickets /\ listed \subseteq Resources
  /\ pick \in [ticket : Tickets \cup {None}, tid : Threads \cup {None}]
  /\ manager = "give" => pick.ticket # None /\ \E r \in Resources : reserved = {r}
  /\ manager = "tell" => pick.tid # None
  /\ setters \subseteq (Tickets \X {"take", "close"}) \cup (Resources \X {"ready", "ended"})
  /\ failing \subseteq Resources /\ silent \subseteq Resources
  /\ tid \in [Tickets -> Threads \cup {None}]
  /\ sync_tid \in Threads \cup {None}
  /\ wait \in [Threads -> {"idle", "check", "gap", "blocked", "notified"}]
  /\ faults \in Nat

(* Manager.run() makes a pass before it waits for the first time. *)
NotificationInit ==
  /\ Init
  /\ event = FALSE /\ manager = "detect"
  /\ queued = {} /\ todo = {} /\ listed = {} /\ pick = NoPick
  /\ setters = {} /\ failing = {} /\ silent = {}
  /\ tid = [t \in Tickets |-> None] /\ sync_tid = None
  /\ wait = [w \in Threads |-> "idle"]
  /\ faults = 0

-----------------------------------------------------------------------------
(* What the manager finds in the tables *)

waiting == {t \in Tickets : ticket[t] = "OPEN" /\ given[t] = None}
ready == {r \in Resources : phase[r] = "up" /\ user[r] = None /\ r \notin failing}
used_by_closed(r) ==
  phase[r] = "up" /\ user[r] # None /\ ticket[user[r]] = "CLOSED"

(* A ticket has used it: it does not start any more. *)
used(r) == \E t \in Tickets : given[t] = r

Fault ==
  /\ faults < MaxFaults
  /\ faults' = faults + 1

-----------------------------------------------------------------------------
(* Threads that commit and then call set() *)

commits(thread) ==
  /\ setters' = setters \cup {thread}
  /\ UNCHANGED <<managerVars, failing, waiterVars>>

takeTicket(t) ==
  /\ \A u \in Tickets : u < t => ticket[u] # "NONE"
  /\ Take(t)
  /\ sandbox'[t] \in Requests
  /\ commits(<<t, "take">>)
  /\ UNCHANGED <<silent, faults>>

(* The client knows the ticket only when takeTicket() has returned. *)
closeTicket(t) ==
  /\ t \in Closing /\ <<t, "take">> \notin setters
  /\ Close(t)
  /\ commits(<<t, "close">>)
  /\ UNCHANGED <<silent, faults>>

(* AllocWorker, or ReleaseWorker after a cmd_release that succeeded, ... *)
Worker_up(r) ==
  /\ Ready(r)
  /\ commits(<<r, "ready">>)
  /\ silent' = silent \ {r}
  /\ UNCHANGED faults

(* ... or that failed: nobody is told that the resource is ready. *)
ReleaseWorker_failed(r) ==
  /\ used(r) /\ Ready(r) /\ Fault
  /\ UNCHANGED <<managerVars, setters, failing, waiterVars>>
  /\ silent' = silent \cup (ready' \ ready)

AllocWorker_failed(r) ==
  /\ ~used(r) /\ phase[r] = "busy" /\ Fault
  /\ Destroy(r)
  /\ commits(<<r, "ended">>)
  /\ UNCHANGED silent

(* QResources.kill(), by the pass or by a process that has no event to set *)
kill(r) ==
  /\ phase[r] = "up" /\ Fault
  /\ Kill({r})
  /\ UNCHANGED <<managerVars, setters, failing, silent, waiterVars>>

TerminateWorker(r) ==
  /\ phase[r] = "doomed"
  /\ Destroy(r)
  /\ commits(<<r, "ended">>)
  /\ UNCHANGED <<silent, faults>>

(* Mutant: set() without notify() *)
AtomicEvent_set_quiet(thread) ==
  /\ thread \in setters
  /\ setters' = setters \ {thread}
  /\ event' = TRUE
  /\ UNCHANGED <<vars, manager, passVars, failing, silent, waiterVars, faults>>

AtomicEvent_set(thread) ==
  /\ thread \in setters
  /\ setters' = setters \ {thread}
  /\ event' = TRUE
  /\ manager' = IF manager = "sleep" THEN "woken" ELSE manager
  /\ UNCHANGED <<vars, passVars, failing, silent, waiterVars, faults>>

-----------------------------------------------------------------------------
(* The Watcher: it has the manager's event, and does not set it. *)

(* to_check may be of any age when the turn of r comes: r was UP once, and *)
(* may be in any state when cmd_livecheck ends.                            *)
checked(r) == phase[r] = "busy" => used(r)

Watcher_failed(r) ==
  /\ checked(r) /\ Fault
  /\ failing' = failing \cup {r}
  /\ UNCHANGED <<vars, managerVars, setters, silent, waiterVars>>

Watcher_succeeded(r) ==
  /\ checked(r)
  /\ failing' = failing \ {r}
  /\ UNCHANGED <<vars, managerVars, setters, waiterVars, faults>>
  /\ silent' = silent \cup (ready' \ ready)

-----------------------------------------------------------------------------
(* AtomicEvent.wait(), called by the manager with the lock of cond *)

(* Mutant: the event is not tested before cond.wait() *)
AtomicEvent_wait_untested ==
  /\ manager = "wait"
  /\ manager' = "sleep"
  /\ UNCHANGED <<vars, event, passVars, silent, waiterVars, otherVars>>

AtomicEvent_wait ==
  /\ manager = "wait"
  /\ IF event THEN event' = FALSE /\ manager' = "detect"
              ELSE UNCHANGED event /\ manager' = "sleep"
  /\ UNCHANGED <<vars, passVars, silent, waiterVars, otherVars>>

AtomicEvent_timeout ==
  /\ manager = "sleep"
  /\ manager' = "woken"
  /\ UNCHANGED <<vars, event, passVars, silent, waiterVars, otherVars>>

(* Woken, the manager gets the lock again; threads may set() before that. *)
AtomicEvent_woken ==
  /\ manager = "woken"
  /\ event' = FALSE
  /\ manager' = "detect"
  /\ UNCHANGED <<vars, passVars, silent, waiterVars, otherVars>>

-----------------------------------------------------------------------------
(* A pass of the manager *)

detect_closed_tickets ==
  /\ manager = "detect"
  /\ Reserve({r \in Resources : used_by_closed(r)})
  /\ manager' = "return"
  /\ UNCHANGED <<event, passVars, silent, waiterVars, otherVars>>

detect_closed_tickets_commit ==
  /\ manager = "return"
  /\ \E cleaned \in BOOLEAN : Return(cleaned)
  /\ manager' = "list"
  /\ UNCHANGED <<event, passVars, silent, waiterVars, otherVars>>

assign_tickets ==
  /\ manager = "list"
  /\ queued' = waiting /\ todo' = waiting
  /\ listed' = ready
  /\ silent' = silent \ ready
  /\ manager' = "assign"
  /\ UNCHANGED <<vars, event, pick, waiterVars, otherVars>>

(* What a ticket may get; sandboxes stand for all the reasons it may not.  *)
serves(r, t) ==
  \A u \in Tickets : given[u] = r => sandbox[u] = sandbox[t] /\ sandbox[t] # NoSandbox

(* Mutant: the ready resources are queried for each ticket *)
candidates_requeried(t) == {r \in ready : serves(r, t)}

candidates(t) == {r \in ready \cap listed : serves(r, t)}

(* On-demand tickets have a higher priority, then the older ones. *)
before(u, t) ==
  \/ u \in OnDemand /\ t \notin OnDemand
  \/ (u \in OnDemand <=> t \in OnDemand) /\ u < t

next_ticket(t) == t \in todo /\ \A u \in todo : ~before(u, t)

(* The ticket is read before its thread registers, or after. *)
assign_ticket_read(t, r) ==
  /\ manager = "assign"
  /\ next_ticket(t)
  /\ r \in candidates(t)
  /\ Reserve({r})
  /\ pick' = [ticket |-> t, tid |-> tid[t]]
  /\ manager' = "give"
  /\ UNCHANGED <<event, queued, todo, listed, silent, waiterVars, otherVars>>

assign_ticket_skip(t) ==
  /\ manager = "assign"
  /\ next_ticket(t)
  /\ candidates(t) = {}
  /\ todo' = todo \ {t}
  /\ UNCHANGED <<vars, event, manager, queued, listed, pick, silent, waiterVars, otherVars>>

(* Mutant: threads are woken whether or not one is registered *)
assign_ticket_commit_tell ==
  /\ manager = "give"
  /\ \E r \in reserved : Give(pick.ticket, r)
  /\ todo' = todo \ {pick.ticket}
  /\ manager' = "tell"
  /\ UNCHANGED <<event, queued, listed, pick, silent, waiterVars, otherVars>>

assign_ticket_commit ==
  /\ manager = "give"
  /\ \E r \in reserved : Give(pick.ticket, r)
  /\ todo' = todo \ {pick.ticket}
  /\ manager' = IF pick.tid # None THEN "tell" ELSE "assign"
  /\ UNCHANGED <<event, queued, listed, pick, silent, waiterVars, otherVars>>

(* Manager._notify_waiting(): sync.tid is written without the lock ... *)
notify_waiting_tid ==
  /\ manager = "tell"
  /\ sync_tid' = pick.tid
  /\ manager' = "notify"
  /\ UNCHANGED <<vars, event, passVars, silent, tid, wait, otherVars>>

(* ... and all threads are woken with it. *)
notify_all ==
  /\ manager = "notify"
  /\ wait' = [w \in Threads |-> IF wait[w] = "blocked" THEN "notified" ELSE wait[w]]
  /\ manager' = "assign"
  /\ UNCHANGED <<vars, event, passVars, silent, tid, sync_tid, otherVars>>

assign_tickets_done ==
  /\ manager = "assign"
  /\ todo = {}
  /\ manager' = "wait"
  /\ queued' = {} /\ listed' = {} /\ pick' = NoPick
  /\ UNCHANGED <<vars, event, todo, silent, waiterVars, otherVars>>

-----------------------------------------------------------------------------
(* ServerAPI.waitTicket(); a thread whose call returned may be called again *)

wait_step(w, from, to) ==
  /\ wait[w] = from
  /\ wait' = [wait EXCEPT ![w] = to]
  /\ UNCHANGED <<vars, managerVars, silent, tid, sync_tid, otherVars>>

(* The thread registers itself; of two threads the later one counts. *)
waitTicket(w) ==
  LET t == WaitsFor[w]
  IN  /\ wait[w] = "idle"
      /\ ticket[t] # "NONE" /\ <<t, "take">> \notin setters
      /\ tid' = [tid EXCEPT ![t] = w]
      /\ wait' = [wait EXCEPT ![w] = "check"]
      /\ UNCHANGED <<vars, managerVars, silent, sync_tid, otherVars>>

waitTicket_check(w) ==
  wait_step(w, "check", IF given[WaitsFor[w]] # None THEN "idle" ELSE "gap")

waitTicket_block(w) == wait_step(w, "gap", "blocked")

(* Notified, it looks who is meant: itself, or it waits again. *)
waitTicket_notified(w) ==
  wait_step(w, "notified", IF sync_tid = w THEN "check" ELSE "blocked")

(* Mutant: it waits again, as if somebody else had been notified *)
waitTicket_timeout_ignored(w) == wait_step(w, "blocked", "blocked")

(* After 10 seconds without any notification it looks by itself. *)
waitTicket_timeout(w) == wait_step(w, "blocked", "check")

-----------------------------------------------------------------------------
(* The server stops anywhere, also between a commit and its set().  Its    *)
(* threads are lost; the columns, tid among them, stay.                    *)
restart ==
  /\ Fault
  /\ \E R \in SUBSET Resources : Recover(R)
  /\ event' = FALSE /\ manager' = "detect"
  /\ queued' = {} /\ todo' = {} /\ listed' = {} /\ pick' = NoPick
  /\ setters' = {}
  /\ sync_tid' = None
  /\ wait' = [w \in Threads |-> "idle"]
  /\ UNCHANGED <<failing, silent, tid>>

Pass ==
  \/ detect_closed_tickets \/ detect_closed_tickets_commit \/ assign_tickets
  \/ \E t \in Tickets, r \in Resources : assign_ticket_read(t, r)
  \/ \E t \in Tickets : assign_ticket_skip(t)
  \/ assign_ticket_commit \/ notify_waiting_tid \/ notify_all \/ assign_tickets_done
  \/ AtomicEvent_wait \/ AtomicEvent_woken

Workers ==
  \E r \in Resources : \/ Worker_up(r) \/ AllocWorker_failed(r)
                       \/ ReleaseWorker_failed(r) \/ TerminateWorker(r) \/ kill(r)

Watcher == \E r \in Resources : Watcher_failed(r) \/ Watcher_succeeded(r)

Set == \E thread \in setters : AtomicEvent_set(thread)

waitTicket_step(w) ==
  waitTicket_check(w) \/ waitTicket_block(w) \/ waitTicket_notified(w)

NotificationNext ==
  \/ Pass \/ Workers \/ Watcher \/ Set \/ AtomicEvent_timeout \/ restart
  \/ \E t \in Tickets : takeTicket(t) \/ closeTicket(t)
  \/ \E w \in Threads : waitTicket(w) \/ waitTicket_step(w) \/ waitTicket_timeout(w)

NotificationSpec == NotificationInit /\ [][NotificationNext]_allVars

(* Threads run, and waitTicket() waits for 10 seconds at most unless it is *)
(* notified.  The manager's timeout is not fair: what it promises, it      *)
(* keeps without it.  Workers, the watcher, clients and failures are not   *)
(* fair either.                                                            *)
NotificationFairSpec ==
  /\ NotificationSpec
  /\ WF_allVars(Pass)
  /\ WF_allVars(Set)
  /\ \A w \in Threads : WF_allVars(waitTicket_step(w) \/ waitTicket_timeout(w))

-----------------------------------------------------------------------------
(* What the next pass would do: give a ticket a resource that is ready     *)
(* and, unless it became so silently, announced; or take back what a       *)
(* closed ticket used.                                                     *)
servable(t) == t \in waiting /\ \E r \in ready \ silent : serves(r, t)

work == \/ \E t \in Tickets : servable(t)
        \/ \E r \in Resources : used_by_closed(r)

(* No wake-up is lost: the manager sleeps until its timeout only when      *)
(* there is nothing to do or a thread that has committed something is      *)
(* about to set the event, also when the commit, the set() or a restart    *)
(* fell into the middle of a pass.  Resources that became ready without a  *)
(* set(), after a failed cmd_release or when a livecheck succeeds again,   *)
(* are excepted: they wait for the timeout.                                *)
SleepsOnlyWhenIdle == manager = "sleep" /\ work => setters # {}

(* The order of _assign_tickets(), on demand first and then by age: a      *)
(* ticket gets no resource that a waiting one before it could use, if that *)
(* one is older or was on the list, even when the resource becomes ready   *)
(* between their turns.  Excepted is a resource that a livecheck took off  *)
(* and gave back between the turns.                                        *)
NoOvertaking ==
  [][\A t, u \in Tickets :
       before(u, t) /\ u \in waiting /\ (u < t \/ u \in queued) /\ given'[t] # given[t]
         => \A r \in Resources \ silent : given'[t] = r => ~serves(r, u)]_allVars

(* What can be done is done without the manager's timeout. *)
ServedPromptly == work ~> ~work

(* waitTicket() returns once its ticket has a resource, whatever became of *)
(* the notification, also when sync.tid is overwritten by another one      *)
(* before the thread looks, unless the server stops.                       *)
WaiterReturns ==
  \A w \in Threads :
    (wait[w] # "idle" /\ given[WaitsFor[w]] # None) ~> (wait[w] = "idle")
=============================================================================
