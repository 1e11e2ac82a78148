------------------------------ MODULE Allocator ------------------------------
(***************************************************************************)
(* What the resalloc server promises about tickets and resources, without  *)
(* the threads, rows and hooks that keep the promise.  It is the contract  *)
(* of resallocserver/api.py with the clients and of config/pools.yaml with *)
(* the owners of the pools; Server is shown to implement it.               *)
(***************************************************************************)
CONSTANTS
  Tickets, Resources,
  Sandboxes,  \* names of sandboxes: tickets of one may share resources
  NoSandbox,  \* the ticket does not share its resource
  None        \* no ticket, no resource

VARIABLES
  ticket,    \* "NONE", "OPEN", "FAILED" or "CLOSED"
  sandbox,   \* the sandbox each ticket asks for
  given,     \* the resource each ticket has been given
  phase,     \* "busy" (not usable now), "up", "doomed" or "gone"
  user,      \* the ticket each resource works for
  reserved   \* resources about to be given to a ticket, or taken back

vars == <<ticket, sandbox, given, phase, user, reserved>>

Init ==
  /\ ticket = [t \in Tickets |-> "NONE"]
  /\ sandbox = [t \in Tickets |-> NoSandbox]
  /\ given = [t \in Tickets |-> None]
  /\ phase = [r \in Resources |-> "busy"]
  /\ user = [r \in Resources |-> None]
  /\ reserved = {}

Held(r) == \E t \in Tickets : ticket[t] = "OPEN" /\ given[t] = r

(* A client takes a ticket for some sandbox, or closes one. *)
Take(t) ==
  /\ ticket[t] = "NONE"
  /\ ticket' = [ticket EXCEPT ![t] = "OPEN"]
  /\ \E s \in Sandboxes \cup {NoSandbox} : sandbox' = [sandbox EXCEPT ![t] = s]
  /\ UNCHANGED <<given, phase, user, reserved>>

Close(t) ==
  /\ ticket[t] \in {"OPEN", "FAILED"}
  /\ ticket' = [ticket EXCEPT ![t] = "CLOSED"]
  /\ UNCHANGED <<sandbox, given, phase, user, reserved>>

(* A resource becomes usable, for the first time or again. *)
Ready(r) ==
  /\ phase[r] = "busy"
  /\ user[r] = None
  /\ phase' = [phase EXCEPT ![r] = "up"]
  /\ UNCHANGED <<ticket, sandbox, given, user, reserved>>

(* Only usable resources are given or taken back.  A reserved one may be   *)
(* killed meanwhile, but it is not destroyed.                              *)
Reserve(R) ==
  /\ reserved = {}
  /\ \A r \in R : phase[r] = "up"
  /\ reserved' = R
  /\ UNCHANGED <<ticket, sandbox, given, phase, user>>

(* A ticket gets one resource, once, that works for nobody and has worked  *)
(* only for tickets of the same sandbox.                                   *)
Give(t, r) ==
  /\ reserved = {r}
  /\ ticket[t] # "NONE" /\ given[t] = None /\ user[r] = None
  /\ \A u \in Tickets : given[u] = r => sandbox[u] = sandbox[t] /\ sandbox[t] # NoSandbox
  /\ given' = [given EXCEPT ![t] = r]
  /\ user' = [user EXCEPT ![r] = t]
  /\ reserved' = {}
  /\ UNCHANGED <<ticket, sandbox, phase>>

(* What closed tickets used is taken back, cleaned or left as it is. *)
Return(cleaned) ==
  /\ \A r \in reserved : user[r] # None /\ ticket[user[r]] = "CLOSED"
  /\ user' = [r \in Resources |-> IF r \in reserved THEN None ELSE user[r]]
  /\ phase' = [r \in Resources |-> IF r \in reserved /\ cleaned THEN "busy" ELSE phase[r]]
  /\ reserved' = {}
  /\ UNCHANGED <<ticket, sandbox, given>>

(* Resources are doomed at any time; the holders of their tickets are told *)
(* in the same step.                                                       *)
Kill(R) ==
  /\ ticket' = [t \in Tickets |-> IF given[t] \in R /\ ticket[t] = "OPEN"
                                  THEN "FAILED" ELSE ticket[t]]
  /\ phase' = [r \in Resources |-> IF r \in R /\ phase[r] = "up"
                                   THEN "doomed" ELSE phase[r]]
  /\ UNCHANGED <<sandbox, given, user, reserved>>

(* What an open ticket holds, or is about to get, is not destroyed; what   *)
(* is up is doomed first.                                                  *)
Destroy(r) ==
  /\ phase[r] # "up"
  /\ ~Held(r)
  /\ r \notin reserved
  /\ phase' = [phase EXCEPT ![r] = "gone"]
  /\ UNCHANGED <<ticket, sandbox, given, user, reserved>>

(* The server restarts: what was busy or half destroyed is doomed. *)
Recover(R) ==
  /\ \A r \in R : phase[r] \in {"busy", "gone"}
  /\ phase' = [r \in Resources |-> IF r \in R THEN "doomed" ELSE phase[r]]
  /\ reserved' = {}
  /\ UNCHANGED <<ticket, sandbox, given, user>>

Next ==
  \/ \E t \in Tickets : Take(t) \/ Close(t)
  \/ \E r \in Resources : Ready(r) \/ Destroy(r)
  \/ \E t \in Tickets, r \in Resources : Give(t, r)
  \/ \E cleaned \in BOOLEAN : Return(cleaned)
  \/ \E R \in SUBSET Resources : Reserve(R) \/ Kill(R) \/ Recover(R)

Spec == Init /\ [][Next]_vars
=============================================================================
