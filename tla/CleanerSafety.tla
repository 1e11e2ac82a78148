--------------------------- MODULE CleanerSafety ---------------------------
(***************************************************************************)
(* Proofs about Cleaner: for any number of resources, strangers and        *)
(* faults, the CleanUnknownWorker deletes only what nobody uses.           *)
(***************************************************************************)
EXTENDS Cleaner, TLAPS

(* Only machines of rows are listed, and a row stays: this is what makes   *)
(* a listed machine that is not in a later list of the known rows an       *)
(* ended one.                                                              *)
ListedHaveRows ==
  job \in {"known", "delete"} => \A r \in all \cap Resources : rstate[r] # "NONE"

(* Only rows to delete have TerminateWorkers, of which some are late: no   *)
(* cmd_delete is about a machine in use.                                   *)
Terminating ==
  \A r \in Resources :
    termNew[r] > 0 \/ termCmd[r] > 0 =>
      rstate[r] \in {"DELETE_REQUEST", "DELETING", "ENDED"}

IInv ==
  /\ CleanerTypeOK
  /\ UpHasInstance
  /\ OnlyEndedAreUnknown
  /\ ListedHaveRows
  /\ Terminating

Over == {"DELETING", "ENDED"}

(* The steps of a resource's life, by the hooks and the workers. *)
Life(r) ==
  \/ allocate(r) \/ cmd_new(r) \/ AllocWorker_up(r)
  \/ AllocWorker_failed(r) \/ kill(r) \/ garbage_collector(r)
  \/ TerminateWorker_job(r) \/ cmd_delete(r) \/ TerminateWorker_close(r)

(* A row that has ended is never used again, not even by a late            *)
(* TerminateWorker, and none disappears (Pool.allocate(), AllocWorker,     *)
(* TerminateWorker); only a restart puts one back to DELETE_REQUEST.       *)
LEMMA RowsStay ==
  ASSUME CleanerTypeOK, Terminating, [CleanerNext]_cleanerVars
  PROVE  \A r \in Resources :
           /\ rstate[r] \in Over => rstate'[r] \in Over \/ job' = "idle"
           /\ rstate[r] # "NONE" => rstate'[r] # "NONE"
           /\ rstate'[r] = "UP" => rstate[r] = "UP" \/ r \in instances
<1>1. ASSUME NEW r \in Resources, NEW from, NEW to, set_state(r, from, to),
             from \in Over => to \in Over, to # "NONE", to = "UP" => r \in instances
      PROVE  \A q \in Resources :
               /\ rstate[q] \in Over => rstate'[q] \in Over \/ job' = "idle"
               /\ rstate[q] # "NONE" => rstate'[q] # "NONE"
               /\ rstate'[q] = "UP" => rstate[q] = "UP" \/ q \in instances
  BY <1>1 DEF set_state, CleanerTypeOK
<1>2. ASSUME NEW r \in Resources, Life(r)
      PROVE  \A q \in Resources :
               /\ rstate[q] \in Over => rstate'[q] \in Over \/ job' = "idle"
               /\ rstate[q] # "NONE" => rstate'[q] # "NONE"
               /\ rstate'[q] = "UP" => rstate[q] = "UP" \/ q \in instances
  <2>1. CASE allocate(r)
    <3>1. set_state(r, "NONE", "STARTING") BY <2>1 DEF allocate
    <3> QED BY <3>1, <1>1 DEF Over
  <2>2. CASE AllocWorker_up(r)
    <3>1. set_state(r, "STARTING", "UP") /\ r \in instances BY <2>2 DEF AllocWorker_up
    <3> QED BY <3>1, <1>1 DEF Over
  <2>3. CASE AllocWorker_failed(r)
    <3>1. set_state(r, "STARTING", "ENDED") BY <2>3 DEF AllocWorker_failed
    <3> QED BY <3>1, <1>1 DEF Over
  <2>4. CASE kill(r)
    <3>1. set_state(r, "UP", "DELETE_REQUEST") BY <2>4 DEF kill
    <3> QED BY <3>1, <1>1 DEF Over
  <2>5. CASE TerminateWorker_job(r)
    <3>1. set_state(r, rstate[r], "DELETING") BY <2>5 DEF TerminateWorker_job
    <3> QED BY <3>1, <1>1 DEF Over
  <2>6. CASE TerminateWorker_close(r)
    <3>1. set_state(r, rstate[r], "ENDED") BY <2>6 DEF TerminateWorker_close
    <3> QED BY <3>1, <1>1 DEF Over
  <2>7. CASE cmd_new(r) \/ cmd_delete(r) \/ garbage_collector(r)
    BY <2>7 DEF cmd_new, cmd_delete, garbage_collector, rows
  <2> QED BY <1>2, <2>1, <2>2, <2>3, <2>4, <2>5, <2>6, <2>7 DEF Life
<1>3. CASE CleanUnknownWorker \/ UNCHANGED cleanerVars
  BY <1>3 DEF CleanUnknownWorker, clean_unknown_resources, list_known_resources, job_ends,
              list_all_resources, delete_unknown, cleanerVars, rows
<1>4. CASE restart
  BY <1>4 DEF restart, CleanerTypeOK
<1> QED BY <1>2, <1>3, <1>4 DEF CleanerNext, Life

(* The steps that move a row that is to be deleted, or give it a           *)
(* TerminateWorker, leave it one to be deleted (_garbage_collector(),      *)
(* TerminateWorker.job() and close(), the restart).                        *)
LEMMA TerminatorsBelong ==
  ASSUME CleanerTypeOK, Terminating, [CleanerNext]_cleanerVars
  PROVE  Terminating'
<1>1. ASSUME NEW r \in Resources, Life(r) PROVE Terminating'
  <2>1. CASE allocate(r) \/ AllocWorker_up(r) \/ AllocWorker_failed(r) \/ kill(r)
    BY <2>1 DEF allocate, AllocWorker_up, AllocWorker_failed, kill, set_state, workers,
                Terminating, CleanerTypeOK
  <2>2. CASE cmd_new(r) \/ cmd_delete(r)
    BY <2>2 DEF cmd_new, cmd_delete, workers, Terminating
  <2>3. CASE garbage_collector(r)
    BY <2>3 DEF garbage_collector, rows, Terminating, CleanerTypeOK
  <2>4. CASE TerminateWorker_job(r)
    BY <2>4 DEF TerminateWorker_job, set_state, Terminating, CleanerTypeOK
  <2>5. CASE TerminateWorker_close(r)
    BY <2>5 DEF TerminateWorker_close, set_state, Terminating, CleanerTypeOK
  <2> QED BY <1>1, <2>1, <2>2, <2>3, <2>4, <2>5 DEF Life
<1>2. CASE CleanUnknownWorker \/ UNCHANGED cleanerVars
  BY <1>2 DEF CleanUnknownWorker, clean_unknown_resources, list_known_resources, job_ends,
              list_all_resources, delete_unknown, cleanerVars, rows, workers, Terminating
<1>3. CASE restart
  BY <1>3 DEF restart, Terminating
<1> QED BY <1>1, <1>2, <1>3 DEF CleanerNext, Life

(* Rows and machines: the steps of a resource and the restart. *)
LEMMA RowsTypes ==
  ASSUME CleanerTypeOK, restart \/ \E r \in Resources : Life(r)
  PROVE  CleanerTypeOK'
<1> USE CleanerAssumption
<1>1. CASE restart
  BY <1>1 DEF restart, Fault, CleanerTypeOK, Names
<1>2. SUFFICES ASSUME NEW r \in Resources, Life(r) PROVE CleanerTypeOK'
  BY <1>1
<1>3. CASE allocate(r)
  BY <1>3 DEF allocate, set_state, workers, cleaner, CleanerTypeOK, Names
<1>4. CASE cmd_new(r)
  BY <1>4 DEF cmd_new, workers, cleaner, CleanerTypeOK, Names
<1>5. CASE AllocWorker_up(r)
  BY <1>5 DEF AllocWorker_up, set_state, workers, cleaner, CleanerTypeOK, Names
<1>6. CASE AllocWorker_failed(r)
  BY <1>6 DEF AllocWorker_failed, Fault, set_state, workers, cleaner, CleanerTypeOK, Names
<1>7. CASE kill(r)
  BY <1>7 DEF kill, set_state, workers, cleaner, CleanerTypeOK, Names
<1>8. CASE cmd_delete(r)
  BY <1>8 DEF cmd_delete, workers, cleaner, CleanerTypeOK, Names
<1>9. CASE garbage_collector(r)
  BY <1>9 DEF garbage_collector, rows, cleaner, CleanerTypeOK, Names
<1>10. CASE TerminateWorker_job(r)
  BY <1>10 DEF TerminateWorker_job, set_state, cleaner, CleanerTypeOK, Names
<1>11. CASE TerminateWorker_close(r)
  BY <1>11 DEF TerminateWorker_close, Fault, set_state, cleaner, CleanerTypeOK, Names
<1> QED BY <1>2, <1>3, <1>4, <1>5, <1>6, <1>7, <1>8, <1>9, <1>10, <1>11 DEF Life

(* The steps of the worker itself. *)
LEMMA WorkerTypes ==
  ASSUME CleanerTypeOK, CleanUnknownWorker
  PROVE  CleanerTypeOK'
<1> USE CleanerAssumption
<1>1. CASE clean_unknown_resources \/ job_ends
  BY <1>1 DEF clean_unknown_resources, job_ends, after, rows, workers, CleanerTypeOK
<1>2. CASE list_known_resources
  BY <1>2 DEF list_known_resources, after, on, rows, workers, CleanerTypeOK
<1>3. ASSUME NEW listing \in SUBSET Names, list_all_resources(listing)
      PROVE  CleanerTypeOK'
  BY <1>3 DEF list_all_resources, Fault, after, rows, workers, CleanerTypeOK, Names
<1>4. ASSUME NEW x \in Names, delete_unknown(x)
      PROVE  CleanerTypeOK'
  BY <1>4 DEF delete_unknown, Fault, workers, CleanerTypeOK, Names
<1> QED BY <1>1, <1>2, <1>3, <1>4 DEF CleanUnknownWorker

-----------------------------------------------------------------------------
(* What is on the list of machines to delete stays right. *)
LEMMA ListsStayRight ==
  ASSUME IInv, [CleanerNext]_cleanerVars
  PROVE  OnlyEndedAreUnknown' /\ ListedHaveRows'
<1> USE CleanerAssumption
<1>1. \A r \in Resources : /\ rstate[r] \in Over => rstate'[r] \in Over \/ job' = "idle"
                           /\ rstate[r] # "NONE" => rstate'[r] # "NONE"
  BY RowsStay DEF IInv
<1>2. CASE UNCHANGED cleaner
  BY <1>1, <1>2 DEF cleaner, IInv, Over, OnlyEndedAreUnknown, ListedHaveRows
<1>3. CASE clean_unknown_resources
  BY <1>3 DEF clean_unknown_resources, after, OnlyEndedAreUnknown, ListedHaveRows
<1>4. CASE job_ends \/ restart
  BY <1>4 DEF job_ends, restart, OnlyEndedAreUnknown, ListedHaveRows
<1>5. ASSUME NEW listing \in SUBSET Names, list_all_resources(listing)
      PROVE  OnlyEndedAreUnknown' /\ ListedHaveRows'
  <2>1. job' = "known" /\ all' \subseteq instances \cup Strangers /\ rstate' = rstate
    BY <1>5 DEF list_all_resources, captured, after, rows
  <2>2. \A r \in all' \cap Resources : rstate'[r] # "NONE"
    BY <2>1 DEF IInv, CleanerTypeOK
  <2> QED BY <2>1, <2>2 DEF OnlyEndedAreUnknown, ListedHaveRows
<1>6. CASE list_known_resources
  <2>1. /\ job = "known" /\ job' = "delete" /\ all' = all /\ rstate' = rstate
        /\ known' = {r \in Resources : rstate[r] \notin {"NONE", "ENDED"}}
    BY <1>6 DEF list_known_resources, after, on, rows
  <2>2. \A r \in all \cap Resources : rstate[r] # "NONE"
    BY <2>1 DEF IInv, ListedHaveRows
  <2> QED BY <2>1, <2>2 DEF OnlyEndedAreUnknown, ListedHaveRows
<1>7. ASSUME NEW x \in Names, delete_unknown(x)
      PROVE  OnlyEndedAreUnknown' /\ ListedHaveRows'
  BY <1>7 DEF delete_unknown, IInv, OnlyEndedAreUnknown, ListedHaveRows
<1>8. ASSUME NEW r \in Resources, Life(r) PROVE UNCHANGED cleaner
  BY <1>8 DEF Life, allocate, cmd_new, AllocWorker_up, AllocWorker_failed, kill,
              garbage_collector, TerminateWorker_job, cmd_delete, TerminateWorker_close,
              set_state
<1>9. CASE UNCHANGED cleanerVars
  BY <1>9, <1>2 DEF cleanerVars
<1> QED BY <1>2, <1>3, <1>4, <1>5, <1>6, <1>7, <1>8, <1>9
        DEF CleanerNext, CleanUnknownWorker, Life

(* Nobody but the cleaner and cmd_delete removes a machine. *)
LEMMA UpStaysUp ==
  ASSUME IInv, [CleanerNext]_cleanerVars
  PROVE  UpHasInstance'
<1>1. SUFFICES ASSUME NEW r \in Resources, rstate'[r] = "UP" PROVE r \in instances'
  BY DEF UpHasInstance
<1>2. (rstate[r] = "UP" \/ r \in instances) /\ r \in instances
  BY <1>1, RowsStay DEF IInv, UpHasInstance
<1>3. ASSUME NEW q \in Resources, cmd_delete(q) PROVE r \in instances'
  <2>1. rstate[r] = "UP" /\ termCmd[q] > 0
    BY <1>1, <1>3 DEF cmd_delete
  <2>2. q # r
    BY <2>1 DEF IInv, Terminating
  <2> QED BY <1>2, <1>3, <2>2 DEF cmd_delete
<1>4. ASSUME NEW x \in Names, delete_unknown(x) PROVE r \in instances'
  <2>1. rstate[r] = "UP" /\ job = "delete" /\ x \in all \ known
    BY <1>1, <1>4 DEF delete_unknown
  <2>2. x # r
    BY <2>1 DEF IInv, OnlyEndedAreUnknown
  <2> QED BY <1>2, <1>4, <2>2 DEF delete_unknown
<1>5. ASSUME NEW q \in Resources, TerminateWorker_close(q) PROVE r \in instances'
  BY <1>2, <1>5 DEF TerminateWorker_close
<1>6. ASSUME NEW q \in Resources,
             \/ allocate(q) \/ cmd_new(q) \/ AllocWorker_up(q)
             \/ AllocWorker_failed(q) \/ kill(q) \/ garbage_collector(q)
             \/ TerminateWorker_job(q)
      PROVE  r \in instances'
  BY <1>2, <1>6 DEF allocate, cmd_new, AllocWorker_up, AllocWorker_failed, kill,
                    garbage_collector, TerminateWorker_job, rows
<1>7. ASSUME NEW listing \in SUBSET Names, list_all_resources(listing)
      PROVE  r \in instances'
  BY <1>2, <1>7 DEF list_all_resources, rows
<1>8. CASE \/ clean_unknown_resources \/ list_known_resources \/ job_ends \/ restart
           \/ UNCHANGED cleanerVars
  BY <1>2, <1>8 DEF clean_unknown_resources, list_known_resources, job_ends, restart,
                    cleanerVars, rows
<1> QED BY <1>3, <1>4, <1>5, <1>6, <1>7, <1>8 DEF CleanerNext, CleanUnknownWorker

-----------------------------------------------------------------------------
(* IInv is an inductive invariant of Cleaner: the types with the rows of   *)
(* machines, what is up, and the lists CleanUnknownWorker.job() makes.     *)
THEOREM CleanerInvariance == CleanerSpec => []IInv
<1>1. CleanerInit => IInv
  BY CleanerAssumption
     DEF CleanerInit, IInv, CleanerTypeOK, UpHasInstance, OnlyEndedAreUnknown,
         ListedHaveRows, Terminating, Names
<1>2. IInv /\ [CleanerNext]_cleanerVars => IInv'
  <2>1. SUFFICES ASSUME IInv, [CleanerNext]_cleanerVars PROVE IInv'
    OBVIOUS
  <2>2. CleanerTypeOK'
    <3>1. CASE UNCHANGED cleanerVars
      BY <2>1, <3>1 DEF IInv, cleanerVars, rows, workers, cleaner, CleanerTypeOK
    <3> QED BY <2>1, <3>1, RowsTypes, WorkerTypes DEF IInv, CleanerNext, Life
  <2> QED BY <2>1, <2>2, ListsStayRight, UpStaysUp, TerminatorsBelong DEF IInv
<1> QED BY <1>1, <1>2, PTL DEF CleanerSpec

(* The rows, the machines and the locals of CleanUnknownWorker.job() have  *)
(* their types, and only rows that were allocated have machines or a       *)
(* cmd_new under way (manager.py, 341-492).                                 *)
THEOREM CleanerTypes == CleanerSpec => []CleanerTypeOK
BY CleanerInvariance, PTL DEF IInv

(* The resources in use keep their machines: CleanUnknownWorker and late   *)
(* cmd_delete hooks take none away (manager.py, 435-492).                  *)
THEOREM MachinesInUseStay == CleanerSpec => []UpHasInstance
BY CleanerInvariance, PTL DEF IInv

(* Whatever CleanUnknownWorker.job() is about to delete belongs to no row  *)
(* or to one that has ended, if not to one that a late TerminateWorker     *)
(* ends again, because it lists the machines first.                        *)
THEOREM UnknownHaveEnded == CleanerSpec => []OnlyEndedAreUnknown
BY CleanerInvariance, PTL DEF IInv
=============================================================================
