----------------------------- MODULE PoolSingleton -----------------------------
(***************************************************************************)
(* The global pool of src/src/core/pool.c: g_pool and the state word that  *)
(* guards it.  Any thread may ask for the pool (ray_pool_get, which makes  *)
(* one on first use, also on behalf of ray_cancel), initialise it          *)
(* (ray_pool_init) or destroy it (ray_pool_destroy).  One step is one      *)
(* atomic access; ray_pool_create and ray_pool_free take time.             *)
(***************************************************************************)
EXTENDS Naturals

CONSTANT Threads

Uninit == 0
Initializing == 1
Ready == 2
Destroying == 3

VARIABLES
  state,   \* g_pool_init_state
  built,   \* the fields of g_pool are those of a created pool
  pc,      \* where each thread is
  result,  \* what its last call returned
  saw      \* history: the pool was ready at some moment of the current call

vars == <<state, built, pc, result, saw>>

Calls == {"get", "init", "destroy"}

TypeOK ==
  /\ state \in {Uninit, Initializing, Ready, Destroying} /\ built \in BOOLEAN
  /\ pc \in [Threads -> {"idle", "get", "cas", "spin", "init", "wait", "destroy"}
                          \cup {"creating", "initing", "freeing"}]
  /\ result \in [Threads -> {"none", "pool", "null", "ok", "error", "done"}]
  /\ saw \in [Threads -> BOOLEAN]

Init ==
  /\ state = Uninit /\ built = FALSE
  /\ pc = [t \in Threads |-> "idle"]
  /\ result = [t \in Threads |-> "none"] /\ saw = [t \in Threads |-> FALSE]

-------------------------------------------------------------------------------
Goto(t, l) == pc' = [pc EXCEPT ![t] = l] /\ UNCHANGED result

Return(t, r) == pc' = [pc EXCEPT ![t] = "idle"] /\ result' = [result EXCEPT ![t] = r]

(* The state word changes; threads inside a call have seen a pool get ready.  *)
Store(s) ==
  /\ state' = s
  /\ saw' = [u \in Threads |-> saw[u] \/ (s = Ready /\ pc[u] # "idle")]

Quiet == UNCHANGED <<state, saw>>

Call(t, c) ==
  /\ pc[t] = "idle"
  /\ pc' = [pc EXCEPT ![t] = c] /\ result' = [result EXCEPT ![t] = "none"]
  /\ saw' = [saw EXCEPT ![t] = (state = Ready)]
  /\ UNCHANGED <<state, built>>

(* ray_pool_get: the first load.                                              *)
Get(t) ==
  /\ pc[t] = "get"
  /\ \/ state = Ready /\ Return(t, "pool")
     \/ state = Uninit /\ Goto(t, "cas")
     \/ state \in {Initializing, Destroying} /\ Goto(t, "spin")
  /\ Quiet /\ UNCHANGED built

(* Fault: the winner is decided by the earlier load.                          *)
GetNoCas(t) ==
  /\ pc[t] = "cas"
  /\ Store(Initializing) /\ Goto(t, "creating")
  /\ UNCHANGED built

GetCas(t) ==
  /\ pc[t] = "cas"
  /\ IF state = Uninit THEN Store(Initializing) /\ Goto(t, "creating")
                       ELSE Quiet /\ Goto(t, "spin")
  /\ UNCHANGED built

(* ray_pool_create works or fails; a failure allows a retry.                  *)
GetCreated(t) ==
  /\ pc[t] = "creating"
  /\ \/ built' = TRUE /\ Store(Ready) /\ Return(t, "pool")
     \/ built' = FALSE /\ Store(Uninit) /\ Return(t, "null")

(* Fault: the spinner waits for a ready pool only.                            *)
GetSpinsForReady(t) ==
  /\ pc[t] = "spin"
  /\ state = Ready /\ Return(t, "pool")
  /\ Quiet /\ UNCHANGED built

(* Fault: the spinner takes any settled word for a ready pool.                *)
GetSpinSettled(t) ==
  /\ pc[t] = "spin"
  /\ state \in {Uninit, Ready} /\ Return(t, "pool")
  /\ Quiet /\ UNCHANGED built

GetSpin(t) ==
  /\ pc[t] = "spin"
  /\ \/ state = Ready /\ Return(t, "pool")
     \/ state = Uninit /\ Return(t, "null")
  /\ Quiet /\ UNCHANGED built

(* ray_pool_init                                                              *)
InitCas(t) ==
  /\ pc[t] = "init"
  /\ \/ state = Uninit /\ Store(Initializing) /\ Goto(t, "initing")
     \/ state = Initializing /\ Quiet /\ Goto(t, "wait")
     \/ state \in {Ready, Destroying} /\ Quiet /\ Return(t, "ok")
  /\ UNCHANGED built

InitWait(t) ==
  /\ pc[t] = "wait" /\ state # Initializing
  /\ Return(t, "ok")
  /\ Quiet /\ UNCHANGED built

InitCreated(t) ==
  /\ pc[t] = "initing"
  /\ \/ built' = TRUE /\ Store(Ready) /\ Return(t, "ok")
     \/ built' = FALSE /\ Store(Uninit) /\ Return(t, "error")

(* ray_pool_destroy                                                           *)
DestroyCas(t) ==
  /\ pc[t] = "destroy"
  /\ IF state = Ready THEN Store(Destroying) /\ Goto(t, "freeing") ELSE Quiet /\ Return(t, "done")
  /\ UNCHANGED built

Destroyed(t) ==
  /\ pc[t] = "freeing"
  /\ built' = FALSE /\ Store(Uninit) /\ Return(t, "done")

Step(t) ==
  \/ Get(t) \/ GetCas(t) \/ GetCreated(t) \/ GetSpin(t)
  \/ InitCas(t) \/ InitWait(t) \/ InitCreated(t)
  \/ DestroyCas(t) \/ Destroyed(t)

Next == \E t \in Threads : Step(t) \/ \E c \in Calls : Call(t, c)
Spec == Init /\ [][Next]_vars

(* Every thread runs, and creating or freeing a pool ends.  Threads need not  *)
(* make another call.                                                         *)
FairSpec == Spec /\ \A t \in Threads : WF_vars(Step(t))

-------------------------------------------------------------------------------
Owner == {t \in Threads : pc[t] \in {"creating", "initing", "freeing"}}

(* At most one thread is creating or freeing g_pool, and the word says so to  *)
(* all the others.                                                            *)
OwnedByOne ==
  /\ \A t, u \in Owner : t = u
  /\ (Owner = {}) <=> state \in {Uninit, Ready}

(* A ready word means a whole pool, an uninitialised one means none.          *)
ReadyMeansBuilt ==
  /\ state = Ready => built
  /\ state = Uninit => ~built

(* A call returns unless the others create and destroy the pool for ever: a   *)
(* spinner sees the word settle, also when create failed or the pool was      *)
(* destroyed meanwhile.                                                       *)
SomeCall == \E t \in Threads, c \in Calls : Call(t, c)
CallsReturn ==
  <>[][~SomeCall]_vars => \A t \in Threads : pc[t] # "idle" ~> pc[t] = "idle"

(* ray_pool_get hands out the pool only if it was ready at some moment of the *)
(* call, also when the caller had to wait for another thread's create to      *)
(* succeed or fail.  (ray_pool_init's RAY_OK does not promise as much.)       *)
GetMeansReady == \A t \in Threads : result[t] = "pool" => saw[t]

(* The state word of ray_pool_get, init and destroy tells the truth: one      *)
(* owner while it says so, and a whole pool whenever it says ready.           *)
WordExact == TypeOK /\ OwnedByOne /\ ReadyMeansBuilt
===============================================================================
