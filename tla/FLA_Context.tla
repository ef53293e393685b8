---------------------------- MODULE FLA_Context ----------------------------
(***************************************************************************)
(* The number of threads the library may use                               *)
(* (src/base/flamec/main/FLA_Context.c, built with OpenMP, POSIX threads   *)
(* and thread-local storage).                                              *)
(*                                                                         *)
(* The threads of a program ask for the number, as every multithreaded     *)
(* routine does on its way in, or set it.  The first to come initialises   *)
(* the global context from the environment; each thread takes a copy at    *)
(* its first query, and follows OpenMP where nothing else was said.  Every *)
(* access to shared variables is one step.                                 *)
(***************************************************************************)
EXTENDS Integers

CONSTANTS
  Thread,    \* the threads of the program
  EnvValue,  \* values of the environment variable FLA_NUM_THREADS
  OmpMax,    \* values of omp_get_max_threads()
  Request,   \* thread counts a program sets
  NoThread   \* not a thread

Unset == -1  \* the variable is not set; a count not yet known

ASSUME ContextAssumption ==
  /\ EnvValue \in SUBSET ((Nat \ {0}) \cup {Unset})
  /\ OmpMax \in SUBSET (Nat \ {0}) /\ Request \in SUBSET (Nat \ {0})
  /\ NoThread \notin Thread

VARIABLES
  env,                       \* the environment
  omp_max, saturated,        \* per thread: what OpenMP says at the moment
  initialized, once,         \* fla_context_initialized; state of once_init
  num_threads, libflame_mt,  \* fla_global_context
  tl, tl_init,               \* fla_tl_context and fla_tl_context_init
  mutex,                     \* fla_global_thread_mutex, one per thread
  pc, request,               \* each thread's place and argument
  result,                    \* history: what the last query returned, or Unset
  asked                      \* history: the count the thread has set, or Unset,
                             \* and whether it had made a query before

global == <<initialized, once, num_threads, libflame_mt>>
local  == <<tl, tl_init, mutex>>
world  == <<env, omp_max, saturated>>
ghosts == <<result, asked>>
vars == <<world, global, local, ghosts, pc, request>>

Goto(i, label) == pc' = [pc EXCEPT ![i] = label]

-----------------------------------------------------------------------------
Init ==
  /\ env \in EnvValue
  /\ omp_max \in [Thread -> OmpMax] /\ saturated = [i \in Thread |-> FALSE]
  /\ initialized = FALSE /\ once = "not_run"
  /\ num_threads = Unset /\ libflame_mt = FALSE
  /\ tl = [i \in Thread |-> [num_threads |-> Unset, libflame_mt |-> FALSE]]
  /\ tl_init = [i \in Thread |-> FALSE]
  /\ mutex = [i \in Thread |-> NoThread]
  /\ pc = [i \in Thread |-> "idle"] /\ request = [i \in Thread |-> Unset]
  /\ result = [i \in Thread |-> Unset]
  /\ asked = [i \in Thread |-> [count |-> Unset, late |-> FALSE]]

(* The program calls omp_set_num_threads, or thread i enters or leaves a   *)
(* parallel region in which no more levels may be active.                  *)
OpenMP(i) ==
  /\ pc[i] = "idle"
  /\ \E k \in OmpMax, s \in BOOLEAN :
       /\ omp_max' = [omp_max EXCEPT ![i] = k]
       /\ saturated' = [saturated EXCEPT ![i] = s]
  /\ result' = [result EXCEPT ![i] = Unset]
  /\ UNCHANGED <<env, global, local, asked, pc, request>>

(* fla_thread_get_num_threads, fla_thread_set_num_threads.                 *)
Get(i) ==
  /\ pc[i] = "idle"
  /\ request' = [request EXCEPT ![i] = Unset]
  /\ Goto(i, "init")
  /\ UNCHANGED <<world, global, local, ghosts>>

Set(i) ==
  /\ pc[i] = "idle"
  /\ \E k \in Request : request' = [request EXCEPT ![i] = k]
  /\ Goto(i, "init")
  /\ UNCHANGED <<world, global, local, ghosts>>

-----------------------------------------------------------------------------
(* aocl_fla_init.                                                          *)

(* After the initialisation the two functions part.                        *)
Body(i) == IF request[i] = Unset THEN "update" ELSE "set"

\* Mutant: a thread does not wait for the one that is initialising.
PassAnyhow(i) ==
  /\ pc[i] = "init"
  /\ Goto(i, IF once # "not_run" THEN Body(i) ELSE "once")
  /\ UNCHANGED <<world, global, local, ghosts, request>>

(* The test of fla_context_initialized, without a lock.                    *)
FastPath(i) ==
  /\ pc[i] = "init"
  /\ Goto(i, IF initialized THEN Body(i) ELSE "once")
  /\ UNCHANGED <<world, global, local, ghosts, request>>

(* pthread_once: the first thread runs fla_context_init, the others wait.  *)
OnceRun(i) ==
  /\ pc[i] = "once" /\ once = "not_run"
  /\ once' = "running"
  /\ Goto(i, "init_threads")
  /\ UNCHANGED <<world, initialized, num_threads, libflame_mt, local, ghosts, request>>

OnceDone(i) ==
  /\ pc[i] = "once" /\ once = "done"
  /\ Goto(i, "mark")
  /\ UNCHANGED <<world, global, local, ghosts, request>>

(* fla_thread_init_rntm_from_env.                                          *)
InitThreads(i) ==
  /\ pc[i] = "init_threads"
  /\ num_threads' = env
  /\ Goto(i, "init_mt")
  /\ UNCHANGED <<world, initialized, once, libflame_mt, local, ghosts, request>>

\* Mutant: the others are not told that the initialisation is over.
InitMTSilent(i) ==
  /\ pc[i] = "init_mt"
  /\ libflame_mt' = (env # Unset)
  /\ Goto(i, "mark")
  /\ UNCHANGED <<world, initialized, once, num_threads, local, ghosts, request>>

InitMT(i) ==
  /\ pc[i] = "init_mt"
  /\ libflame_mt' = (env # Unset)
  /\ once' = "done"
  /\ Goto(i, "mark")
  /\ UNCHANGED <<world, initialized, num_threads, local, ghosts, request>>

Mark(i) ==
  /\ pc[i] = "mark"
  /\ initialized' = TRUE
  /\ Goto(i, Body(i))
  /\ UNCHANGED <<world, once, num_threads, libflame_mt, local, ghosts, request>>

-----------------------------------------------------------------------------
(* fla_thread_update_rntm_from_env.                                        *)

(* At the thread's first query it locks the mutex and takes its copy.  The *)
(* mutex has thread-local storage: each thread has one of its own.         *)
MyMutex(i) == i

Lock(i) ==
  /\ pc[i] = "update" /\ ~tl_init[i]
  /\ mutex[MyMutex(i)] = NoThread
  /\ mutex' = [mutex EXCEPT ![MyMutex(i)] = i]
  /\ tl_init' = [tl_init EXCEPT ![i] = TRUE]
  /\ Goto(i, "copy_threads")
  /\ UNCHANGED <<world, global, tl, ghosts, request>>

CopyThreads(i) ==
  /\ pc[i] = "copy_threads"
  /\ tl' = [tl EXCEPT ![i].num_threads = num_threads]
  /\ Goto(i, "copy_mt")
  /\ UNCHANGED <<world, global, tl_init, mutex, ghosts, request>>

CopyMT(i) ==
  /\ pc[i] = "copy_mt"
  /\ tl' = [tl EXCEPT ![i].libflame_mt = libflame_mt]
  /\ mutex' = [mutex EXCEPT ![MyMutex(i)] = NoThread]
  /\ Goto(i, "update")
  /\ UNCHANGED <<world, global, tl_init, ghosts, request>>

(* What OpenMP would give a parallel region that thread i starts.          *)
FromOpenMP(i) == IF saturated[i] THEN 1 ELSE omp_max[i]

(* Without a setting of its own the library follows OpenMP.                *)
Return(i) ==
  /\ pc[i] = "update" /\ tl_init[i]
  /\ LET count == IF tl[i].libflame_mt THEN tl[i].num_threads ELSE FromOpenMP(i)
     IN  /\ tl' = [tl EXCEPT ![i].num_threads = count]
         /\ result' = [result EXCEPT ![i] = count]
  /\ Goto(i, "idle")
  /\ UNCHANGED <<world, global, tl_init, mutex, asked, request>>

\* Mutant: the count is set, but not that it is to be kept.
SetNumber(i) ==
  /\ pc[i] = "set"
  /\ tl' = [tl EXCEPT ![i].num_threads = request[i]]
  /\ asked' = [asked EXCEPT ![i] = [count |-> request[i], late |-> tl_init[i]]]
  /\ result' = [result EXCEPT ![i] = Unset]
  /\ Goto(i, "idle")
  /\ UNCHANGED <<world, global, tl_init, mutex, request>>

SetThreads(i) ==
  /\ pc[i] = "set"
  /\ tl' = [tl EXCEPT ![i] = [num_threads |-> request[i], libflame_mt |-> TRUE]]
  /\ asked' = [asked EXCEPT ![i] = [count |-> request[i], late |-> tl_init[i]]]
  /\ result' = [result EXCEPT ![i] = Unset]
  /\ Goto(i, "idle")
  /\ UNCHANGED <<world, global, tl_init, mutex, request>>

-----------------------------------------------------------------------------
Work(i) ==
  \/ FastPath(i) \/ OnceRun(i) \/ OnceDone(i) \/ InitThreads(i) \/ InitMT(i) \/ Mark(i)
  \/ Lock(i) \/ CopyThreads(i) \/ CopyMT(i) \/ Return(i) \/ SetThreads(i)

Next == \E i \in Thread : OpenMP(i) \/ Get(i) \/ Set(i) \/ Work(i)

Spec == Init /\ [][Next]_vars

(* A thread that has called the library keeps running.                     *)
FairSpec == Spec /\ \A i \in Thread : WF_vars(Work(i))

-----------------------------------------------------------------------------
(* Properties.                                                             *)

Count == Nat \cup {Unset}

TypeOK ==
  /\ env \in EnvValue /\ omp_max \in [Thread -> OmpMax] /\ saturated \in [Thread -> BOOLEAN]
  /\ initialized \in BOOLEAN /\ once \in {"not_run", "running", "done"}
  /\ num_threads \in Count /\ libflame_mt \in BOOLEAN
  /\ tl \in [Thread -> [num_threads : Count, libflame_mt : BOOLEAN]]
  /\ tl_init \in [Thread -> BOOLEAN] /\ mutex \in [Thread -> Thread \cup {NoThread}]
  /\ pc \in [Thread -> {"idle", "init", "once", "init_threads", "init_mt", "mark", "update",
                        "copy_threads", "copy_mt", "set"}]
  /\ request \in [Thread -> Request \cup {Unset}]
  /\ result \in [Thread -> Count] /\ asked \in [Thread -> [count : Request \cup {Unset}, late : BOOLEAN]]

(* The global context is complete before any thread takes a copy of it,    *)
(* and is not written afterwards: that, and not the mutex, is why a copy   *)
(* is never half of one setting and half of another.                       *)
SettledBeforeUse ==
  \A i \in Thread :
    pc[i] \in {"update", "copy_threads", "copy_mt", "set"} \/ tl_init[i] =>
      num_threads = env /\ libflame_mt = (env # Unset)

(* A thread that has set no count gets the one of the environment, else    *)
(* what OpenMP would provide at the moment, whatever other threads have    *)
(* set for themselves; one that has set a count after its first query gets *)
(* that count from then on.                                                *)
CountJustified ==
  \A i \in Thread : result[i] # Unset =>
    /\ asked[i].count = Unset =>
         result[i] = IF env # Unset THEN env ELSE FromOpenMP(i)
    /\ asked[i].late => result[i] = asked[i].count

(* What the comment in fla_thread_get_num_threads promises: a query does   *)
(* not update the count of a thread that has set one, early or late.  The  *)
(* code does not keep it: at its first query a thread copies the global    *)
(* settings over a count that it has set before.                           *)
RequestHonoured ==
  \A i \in Thread : result[i] # Unset /\ asked[i].count # Unset => result[i] = asked[i].count

(* Every call returns, also when many threads come first at once.          *)
CallsReturn == \A i \in Thread : pc[i] # "idle" ~> pc[i] = "idle"

=============================================================================
