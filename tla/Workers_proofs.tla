-------------------------- MODULE Workers_proofs --------------------------
(***************************************************************************)
(* Workers: those of a team, those that share the run-time context, and    *)
(* those that execute tasks on GPUs.                                       *)
(*                                                                         *)
(* The parts of a team partition their range, for every number of threads, *)
(* range and element size, whether it is divided by elements or by cache   *)
(* lines.                                                                  *)
(*                                                                         *)
(* The global context is settled before any thread uses it, and a query    *)
(* returns a count that something justifies, for any number of threads.    *)
(* The argument does not mention the mutex.  pthread_once lets one thread  *)
(* fill the context; whoever passes aocl_fla_init comes after that, since  *)
(* fla_context_initialized is set only by threads that have seen the end   *)
(* of it; and nobody writes the context again.                             *)
(*                                                                         *)
(* On GPUs a task computes with current operands, transfers do not meet,   *)
(* and the results reach main memory, for any number of threads, blocks,   *)
(* slots and tasks.  The argument is about ownership.  A block whose       *)
(* current contents are only on a GPU, or on their way from it, has one    *)
(* owner and is on no other GPU (OwnerInv).  A task that has been found    *)
(* ready owns or shares its blocks, because tasks that conflict do not run *)
(* at the same time, and only they could take a block away (CheckInv).     *)
(* What it has invalidated elsewhere stays so (AloneInv), what it has      *)
(* flushed stays clean (ClearInv), and what it has fetched stays, since    *)
(* the slots used last are not given up while the blocks of a task fit in  *)
(* (FetchInv, a pigeonhole argument).  A stored copy is therefore current  *)
(* (CopyInv), and main memory is unless the block has an owner (MainInv).  *)
(***************************************************************************)
EXTENDS FLASH_Queue_gpu, FLA_Team, FLA_Context, FLA_Threads_proofs, FiniteSetTheorems,
        WellFoundedInduction

-----------------------------------------------------------------------------
(* The team.  A part is computed from the thread's number alone, so it is  *)
(* the same whenever it is computed.                                       *)

TeamInv ==
  /\ team_size \in 1..MaxThreads /\ range \in 0..MaxRange
  /\ elem_size \in ElemSize /\ chunks \in BOOLEAN
  /\ part = [i \in Member |-> part[i]]
  /\ \A i \in Member :
       part[i] = None \/ part[i] = Share(chunks, i, team_size, elem_size, range)

LEMMA TeamInvCorrect == TeamSpec => []TeamInv
<1>1. TeamInit => TeamInv
  BY DEF TeamInit, TeamInv, Member
<1>2. TeamInv /\ [TeamNext]_team => TeamInv'
  <2> SUFFICES ASSUME TeamInv, [TeamNext]_team PROVE TeamInv'
    OBVIOUS
  <2>1. ASSUME NEW i \in Member, Divide(i)
        PROVE  TeamInv'
    <3>1. /\ team_size' = team_size /\ range' = range /\ elem_size' = elem_size
          /\ chunks' = chunks /\ Member' = Member
      BY <2>1 DEF Divide, Member
    <3>2. part' = [part EXCEPT ![i] = Share(chunks, i, team_size, elem_size, range)]
      BY <2>1 DEF Divide, Share
    <3>3. QED
      BY <3>1, <3>2 DEF TeamInv
  <2>2. CASE UNCHANGED team
    BY <2>2 DEF TeamInv, team, Member
  <2>3. QED
    BY <2>1, <2>2 DEF TeamNext
<1>3. QED
  BY <1>1, <1>2, PTL DEF TeamSpec

LEMMA TeamInvTiles ==
  ASSUME TeamInv
  PROVE  Tiles([i \in Member |-> Share(chunks, i, team_size, elem_size, range)],
               team_size, range)
<1>1. /\ chunks \in BOOLEAN /\ team_size \in Nat /\ team_size > 0
      /\ elem_size \in Nat /\ range \in Nat
  BY TeamAssumption DEF TeamInv
<1>2. QED
  BY <1>1, SharesTile DEF Member

(* Every thread's part, once it is computed, lies within the range         *)
(* (FLA_Thread_get_subrange, FLA_Thread_get_subrange_chunks).              *)
THEOREM TypeCorrect == TeamSpec => []TeamTypeOK
<1>1. TeamInv => TeamTypeOK
  <2> SUFFICES ASSUME TeamInv PROVE TeamTypeOK
    OBVIOUS
  <2>1. range \in 0..MaxRange /\ MaxRange \in Nat
    BY TeamAssumption DEF TeamInv
  <2>2. ASSUME NEW i \in Member, part[i] # None
        PROVE  part[i].index \in 0..MaxRange /\ part[i].sub_range \in 0..MaxRange
    <3>1. part[i] = Share(chunks, i, team_size, elem_size, range)
      BY <2>2 DEF TeamInv
    <3>2. /\ part[i].index \in Nat /\ part[i].sub_range \in Nat
          /\ part[i].index + part[i].sub_range <= range
      BY <3>1, TeamInvTiles DEF Tiles, Member
    <3>3. QED
      BY <2>1, <3>2
  <2>3. QED
    BY <2>2 DEF TeamTypeOK, TeamInv
<1>2. QED
  BY <1>1, TeamInvCorrect, PTL

(* The parts of two threads are disjoint and the team's parts cover the    *)
(* range, by either way of dividing it, in any order of the computations.  *)
THEOREM PartsPartition == TeamSpec => []Partition
<1>1. TeamInv => Partition
  <2> SUFFICES ASSUME TeamInv PROVE Partition
    OBVIOUS
  <2> DEFINE share(i) == Share(chunks, i, team_size, elem_size, range)
  <2>1. team_size \in Nat /\ range \in Nat
    BY TeamAssumption DEF TeamInv
  <2>2. ASSUME NEW i \in Member
        PROVE  /\ share(i).index \in Nat /\ share(i).sub_range \in Nat
               /\ share(i).index + share(i).sub_range <= range
    BY TeamInvTiles DEF Tiles, Member
  <2>3. ASSUME NEW i \in Member, NEW j \in Member, i < j
        PROVE  share(j).sub_range = 0 \/ share(i).index + share(i).sub_range <= share(j).index
    BY <2>3, TeamInvTiles DEF Tiles, Member
  <2>4. ASSUME NEW x \in 0..(range - 1)
        PROVE  \E i \in Member : share(i).index <= x /\ x < share(i).index + share(i).sub_range
    BY TeamInvTiles DEF Tiles, Member
  <2>5. \A i \in Member : part[i] = None \/ part[i] = share(i)
    BY DEF TeamInv
  <2> HIDE DEF share
  <2>6. ASSUME NEW i \in Member, NEW j \in Member, i < j
        PROVE  Elements(part[i]) \cap Elements(part[j]) = {}
    <3>1. CASE part[i] = None \/ part[j] = None
      <4>1. Elements(None) = {}
        BY DEF Elements, None
      <4>2. QED
        BY <3>1, <4>1
    <3>2. CASE part[i] = share(i) /\ part[j] = share(j)
      BY <2>2, <2>3, <2>6, <3>2 DEF Elements
    <3>3. QED
      BY <2>5, <3>1, <3>2
  <2>7. \A i, j \in Member : i # j => Elements(part[i]) \cap Elements(part[j]) = {}
    BY <2>1, <2>6 DEF Member
  <2>8. ASSUME Divided
        PROVE  UNION {Elements(part[i]) : i \in Member} = 0..(range - 1)
    <3>1. \A i \in Member : part[i] = share(i)
      BY <2>5, <2>8 DEF Divided
    <3>2. ASSUME NEW i \in Member
          PROVE  Elements(part[i]) \subseteq 0..(range - 1)
      BY <2>1, <2>2, <3>1 DEF Elements
    <3>3. ASSUME NEW x \in 0..(range - 1)
          PROVE  \E i \in Member : x \in Elements(part[i])
      BY <2>1, <2>2, <2>4, <3>1 DEF Elements
    <3>4. QED
      BY <3>2, <3>3
  <2>9. QED
    BY <2>7, <2>8 DEF Partition
<1>2. QED
  BY <1>1, TeamInvCorrect, PTL

(* No thread gets two elements more than another (FLA_Thread_get_subrange).*)
THEOREM PartsBalanced == TeamSpec => []Balanced
<1>1. TeamInv => Balanced
  <2> SUFFICES ASSUME TeamInv, Divided, ~chunks, NEW i \in Member, NEW j \in Member
               PROVE  part[i].sub_range <= part[j].sub_range + 1
    BY DEF Balanced
  <2>1. /\ team_size \in Nat /\ team_size > 0 /\ range \in Nat
        /\ \A k \in Member : part[k] = FLA_Thread_get_subrange(k, team_size, range)
    BY TeamAssumption DEF TeamInv, Divided, Share
  <2>2. CASE range = 0
    BY <2>1, <2>2 DEF FLA_Thread_get_subrange, Nothing
  <2>3. CASE range > 0
    <3>1. PICK q \in Nat : q = range \div team_size
      BY <2>1, Quotient
    <3>2. \A k \in Member : part[k].sub_range \in {q, q + 1}
      BY <2>1, <2>3, <3>1, Subrange DEF Member, Size
    <3>3. QED
      BY <3>2
  <2>4. QED
    BY <2>1, <2>2, <2>3
<1>2. QED
  BY <1>1, TeamInvCorrect, PTL

(* Parts made of cache lines begin at a line, and exactly the threads      *)
(* below the threshold have one (FLA_Thread_get_subrange_chunks).          *)
THEOREM PartsOnLines == TeamSpec => []LinesApart
<1>1. TeamInv => LinesApart
  <2> SUFFICES ASSUME TeamInv, chunks, NEW i \in Member, part[i] # None
               PROVE  /\ part[i].index % Granule(elem_size) = 0
                      /\ part[i].sub_range > 0 <=> i < Threshold(team_size, elem_size, range)
    BY DEF LinesApart
  <2>1. /\ team_size \in Nat /\ team_size > 0 /\ range \in Nat /\ elem_size \in Nat
        /\ i \in Nat
        /\ part[i] = FLA_Thread_get_subrange_chunks(i, team_size, elem_size, range)
    BY TeamAssumption DEF TeamInv, Share, Member
  <2>2. PICK g \in Nat : g = Granule(elem_size) /\ g > 0
    BY <2>1, GranulePositive
  <2>3. 0 % g = 0
    <3>1. 0 * g = 0
      BY Z3
    <3>2. (0 * g) % g = 0
      BY <2>2, Multiple
    <3>3. QED
      BY <3>1, <3>2
  <2>4. CASE range = 0
    BY <2>1, <2>2, <2>3, <2>4 DEF FLA_Thread_get_subrange_chunks, Threshold, Nothing
  <2>5. CASE range > 0
    <3>1. PICK c \in Nat, h \in Nat, k \in Nat :
            /\ c = Chunk(team_size, elem_size, range) /\ c > 0 /\ c = k * g
            /\ h = Threshold(team_size, elem_size, range) /\ h > 0
            /\ (h - 1) * c < range
      <4> DEFINE c == Chunk(team_size, elem_size, range)
                 h == Threshold(team_size, elem_size, range)
      <4>1. /\ c \in Nat /\ c > 0 /\ h \in Nat /\ h > 0 /\ (h - 1) * c < range
            /\ \E k \in Nat : c = k * g
        BY <2>1, <2>2, <2>5, ChunkFacts
      <4> HIDE DEF c, h
      <4>2. PICK k \in Nat : c = k * g
        BY <4>1
      <4>3. c = Chunk(team_size, elem_size, range) /\ h = Threshold(team_size, elem_size, range)
        BY DEF c, h
      <4>4. QED
        BY <4>1, <4>2, <4>3
    <3>2. (i * c) % g = 0 /\ i * c \in Nat
      <4>1. i * k \in Nat
        BY <2>1, Successor
      <4>2. i * c = (i * k) * g
        BY <2>1, <3>1, Z3
      <4>3. QED
        BY <2>2, <4>1, <4>2, Multiple
    <3>3. CASE i < h - 1
      BY <2>1, <2>2, <3>1, <3>2, <3>3 DEF FLA_Thread_get_subrange_chunks
    <3>4. CASE i = h - 1
      <4>1. part[i] = [index |-> i * c, sub_range |-> range - i * c]
        BY <2>1, <3>1, <3>4 DEF FLA_Thread_get_subrange_chunks
      <4>2. i * c < range /\ i < h
        BY <3>1, <3>4
      <4>3. QED
        BY <2>1, <2>2, <3>1, <3>2, <4>1, <4>2
    <3>5. CASE i > h - 1
      BY <2>1, <2>2, <2>3, <3>1, <3>5 DEF FLA_Thread_get_subrange_chunks, Nothing
    <3>6. QED
      BY <2>1, <3>1, <3>3, <3>4, <3>5
  <2>6. QED
    BY <2>1, <2>4, <2>5
<1>2. QED
  BY <1>1, TeamInvCorrect, PTL

-----------------------------------------------------------------------------
(* The context.                                                            *)

Settled == num_threads = env /\ libflame_mt = (env # Unset)

Initialising(i) == pc[i] \in {"init_threads", "init_mt"}
Past(i) == pc[i] \in {"mark", "update", "copy_threads", "copy_mt", "set"} \/ tl_init[i]

(* At most one thread is initialising, and only while once_init says so.   *)
OneInitialises ==
  \A i \in Thread : Initialising(i) =>
    once = "running" /\ \A k \in Thread : Initialising(k) => k = i

OnceSettles ==
  /\ once = "done" => Settled
  /\ initialized => once = "done"
  /\ \A i \in Thread : Past(i) => once = "done"
  /\ \A i \in Thread : pc[i] = "init_mt" => num_threads = env

Domains ==
  /\ pc \in [Thread -> {"idle", "init", "once", "init_threads", "init_mt", "mark", "update",
                        "copy_threads", "copy_mt", "set"}]
  /\ tl_init \in [Thread -> BOOLEAN]

IInv == Domains /\ OneInitialises /\ OnceSettles

LEMMA InitSettles == Init => IInv
BY DEF Init, IInv, Domains, OneInitialises, OnceSettles, Initialising, Past

LEMMA StepKeeps == ASSUME IInv, NEW i \in Thread, OpenMP(i) \/ Get(i) \/ Set(i) \/ Work(i)
                   PROVE  IInv'
<1> USE DEF IInv, Domains, OneInitialises, OnceSettles, Initialising, Past, Settled, Goto,
            world, global, local, ghosts
<1>1. CASE OpenMP(i) BY <1>1 DEF OpenMP
<1>2. CASE Get(i) BY <1>2 DEF Get
<1>3. CASE Set(i) BY <1>3 DEF Set
<1>4. CASE FastPath(i) BY <1>4 DEF FastPath, Body
<1>5. CASE OnceRun(i) BY <1>5 DEF OnceRun
<1>6. CASE OnceDone(i) BY <1>6 DEF OnceDone
<1>7. CASE InitThreads(i) BY <1>7 DEF InitThreads
<1>8. CASE InitMT(i) BY <1>8 DEF InitMT
<1>9. CASE Mark(i) BY <1>9 DEF Mark, Body
<1>10. CASE Lock(i) BY <1>10 DEF Lock
<1>11. CASE CopyThreads(i) BY <1>11 DEF CopyThreads
<1>12. CASE CopyMT(i) BY <1>12 DEF CopyMT
<1>13. CASE Return(i) BY <1>13 DEF Return
<1>14. CASE SetThreads(i) BY <1>14 DEF SetThreads
<1>15. QED
  BY <1>1, <1>2, <1>3, <1>4, <1>5, <1>6, <1>7, <1>8, <1>9, <1>10, <1>11, <1>12, <1>13, <1>14
  DEF Work

LEMMA InvariantKept == IInv /\ [Next]_vars => IInv'
<1>1. CASE UNCHANGED vars
  BY <1>1 DEF IInv, Domains, OneInitialises, OnceSettles, Initialising, Past, Settled,
              vars, world, global, local, ghosts
<1>2. QED
  BY <1>1, StepKeeps DEF Next

(* fla_global_context is complete before a thread takes a copy of it or    *)
(* sets a count of its own, and is the same ever after.                    *)
THEOREM ContextSettled == Spec => []SettledBeforeUse
<1>1. IInv => SettledBeforeUse
  BY DEF IInv, OnceSettles, Past, Settled, SettledBeforeUse
<1>2. QED
  BY InitSettles, InvariantKept, <1>1, PTL DEF Spec

-----------------------------------------------------------------------------
(* Where the count of a thread comes from.                                 *)

(* What the copy of thread i holds: while it copies the global context,    *)
(* the fields copied so far; from then on either the global settings or,   *)
(* once it has set a count, that count.                                    *)
Late(i) == asked[i].late
OwnCount(i) ==
  tl[i].libflame_mt /\ tl[i].num_threads = asked[i].count /\ asked[i].count # Unset
GlobalCopy(i) ==
  tl[i].libflame_mt = (env # Unset) /\ (env # Unset => tl[i].num_threads = env)

Copy(i) ==
  /\ pc[i] \in {"copy_threads", "copy_mt"} => tl_init[i] /\ ~Late(i)
  /\ pc[i] = "copy_mt" => tl[i].num_threads = env
  /\ pc[i] = "set" => request[i] # Unset
  /\ ~tl_init[i] => ~Late(i)
  /\ tl_init[i] /\ pc[i] \notin {"copy_threads", "copy_mt"} =>
       IF Late(i) THEN OwnCount(i) ELSE GlobalCopy(i)

Justified(i) ==
  result[i] # Unset =>
    result[i] = IF Late(i) THEN asked[i].count
                ELSE IF env # Unset THEN env ELSE FromOpenMP(i)

JInv == TypeOK /\ \A i \in Thread : Copy(i) /\ Justified(i)

LEMMA TypesKept == ASSUME TypeOK, NEW i \in Thread, OpenMP(i) \/ Get(i) \/ Set(i) \/ Work(i)
                   PROVE  TypeOK'
<1> USE ContextAssumption
    DEF TypeOK, Goto, Count, world, global, local, ghosts
<1>1. CASE OpenMP(i) BY <1>1 DEF OpenMP
<1>2. CASE Get(i) BY <1>2 DEF Get
<1>3. CASE Set(i) BY <1>3 DEF Set
<1>4. CASE FastPath(i) BY <1>4 DEF FastPath, Body
<1>5. CASE OnceRun(i) BY <1>5 DEF OnceRun
<1>6. CASE OnceDone(i) BY <1>6 DEF OnceDone
<1>7. CASE InitThreads(i) BY <1>7 DEF InitThreads
<1>8. CASE InitMT(i) BY <1>8 DEF InitMT
<1>9. CASE Mark(i) BY <1>9 DEF Mark, Body
<1>10. CASE Lock(i) BY <1>10 DEF Lock, MyMutex
<1>11. CASE CopyThreads(i) BY <1>11 DEF CopyThreads
<1>12. CASE CopyMT(i) BY <1>12 DEF CopyMT, MyMutex
<1>13. CASE Return(i) BY <1>13 DEF Return, FromOpenMP
<1>14. CASE SetThreads(i) BY <1>14 DEF SetThreads
<1>15. QED
  BY <1>1, <1>2, <1>3, <1>4, <1>5, <1>6, <1>7, <1>8, <1>9, <1>10, <1>11, <1>12, <1>13, <1>14
  DEF Work

(* A step of thread i leaves the copies of the others alone.               *)
LEMMA OthersKept ==
  ASSUME JInv, NEW i \in Thread, OpenMP(i) \/ Get(i) \/ Set(i) \/ Work(i),
         NEW a \in Thread, a # i
  PROVE  Copy(a)' /\ Justified(a)'
<1>1. /\ env' = env /\ omp_max'[a] = omp_max[a] /\ saturated'[a] = saturated[a]
      /\ tl'[a] = tl[a] /\ tl_init'[a] = tl_init[a] /\ pc'[a] = pc[a]
      /\ result'[a] = result[a] /\ asked'[a] = asked[a] /\ request'[a] = request[a]
  BY DEF JInv, TypeOK, OpenMP, Get, Set, Work, FastPath, OnceRun, OnceDone, InitThreads, InitMT,
     Mark, Lock, CopyThreads, CopyMT, Return, SetThreads, Goto, world, global, local, ghosts
<1>2. Copy(a) /\ Justified(a)
  BY DEF JInv
<1>3. QED
  BY <1>1, <1>2 DEF Copy, Justified, Late, OwnCount, GlobalCopy, FromOpenMP

LEMMA OwnKept ==
  ASSUME IInv, JInv, NEW i \in Thread, OpenMP(i) \/ Get(i) \/ Set(i) \/ Work(i)
  PROVE  Copy(i)' /\ Justified(i)'
<1>0. TypeOK /\ Copy(i) /\ Justified(i) /\ (Past(i) => Settled)
  BY DEF IInv, OnceSettles, JInv
<1> USE <1>0 DEF TypeOK, Copy, Justified, Late, OwnCount, GlobalCopy, FromOpenMP, Goto,
            world, global, local, ghosts
<1>1. CASE OpenMP(i) BY <1>1 DEF OpenMP
<1>2. CASE Get(i) BY <1>2 DEF Get
<1>3. CASE Set(i) BY <1>3 DEF Set
<1>4. CASE FastPath(i) BY <1>4 DEF FastPath, Body
<1>5. CASE OnceRun(i) BY <1>5 DEF OnceRun
<1>6. CASE OnceDone(i) BY <1>6 DEF OnceDone
<1>7. CASE InitThreads(i) BY <1>7 DEF InitThreads
<1>8. CASE InitMT(i) BY <1>8 DEF InitMT
<1>9. CASE Mark(i) BY <1>9 DEF Mark, Body
<1>10. CASE Lock(i) BY <1>10 DEF Lock
<1>11. CASE CopyThreads(i) BY <1>11 DEF CopyThreads, Past, Settled
<1>12. CASE CopyMT(i) BY <1>12 DEF CopyMT, Past, Settled
<1>13. CASE Return(i) BY <1>13 DEF Return
<1>14. CASE SetThreads(i) BY <1>14 DEF SetThreads
<1>15. QED
  BY <1>1, <1>2, <1>3, <1>4, <1>5, <1>6, <1>7, <1>8, <1>9, <1>10, <1>11, <1>12, <1>13, <1>14
  DEF Work

(* A thread's copy is what it asked for or the global settings, and its    *)
(* last result is justified by one of the two.                             *)
LEMMA CountsKept == Spec => []JInv
<1>1. Init => JInv
  <2> SUFFICES ASSUME Init PROVE JInv
    OBVIOUS
  <2>1. TypeOK
    BY ContextAssumption DEF Init, TypeOK, Count
  <2>2. ASSUME NEW i \in Thread PROVE Copy(i) /\ Justified(i)
    BY DEF Init, Copy, Justified, Late
  <2>3. QED
    BY <2>1, <2>2 DEF JInv
<1>2. IInv /\ JInv /\ [Next]_vars => JInv'
  <2>1. CASE UNCHANGED vars
    BY <2>1 DEF JInv, TypeOK, Copy, Justified, Late, OwnCount, GlobalCopy, FromOpenMP,
                vars, world, global, local, ghosts
  <2>2. ASSUME IInv, JInv, NEW i \in Thread, OpenMP(i) \/ Get(i) \/ Set(i) \/ Work(i)
        PROVE  JInv'
    <3>1. TypeOK'
      BY <2>2, TypesKept DEF JInv
    <3>2. \A a \in Thread : Copy(a)' /\ Justified(a)'
      BY <2>2, OthersKept, OwnKept
    <3>3. QED
      BY <3>1, <3>2 DEF JInv
  <2>3. QED
    BY <2>1, <2>2 DEF Next
<1>3. QED
  BY InitSettles, InvariantKept, <1>1, <1>2, PTL DEF Spec

(* The context, its copies and the threads in it keep their types: counts  *)
(* are unset or thread counts (FLA_Context.c).                             *)
THEOREM ContextTypeCorrect == Spec => []TypeOK
<1>1. JInv => TypeOK
  BY DEF JInv
<1>2. QED
  BY CountsKept, <1>1, PTL

(* A thread that has set no count is told the environment's, else what     *)
(* OpenMP would give at the moment, whatever the others set; one that has  *)
(* set a count after its first query is told that count.                   *)
THEOREM CountIsJustified == Spec => []CountJustified
<1>1. JInv => CountJustified
  BY DEF JInv, Copy, Justified, Late, OwnCount, CountJustified
<1>2. QED
  BY CountsKept, <1>1, PTL

-----------------------------------------------------------------------------
(* GPUs.                                                                   *)
(*                                                                         *)
(* The positions of the blocks on a GPU matter only to the question which  *)
(* block is evicted; for all else it is enough to know which blocks a GPU  *)
(* holds, in which buffers, and which of them are dirty.                   *)

Holds(i, b) == \E n \in Buffer : gpu[i][n].block = b
HoldsDirty(i, b) == \E n \in Buffer : gpu[i][n].block = b /\ ~gpu[i][n].clean
Stored(i, b, f) == \E n \in Buffer : gpu[i][n].block = b /\ gpu[i][n].buf = f

ToDo(i, what, b, k) == \E s \in todo[i] : s.what = what /\ s.block = b /\ s.at = k

(* The current contents of a block are on GPU i, or on their way from it.  *)
Unmarked(i, b) == place[i] = "mark" /\ ToDo(i, "mark", b, i)
Owns(i, b) == HoldsDirty(i, b) \/ victim[i] = b \/ Unmarked(i, b)

Current(b) == <<b, written[b]>>

(* The stages of a thread's task.                                          *)
Updating(i) == place[i] \in {"update", "evict", "evicted", "write"}
Clearing(i) == place[i] = "clear" \/ (place[i] = "flush" /\ t[i] # 0)
Ready(i) == Updating(i) \/ Clearing(i) \/ place[i] = "mark"
Running(i) == place[i] = "check" \/ Ready(i)

(* Where a thread is in its code.                                          *)
ControlOf(i) ==
  /\ Running(i) => t[i] # 0 /\ state[t[i]] = "taken"
  /\ place[i] \in {"loop", "dequeue", "destroy", "exit"} => t[i] = 0
  /\ place[i] = "commit" /\ t[i] # 0 => state[t[i]] = "done"
  /\ Updating(i) => op[t[i]].gpu
  /\ Ready(i) => ok[i]
  /\ place[i] \in {"destroy", "exit"} => n_committed >= Len(op)
  /\ victim[i] # NULL <=> place[i] \in {"evict", "evicted"}
  /\ obj[i] # NULL <=> place[i] \in {"evict", "evicted", "write"}
  /\ place[i] \notin {"flush", "exit"} => reads[i] = {}
  /\ reads[i] \subseteq DOMAIN gpu_log[i]

ControlInv ==
  /\ \A i \in Worker : ControlOf(i)
  /\ \A i, k \in Worker : i # k /\ t[i] # 0 => t[i] # t[k]

TodoOf(i) ==
  /\ place[i] = "check" => todo[i] \subseteq CheckPlan(i, t[i])
  /\ Updating(i) => todo[i] \subseteq UpdatePlan(i, t[i])
  /\ Clearing(i) => todo[i] \subseteq ClearPlan(i, t[i])
  /\ place[i] = "mark" => todo[i] \subseteq MarkPlan(i, t[i])
  /\ ~Running(i) => todo[i] = {}

TodoInv == \A i \in Worker : TodoOf(i)

(* A task is taken after those that it depends on are done.                *)
OrderInv ==
  \A x \in DOMAIN op : state[x] # "waiting" =>
    \A y \in 1..(x - 1) : Conflict(x, y) => state[y] = "done"

CommittedTasks == {x \in DOMAIN op : state[x] = "done" /\ \A i \in Worker : t[i] # x}
CountInv == n_committed = Cardinality(CommittedTasks)

(* No block and no buffer is at two places of a GPU.                       *)
SlotInv ==
  \A i \in Worker : \A n, m \in Buffer : n # m =>
    /\ gpu[i][n].buf # gpu[i][m].buf
    /\ gpu[i][n].block # NULL => gpu[i][n].block # gpu[i][m].block

(* A block that is up to date only on one GPU is nowhere else.             *)
OwnerInv ==
  \A b \in Block : \A i \in Worker :
    /\ Owns(i, b) => \A k \in Worker \ {i} : ~Owns(k, b) /\ ~Holds(k, b)
    /\ victim[i] = b => ~Holds(i, b)
    /\ Unmarked(i, b) => Holds(i, b)

(* What has been checked of a task's blocks stays so.                      *)
CheckInv ==
  \A i \in Worker : Running(i) /\ ok[i] =>
    \A k \in Worker \ {i} : \A b \in Blocks(t[i]) :
      ~Owns(k, b) \/ (place[i] = "check" /\ ToDo(i, "check", b, k))

(* What has been invalidated stays so.                                     *)
AloneInv ==
  \A i, k \in Worker : (Updating(i) /\ i # k) \/ Clearing(i) =>
    \A b \in Outputs(t[i]) : ~Holds(k, b) \/ ToDo(i, "invalidate", b, k)

(* What has been flushed for a task on the CPU stays so.                   *)
ClearInv ==
  \A i \in Worker : Clearing(i) => \A b \in Blocks(t[i]) :
    \/ ~HoldsDirty(i, b) \/ ToDo(i, "flush", b, i)
    \/ place[i] = "flush" /\ b \in Logged(i)

(* The fetched blocks of a task are the first of its GPU.                  *)
Fetched(i, b) == b \in Blocks(t[i]) /\ ~ToDo(i, "fetch", b, i)

FetchOf(i) ==
  /\ Updating(i) =>
       /\ \A b \in Blocks(t[i]) : Fetched(i, b) => Stored(i, b, arg[i][b])
       /\ \A n, m \in Buffer :
            n < m /\ Fetched(i, gpu[i][m].block) => Fetched(i, gpu[i][n].block)
  /\ obj[i] # NULL => Fetched(i, obj[i]) /\ ~HoldsDirty(i, obj[i])

FetchInv == \A i \in Worker : FetchOf(i)

(* A logged block is dirty where it was until it is marked clean.          *)
LogAt(i, n) ==
  LET b == gpu_log[i][n].block
  IN  /\ b \in Block /\ Stored(i, b, gpu_log[i][n].buf) /\ HoldsDirty(i, b)
      /\ n \in reads[i] \/ main[b] = Current(b)

LogOf(i) ==
  /\ place[i] \in {"flush", "exit"} => \A n \in DOMAIN gpu_log[i] : LogAt(i, n)
  /\ place[i] = "exit" => \A b \in Block : HoldsDirty(i, b) => b \in Logged(i)

LogInv == \A i \in Worker : LogOf(i)

CopyInv ==
  \A i \in Worker : \A b \in Block : \A f \in Buffer :
    Stored(i, b, f) => device[i][f] = Current(b) \/ obj[i] = b

MainInv ==
  /\ \A b \in Block : main[b] = Current(b) \/ \E i \in Worker : Owns(i, b)
  /\ \A i \in Worker :
       /\ place[i] = "evict" => device[i][arg[i][obj[i]]] = Current(victim[i])
       /\ place[i] = "evicted" => main[victim[i]] = Current(victim[i])

(* The tasks that have written their blocks.                               *)
Ran(x) == state[x] = "done" \/ \E i \in Worker : t[i] = x /\ place[i] = "mark"
WrittenInv ==
  \A b \in Block : written[b] = Cardinality({x \in DOMAIN op : b \in Outputs(x) /\ Ran(x)})

ShapeInv == GpuTypeOK /\ ControlInv /\ TodoInv /\ SlotInv
TaskInv == OrderInv /\ CountInv /\ WrittenInv
DataInv == OwnerInv /\ CheckInv /\ AloneInv /\ ClearInv /\ FetchInv /\ LogInv /\ CopyInv /\ MainInv
GpuInv == ShapeInv /\ TaskInv /\ DataInv

-----------------------------------------------------------------------------
(* Tasks and the steps of their loops.                                     *)

LEMMA TaskFacts ==
  ASSUME GpuTypeOK
  PROVE  /\ op \in Seq(OpType) /\ Len(op) > 0 /\ Len(op) \in Nat /\ DOMAIN op = 1..Len(op)
         /\ \A x \in DOMAIN op : /\ op[x] \in OpType
                                 /\ Inputs(x) \subseteq Block /\ Outputs(x) \subseteq Block
                                 /\ Blocks(x) \subseteq Block
<1>1. op \in Seq(OpType) /\ op # <<>>
  BY GpuAssumption DEF GpuTypeOK
<1>2. Len(op) > 0 /\ Len(op) \in Nat /\ DOMAIN op = 1..Len(op)
  BY <1>1
<1>3. ASSUME NEW x \in DOMAIN op
      PROVE  /\ op[x] \in OpType /\ Inputs(x) \subseteq Block /\ Outputs(x) \subseteq Block
  <2>1. op[x] \in OpType
    BY <1>1
  <2>2. op[x].in \in Seq(Block) /\ op[x].out \in Seq(Block)
    BY <2>1 DEF OpType
  <2>3. QED
    BY <2>1, <2>2 DEF Inputs, Outputs, ToSet
<1>4. QED
  BY <1>1, <1>2, <1>3 DEF Blocks

(* Every element of a sequence has a first place in it.                    *)
LEMMA IndexType ==
  ASSUME NEW S, NEW s \in Seq(S), NEW b \in ToSet(s)
  PROVE  Index(s, b) \in Nat
<1> DEFINE Less == {e \in Nat \X Nat : e[1] < e[2]}
           Places == {n \in DOMAIN s : s[n] = b}
<1>1. IsWellFoundedOn(Less, Nat)
  BY NatLessThanWellFounded DEF OpToRel
<1>2. Places \subseteq Nat /\ Places # {}
  BY DEF ToSet
<1>3. PICK n \in Places : \A m \in Places : ~(<<m, n>> \in Less)
  <2> HIDE DEF Less, Places
  <2> QED BY <1>1, <1>2, WFMin
<1>4. n \in DOMAIN s /\ s[n] = b
  OBVIOUS
<1>5. ASSUME NEW m \in 1..(n - 1), s[m] = b PROVE FALSE
  <2>1. n \in 1..Len(s) /\ Len(s) \in Nat
    BY <1>4
  <2>2. m \in DOMAIN s /\ m < n /\ m \in Nat /\ n \in Nat
    BY <2>1
  <2>3. m \in Places /\ <<m, n>> \in Less
    BY <2>2, <1>5
  <2>4. QED
    BY <2>3, <1>3
<1>6. \E l \in DOMAIN s : s[l] = b /\ \A m \in 1..(l - 1) : s[m] # b
  BY <1>4, <1>5
<1>7. Index(s, b) \in DOMAIN s
  BY <1>6 DEF Index
<1>8. QED
  BY <1>7

LEMMA UpType ==
  ASSUME GpuTypeOK, NEW x \in DOMAIN op, NEW b \in Blocks(x)
  PROVE  Up(x, b) \in Int
<1>1. op[x] \in OpType
  BY TaskFacts
<1>2. op[x].in \in Seq(Block) /\ op[x].out \in Seq(Block)
  BY <1>1 DEF OpType
<1>3. b \in Outputs(x) => Index(op[x].out, b) \in Nat
  BY <1>2, IndexType DEF Outputs
<1>4. b \notin Outputs(x) => Index(op[x].in, b) \in Nat
  BY <1>2, IndexType DEF Blocks, Inputs
<1>5. Len(op[x].in) \in Nat
  BY <1>2
<1>6. QED
  BY <1>3, <1>4, <1>5 DEF Up

(* The steps of a plan, known by what they do with which block where.      *)
Apart(P) ==
  \A s, r \in P : s.what = r.what /\ s.block = r.block /\ s.at = r.at => s = r

LEMMA StepFields ==
  ASSUME NEW w, NEW b, NEW k, NEW e
  PROVE  /\ Step(w, b, k, e).what = w /\ Step(w, b, k, e).block = b
         /\ Step(w, b, k, e).at = k /\ Step(w, b, k, e).when = e
BY DEF Step

LEMMA CheckSteps ==
  ASSUME NEW i, NEW x
  PROVE  /\ \A s \in CheckPlan(i, x) :
              s.what = "check" /\ s.block \in Blocks(x) /\ s.at \in Worker \ {i}
         /\ \A b \in Blocks(x), k \in Worker \ {i} :
              \E s \in CheckPlan(i, x) : s.what = "check" /\ s.block = b /\ s.at = k
         /\ Apart(CheckPlan(i, x))
<1>1. \A s : s \in CheckPlan(i, x) <=>
        \E b \in Blocks(x), k \in Worker \ {i} : s = Step("check", b, k, <<Up(x, b), k, 0>>)
  BY DEF CheckPlan
<1>2. ASSUME NEW s \in CheckPlan(i, x)
      PROVE  /\ s.what = "check" /\ s.block \in Blocks(x) /\ s.at \in Worker \ {i}
             /\ s = Step("check", s.block, s.at, <<Up(x, s.block), s.at, 0>>)
  <2>1. PICK b \in Blocks(x), k \in Worker \ {i} : s = Step("check", b, k, <<Up(x, b), k, 0>>)
    BY <1>1
  <2>2. QED
    BY <2>1, StepFields
<1>3. ASSUME NEW b \in Blocks(x), NEW k \in Worker \ {i}
      PROVE  \E s \in CheckPlan(i, x) : s.what = "check" /\ s.block = b /\ s.at = k
  <2>1. Step("check", b, k, <<Up(x, b), k, 0>>) \in CheckPlan(i, x)
    BY <1>1
  <2>2. QED
    BY <2>1, StepFields
<1>4. Apart(CheckPlan(i, x))
  BY <1>2 DEF Apart
<1>5. QED
  BY <1>2, <1>3, <1>4

LEMMA UpdateSteps ==
  ASSUME NEW i, NEW x
  PROVE  /\ \A s \in UpdatePlan(i, x) :
              \/ s.what = "fetch" /\ s.block \in Blocks(x) /\ s.at = i
              \/ s.what = "invalidate" /\ s.block \in Outputs(x) /\ s.at \in Worker \ {i}
         /\ \A b \in Blocks(x) :
              \E s \in UpdatePlan(i, x) : s.what = "fetch" /\ s.block = b /\ s.at = i
         /\ \A b \in Outputs(x), k \in Worker \ {i} :
              \E s \in UpdatePlan(i, x) : s.what = "invalidate" /\ s.block = b /\ s.at = k
         /\ Apart(UpdatePlan(i, x))
<1>1. \A s : s \in UpdatePlan(i, x) <=>
        \/ \E b \in Blocks(x) : s = Step("fetch", b, i, <<Down(x, b), -1, 0>>)
        \/ \E b \in Outputs(x), k \in Worker \ {i} :
             s = Step("invalidate", b, k, <<Down(x, b), k, 0>>)
  BY DEF UpdatePlan
<1>2. ASSUME NEW s \in UpdatePlan(i, x)
      PROVE  \/ /\ s.what = "fetch" /\ s.block \in Blocks(x) /\ s.at = i
                /\ s = Step("fetch", s.block, i, <<Down(x, s.block), -1, 0>>)
             \/ /\ s.what = "invalidate" /\ s.block \in Outputs(x) /\ s.at \in Worker \ {i}
                /\ s = Step("invalidate", s.block, s.at, <<Down(x, s.block), s.at, 0>>)
  <2>1. CASE \E b \in Blocks(x) : s = Step("fetch", b, i, <<Down(x, b), -1, 0>>)
    <3>1. PICK b \in Blocks(x) : s = Step("fetch", b, i, <<Down(x, b), -1, 0>>)
      BY <2>1
    <3>2. QED
      BY <3>1, StepFields
  <2>2. CASE \E b \in Outputs(x), k \in Worker \ {i} :
               s = Step("invalidate", b, k, <<Down(x, b), k, 0>>)
    <3>1. PICK b \in Outputs(x), k \in Worker \ {i} :
            s = Step("invalidate", b, k, <<Down(x, b), k, 0>>)
      BY <2>2
    <3>2. QED
      BY <3>1, StepFields
  <2>3. QED
    BY <1>1, <2>1, <2>2
<1>3. ASSUME NEW b \in Blocks(x)
      PROVE  \E s \in UpdatePlan(i, x) : s.what = "fetch" /\ s.block = b /\ s.at = i
  <2>1. Step("fetch", b, i, <<Down(x, b), -1, 0>>) \in UpdatePlan(i, x)
    BY <1>1
  <2>2. QED
    BY <2>1, StepFields
<1>4. ASSUME NEW b \in Outputs(x), NEW k \in Worker \ {i}
      PROVE  \E s \in UpdatePlan(i, x) : s.what = "invalidate" /\ s.block = b /\ s.at = k
  <2>1. Step("invalidate", b, k, <<Down(x, b), k, 0>>) \in UpdatePlan(i, x)
    BY <1>1
  <2>2. QED
    BY <2>1, StepFields
<1>5. Apart(UpdatePlan(i, x))
  BY <1>2 DEF Apart
<1>6. QED
  BY <1>2, <1>3, <1>4, <1>5

LEMMA MarkSteps ==
  ASSUME NEW i, NEW x
  PROVE  /\ \A s \in MarkPlan(i, x) : s.what = "mark" /\ s.block \in Outputs(x) /\ s.at = i
         /\ \A b \in Outputs(x) :
              \E s \in MarkPlan(i, x) : s.what = "mark" /\ s.block = b /\ s.at = i
         /\ Apart(MarkPlan(i, x))
<1>1. \A s : s \in MarkPlan(i, x) <=>
        \E b \in Outputs(x) : s = Step("mark", b, i, <<Down(x, b), 0, 0>>)
  BY DEF MarkPlan
<1>2. ASSUME NEW s \in MarkPlan(i, x)
      PROVE  /\ s.what = "mark" /\ s.block \in Outputs(x) /\ s.at = i
             /\ s = Step("mark", s.block, i, <<Down(x, s.block), 0, 0>>)
  <2>1. PICK b \in Outputs(x) : s = Step("mark", b, i, <<Down(x, b), 0, 0>>)
    BY <1>1
  <2>2. QED
    BY <2>1, StepFields
<1>3. ASSUME NEW b \in Outputs(x)
      PROVE  \E s \in MarkPlan(i, x) : s.what = "mark" /\ s.block = b /\ s.at = i
  <2>1. Step("mark", b, i, <<Down(x, b), 0, 0>>) \in MarkPlan(i, x)
    BY <1>1
  <2>2. QED
    BY <2>1, StepFields
<1>4. Apart(MarkPlan(i, x))
  BY <1>2 DEF Apart
<1>5. QED
  BY <1>2, <1>3, <1>4

LEMMA ClearSteps ==
  ASSUME NEW i, NEW x
  PROVE  /\ \A s \in ClearPlan(i, x) :
              \/ /\ s.what = "flush" /\ s.block \in Blocks(x) /\ s.at = i
                 /\ s.when = <<i, Up(x, s.block), 0>>
              \/ /\ s.what = "invalidate" /\ s.block \in Outputs(x) /\ s.at \in Worker
                 /\ s.when = <<s.at, Up(x, s.block), 1>>
         /\ \A b \in Blocks(x) :
              \E s \in ClearPlan(i, x) : s.what = "flush" /\ s.block = b /\ s.at = i
         /\ \A b \in Outputs(x), k \in Worker :
              \E s \in ClearPlan(i, x) : s.what = "invalidate" /\ s.block = b /\ s.at = k
         /\ Apart(ClearPlan(i, x))
<1>1. \A s : s \in ClearPlan(i, x) <=>
        \/ \E b \in Blocks(x) : s = Step("flush", b, i, <<i, Up(x, b), 0>>)
        \/ \E b \in Outputs(x), k \in Worker :
             s = Step("invalidate", b, k, <<k, Up(x, b), 1>>)
  BY DEF ClearPlan
<1>2. ASSUME NEW s \in ClearPlan(i, x)
      PROVE  \/ /\ s.what = "flush" /\ s.block \in Blocks(x) /\ s.at = i
                /\ s.when = <<i, Up(x, s.block), 0>>
                /\ s = Step("flush", s.block, i, <<i, Up(x, s.block), 0>>)
             \/ /\ s.what = "invalidate" /\ s.block \in Outputs(x) /\ s.at \in Worker
                /\ s.when = <<s.at, Up(x, s.block), 1>>
                /\ s = Step("invalidate", s.block, s.at, <<s.at, Up(x, s.block), 1>>)
  <2>1. CASE \E b \in Blocks(x) : s = Step("flush", b, i, <<i, Up(x, b), 0>>)
    <3>1. PICK b \in Blocks(x) : s = Step("flush", b, i, <<i, Up(x, b), 0>>)
      BY <2>1
    <3>2. QED
      BY <3>1, StepFields
  <2>2. CASE \E b \in Outputs(x), k \in Worker : s = Step("invalidate", b, k, <<k, Up(x, b), 1>>)
    <3>1. PICK b \in Outputs(x), k \in Worker : s = Step("invalidate", b, k, <<k, Up(x, b), 1>>)
      BY <2>2
    <3>2. QED
      BY <3>1, StepFields
  <2>3. QED
    BY <1>1, <2>1, <2>2
<1>3. ASSUME NEW b \in Blocks(x)
      PROVE  \E s \in ClearPlan(i, x) : s.what = "flush" /\ s.block = b /\ s.at = i
  <2>1. Step("flush", b, i, <<i, Up(x, b), 0>>) \in ClearPlan(i, x)
    BY <1>1
  <2>2. QED
    BY <2>1, StepFields
<1>4. ASSUME NEW b \in Outputs(x), NEW k \in Worker
      PROVE  \E s \in ClearPlan(i, x) : s.what = "invalidate" /\ s.block = b /\ s.at = k
  <2>1. Step("invalidate", b, k, <<k, Up(x, b), 1>>) \in ClearPlan(i, x)
    BY <1>1
  <2>2. QED
    BY <2>1, StepFields
<1>5. Apart(ClearPlan(i, x))
  BY <1>2, ZenonT(60) DEF Apart
<1>6. QED
  BY <1>2, <1>3, <1>4, <1>5

(* A block is flushed before it is invalidated on the same GPU.            *)
LEMMA FlushedFirst ==
  ASSUME GpuTypeOK, NEW i \in Worker, t[i] \in DOMAIN op, todo[i] \subseteq ClearPlan(i, t[i]),
         NEW s \in todo[i], Due(i, s), s.what = "invalidate", s.at = i
  PROVE  ~ToDo(i, "flush", s.block, i)
<1> SUFFICES ASSUME NEW r \in todo[i], r.what = "flush", r.block = s.block PROVE FALSE
  BY DEF ToDo
<1>1. /\ s.block \in Blocks(t[i]) /\ s.when = <<i, Up(t[i], s.block), 1>>
      /\ r.when = <<i, Up(t[i], s.block), 0>>
  BY ClearSteps DEF Blocks
<1>2. Before(s, r)
  BY DEF Due
<1>3. i \in Int /\ Up(t[i], s.block) \in Int
  BY <1>1, UpType DEF Worker
<1>4. QED
  BY <1>1, <1>2, <1>3 DEF Before

(* What a step of one thread leaves alone of the others.                   *)
Untouched(k) ==
  /\ place'[k] = place[k] /\ todo'[k] = todo[k] /\ t'[k] = t[k] /\ ok'[k] = ok[k]
  /\ obj'[k] = obj[k] /\ arg'[k] = arg[k] /\ reads'[k] = reads[k] /\ gpu_log'[k] = gpu_log[k]
  /\ victim'[k] = victim[k] /\ device'[k] = device[k]

LEMMA Frame ==
  ASSUME GpuTypeOK, NEW i \in Worker, WorkOn(i)
  PROVE  op' = op /\ \A k \in Worker \ {i} : Untouched(k)
<1>0. op' = op
  BY Zenon DEF WorkOn, FlushGpu, Dequeue, Check, Verdict, Fetch, Evicted, Invalidate, MarkBlock,
           FlushBlock, Clean, Read, ReadVictim, Write, Compute, ComputeOnCpu, Release, Commit,
           Destroy, tasks
<1> SUFFICES ASSUME NEW k \in Worker \ {i} PROVE Untouched(k)
  BY <1>0
<1>7. CASE Invalidate(i)
  <2>1. /\ UNCHANGED <<tasks, victim, log, place, obj, arg, memory>>
        /\ \E s \in todo[i] : Continue(i, s)
    BY <1>7, Zenon DEF Invalidate
  <2>2. QED
    BY <2>1 DEF GpuTypeOK, Untouched, tasks, log, memory, Continue
<1>8. CASE MarkBlock(i)
  <2>1. /\ UNCHANGED <<tasks, victim, log, place, obj, arg, memory>>
        /\ \E s \in todo[i] : Continue(i, s)
    BY <1>8, Zenon DEF MarkBlock
  <2>2. QED
    BY <2>1 DEF GpuTypeOK, Untouched, tasks, log, memory, Continue
<1>10. CASE Clean(i)
  <2>1. /\ UNCHANGED <<tasks, victim, reads, todo, obj, arg, memory>>
        /\ gpu_log' = [gpu_log EXCEPT ![i] = <<>>]
        /\ Enter(i, IF t[i] = 0 THEN "dequeue" ELSE "clear")
    BY <1>10, Zenon DEF Clean
  <2>2. QED
    BY <2>1 DEF GpuTypeOK, Untouched, tasks, memory, Enter
<1> USE DEF GpuTypeOK, Untouched, tasks, cache, log, memory, Enter, Continue, LogSlots
<1>1. CASE FlushGpu(i)
  BY <1>1 DEF FlushGpu
<1>2. CASE Dequeue(i)
  BY <1>2 DEF Dequeue
<1>3. CASE Check(i)
  BY <1>3 DEF Check
<1>4. CASE Verdict(i)
  BY <1>4 DEF Verdict
<1>5. CASE Fetch(i)
  BY <1>5 DEF Fetch
<1>6. CASE Evicted(i)
  BY <1>6 DEF Evicted
<1>9. CASE FlushBlock(i)
  BY <1>9 DEF FlushBlock
<1>11. CASE Read(i)
  BY <1>11 DEF Read
<1>12. CASE ReadVictim(i)
  BY <1>12 DEF ReadVictim
<1>13. CASE Write(i)
  BY <1>13 DEF Write
<1>14. CASE Compute(i)
  BY <1>14 DEF Compute
<1>15. CASE ComputeOnCpu(i)
  BY <1>15 DEF ComputeOnCpu
<1>16. CASE Release(i)
  BY <1>16 DEF Release
<1>17. CASE Commit(i)
  BY <1>17 DEF Commit
<1>18. CASE Destroy(i)
  BY <1>18 DEF Destroy
<1>19. QED
  BY <1>1, <1>2, <1>3, <1>4, <1>5, <1>6, <1>7, <1>8, <1>9, <1>10, <1>11, <1>12, <1>13, <1>14,
     <1>15, <1>16, <1>17, <1>18 DEF WorkOn

LEMMA BlocksSame ==
  ASSUME op' = op, NEW x
  PROVE  /\ Inputs(x)' = Inputs(x) /\ Outputs(x)' = Outputs(x) /\ Blocks(x)' = Blocks(x)
         /\ Outputs(x) \subseteq Blocks(x)
BY DEF Inputs, Outputs, Blocks

(* So are the stages of the others' tasks.                                 *)
LEMMA StageSame ==
  ASSUME op' = op, NEW k, Untouched(k)
  PROVE  /\ Updating(k)' = Updating(k) /\ Clearing(k)' = Clearing(k)
         /\ Ready(k)' = Ready(k) /\ Running(k)' = Running(k)
         /\ Blocks(t[k])' = Blocks(t[k]) /\ Outputs(t[k])' = Outputs(t[k])
         /\ \A what, b, m : ToDo(k, what, b, m)' = ToDo(k, what, b, m)
         /\ \A b : Unmarked(k, b)' = Unmarked(k, b) /\ Fetched(k, b)' = Fetched(k, b)
         /\ Logged(k)' = Logged(k)
<1>1. /\ Updating(k)' = Updating(k) /\ Clearing(k)' = Clearing(k)
      /\ Ready(k)' = Ready(k) /\ Running(k)' = Running(k)
  BY DEF Untouched, Updating, Clearing, Ready, Running
<1>2. Blocks(t[k])' = Blocks(t[k]) /\ Outputs(t[k])' = Outputs(t[k])
  BY DEF Untouched, Blocks, Inputs, Outputs
<1>3. \A what, b, m : ToDo(k, what, b, m)' = ToDo(k, what, b, m)
  BY DEF Untouched, ToDo
<1>4. \A b : Unmarked(k, b)' = Unmarked(k, b) /\ Fetched(k, b)' = Fetched(k, b)
  BY <1>2, <1>3 DEF Untouched, Unmarked, Fetched
<1>5. Logged(k)' = Logged(k)
  BY DEF Untouched, Logged
<1>6. QED
  BY <1>1, <1>2, <1>3, <1>4, <1>5

(* The tasks of two threads that are at work do not conflict.              *)
LEMMA RunningTask ==
  ASSUME GpuTypeOK, ControlInv, NEW i \in Worker, Running(i)
  PROVE  /\ t[i] \in DOMAIN op /\ state[t[i]] = "taken"
         /\ Outputs(t[i]) \subseteq Blocks(t[i]) /\ Blocks(t[i]) \subseteq Block
<1>1. t[i] \in DOMAIN op /\ state[t[i]] = "taken"
  BY DEF GpuTypeOK, ControlInv, ControlOf
<1>2. QED
  BY <1>1, TaskFacts DEF Blocks

LEMMA NoConflict ==
  ASSUME GpuTypeOK, ControlInv, OrderInv, NEW i \in Worker, NEW k \in Worker, i # k,
         Running(i), Running(k)
  PROVE  /\ ~Conflict(t[i], t[k])
         /\ \A b \in Outputs(t[i]) : b \notin Blocks(t[k])
<1>1. /\ t[i] \in DOMAIN op /\ t[k] \in DOMAIN op /\ t[i] # t[k]
      /\ state[t[i]] = "taken" /\ state[t[k]] = "taken"
  BY RunningTask DEF ControlInv, ControlOf
<1>2. t[i] \in Nat /\ t[k] \in Nat /\ t[i] > 0 /\ t[k] > 0
  BY <1>1, TaskFacts
<1>3. t[i] < t[k] => ~Conflict(t[k], t[i])
  BY <1>1, <1>2 DEF OrderInv
<1>4. t[k] < t[i] => ~Conflict(t[i], t[k])
  BY <1>1, <1>2 DEF OrderInv
<1>5. Conflict(t[k], t[i]) <=> Conflict(t[i], t[k])
  BY DEF Conflict
<1>6. ~Conflict(t[i], t[k])
  BY <1>1, <1>2, <1>3, <1>4, <1>5
<1>7. QED
  BY <1>6 DEF Conflict

(* Nobody else has a block of a task that is ready for itself.             *)
LEMMA NotOwned ==
  ASSUME CheckInv, ControlInv, NEW i \in Worker, Ready(i), NEW b \in Blocks(t[i]),
         NEW k \in Worker, k # i
  PROVE  ~Owns(k, b)
<1>1. Running(i) /\ ok[i] /\ place[i] # "check"
  BY DEF Ready, Running, Updating, Clearing, ControlInv, ControlOf
<1>2. QED
  BY <1>1 DEF CheckInv

(* What happens when a loop takes a step.                                  *)
LEMMA StepTaken ==
  ASSUME GpuTypeOK, NEW i \in Worker, Apart(todo[i]), NEW s \in todo[i], Continue(i, s)
  PROVE  /\ ToDo(i, s.what, s.block, s.at)
         /\ \A what, b, k :
              ToDo(i, what, b, k)' <=>
                ToDo(i, what, b, k) /\ ~(what = s.what /\ b = s.block /\ k = s.at)
<1>1. todo'[i] = todo[i] \ {s}
  BY DEF GpuTypeOK, Continue
<1>2. QED
  BY <1>1 DEF Apart, ToDo

LEMMA TodoApart ==
  ASSUME TodoInv, NEW i \in Worker
  PROVE  Apart(todo[i])
<1>1. CASE place[i] = "check"
  BY <1>1, CheckSteps DEF TodoInv, TodoOf, Apart
<1>2. CASE Updating(i)
  BY <1>2, UpdateSteps DEF TodoInv, TodoOf, Apart
<1>3. CASE Clearing(i)
  BY <1>3, ClearSteps DEF TodoInv, TodoOf, Apart
<1>4. CASE place[i] = "mark"
  BY <1>4, MarkSteps DEF TodoInv, TodoOf, Apart
<1>5. CASE ~Running(i)
  BY <1>5 DEF TodoInv, TodoOf, Apart
<1>6. QED
  BY <1>1, <1>2, <1>3, <1>4, <1>5 DEF Running, Ready

-----------------------------------------------------------------------------
(* The slots of a GPU.                                                     *)

LEMMA BlocksFinite ==
  ASSUME GpuTypeOK, NEW x \in DOMAIN op
  PROVE  IsFiniteSet(Blocks(x))
<1>1. op[x].in \in Seq(Block) /\ op[x].out \in Seq(Block)
  BY TaskFacts DEF OpType
<1>2. ASSUME NEW s \in Seq(Block) PROVE IsFiniteSet(ToSet(s))
  <2>1. s \in Surjection(1..Len(s), ToSet(s)) /\ Len(s) \in Nat
    BY <1>2 DEF Surjection, ToSet
  <2>2. IsFiniteSet(1..Len(s))
    BY <2>1, FS_Interval
  <2>3. QED
    BY <2>1, <2>2, FS_Surjection
<1>3. QED
  BY <1>1, <1>2, FS_Union DEF Blocks, Inputs, Outputs

(* A task with a block for the GPU finds a slot there.                     *)
LEMMA SlotsEnough ==
  ASSUME GpuTypeOK, NEW x \in DOMAIN op, op[x].gpu
  PROVE  /\ IsFiniteSet(Blocks(x)) /\ Cardinality(Blocks(x)) \in Nat
         /\ Cardinality(Blocks(x)) <= NBlocks
         /\ Blocks(x) # {} => NBlocks \in Buffer
<1>1. IsFiniteSet(Blocks(x)) /\ Cardinality(Blocks(x)) \in Nat
  BY BlocksFinite, FS_CardinalityType
<1>2. Blocks(x) = Operands(op[x])
  BY DEF Blocks, Inputs, Outputs, Operands
<1>3. Cardinality(Blocks(x)) <= NBlocks
  BY <1>2, TaskFacts, GpuAssumption DEF GpuTypeOK
<1>4. Blocks(x) # {} => Cardinality(Blocks(x)) > 0
  BY <1>1, FS_EmptySet
<1>5. QED
  BY <1>1, <1>3, <1>4, GpuAssumption DEF Buffer

LEMMA FirstLocated ==
  ASSUME SlotInv, NEW k \in Worker, NEW b \in Block, NEW n \in Located(k, b)
  PROVE  n \in Buffer /\ Located(k, b) = {n} /\ First(Located(k, b)) = n
<1>1. n \in Buffer /\ gpu[k][n].block = b /\ b # NULL
  BY GpuAssumption DEF Located
<1>2. \A m \in Located(k, b) : m = n
  BY <1>1 DEF SlotInv, Located
<1>3. Located(k, b) = {n}
  BY <1>2
<1>4. n <= n
  BY <1>1 DEF Buffer
<1>5. First({n}) = n
  BY <1>4 DEF First
<1>6. QED
  BY <1>1, <1>3, <1>5

LEMMA PlaceForBlock ==
  ASSUME GpuTypeOK, SlotInv, NEW i \in Worker, NEW b \in Block, NBlocks \in Buffer
  PROVE  /\ PlaceFor(i, b) \in Buffer
         /\ \/ gpu[i][PlaceFor(i, b)].block = b
            \/ PlaceFor(i, b) = NBlocks /\ \A n \in Buffer : gpu[i][n].block # b
<1>1. CASE \E n \in Located(i, b) : n # NBlocks
  <2>1. PICK n \in Located(i, b) : n # NBlocks
    BY <1>1
  <2>2. n \in Buffer /\ Located(i, b) = {n} /\ First(Located(i, b)) = n
    BY <2>1, FirstLocated
  <2>3. Located(i, b) \ {NBlocks} = {n}
    BY <2>1, <2>2
  <2>4. PlaceFor(i, b) = n
    BY <2>2, <2>3 DEF PlaceFor
  <2>5. gpu[i][n].block = b
    BY <2>1 DEF Located
  <2>6. QED
    BY <2>2, <2>4, <2>5
<1>2. CASE \A n \in Located(i, b) : n = NBlocks
  <2>1. Located(i, b) \ {NBlocks} = {}
    BY <1>2
  <2>2. PlaceFor(i, b) = NBlocks
    BY <2>1 DEF PlaceFor
  <2>3. QED
    BY <1>2, <2>2 DEF Located
<1>3. QED
  BY <1>1, <1>2

(* G is s after the slot at place k has become first, as e.                *)
Reordered(G, s, k, e) ==
  /\ 1 \in Buffer /\ G[1] = e
  /\ \A n \in Buffer : n # 1 /\ n <= k => n - 1 \in Buffer /\ G[n] = s[n - 1]
  /\ \A n \in Buffer : n # 1 /\ ~(n <= k) => G[n] = s[n]
  /\ \A n \in Buffer : n # k /\ n < k => n + 1 \in Buffer /\ G[n + 1] = s[n]
  /\ \A n \in Buffer : n # k /\ ~(n < k) => G[n] = s[n] /\ n # 1

LEMMA UsedLastSlots ==
  ASSUME NEW s \in [Buffer -> Slot], NEW k \in Buffer, NEW e \in Slot
  PROVE  /\ UsedLast(s, k, e) \in [Buffer -> Slot]
         /\ Reordered(UsedLast(s, k, e), s, k, e)
<1>1. NBlocks \in Nat /\ 1 \in Buffer
  BY GpuAssumption DEF Buffer
<1>2. \A n \in Buffer : n # 1 => n - 1 \in Buffer
  BY <1>1 DEF Buffer
<1>3. \A n \in Buffer : n < k => n + 1 \in Buffer /\ n + 1 <= k /\ n + 1 # 1 /\ (n + 1) - 1 = n
  BY <1>1 DEF Buffer
<1>4. \A n \in Buffer : n # k /\ ~(n < k) => ~(n <= k) /\ n # 1
  BY <1>1 DEF Buffer
<1>5. \A n \in Buffer :
        UsedLast(s, k, e)[n] = IF n = 1 THEN e ELSE IF n <= k THEN s[n - 1] ELSE s[n]
  BY DEF UsedLast
<1>6. UsedLast(s, k, e) \in [Buffer -> Slot]
  BY <1>2 DEF UsedLast
<1>7. QED
  BY <1>1, <1>2, <1>3, <1>4, <1>5, <1>6 DEF Reordered

LEMMA EmptySlot ==
  ASSUME NEW e \in Slot
  PROVE  Empty(e) \in Slot /\ Empty(e).block = NULL /\ Empty(e).clean = TRUE
         /\ Empty(e).buf = e.buf
BY DEF Slot, Empty

LEMMA FreedSlots ==
  ASSUME NEW s \in [Buffer -> Slot], NEW k \in Buffer
  PROVE  /\ Freed(s, k) \in [Buffer -> Slot]
         /\ NBlocks \in Buffer /\ Freed(s, k)[NBlocks] = Empty(s[k])
         /\ Empty(s[k]).block = NULL /\ Empty(s[k]).clean = TRUE /\ Empty(s[k]).buf = s[k].buf
         /\ \A n \in Buffer : n # NBlocks =>
              IF n < k THEN Freed(s, k)[n] = s[n]
                       ELSE n + 1 \in Buffer /\ Freed(s, k)[n] = s[n + 1]
         /\ \A n \in Buffer : n # k =>
              IF n < k THEN Freed(s, k)[n] = s[n] /\ n # NBlocks
                       ELSE n - 1 \in Buffer /\ n - 1 # NBlocks /\ Freed(s, k)[n - 1] = s[n]
<1>1. NBlocks \in Nat /\ NBlocks \in Buffer /\ k <= NBlocks
  BY GpuAssumption DEF Buffer
<1>2. \A n \in Buffer : n # NBlocks => n + 1 \in Buffer /\ n < NBlocks
  BY <1>1 DEF Buffer
<1>3. \A n \in Buffer : n # k /\ ~(n < k) =>
        /\ n - 1 \in Buffer /\ n - 1 # NBlocks /\ n - 1 < NBlocks
        /\ ~(n - 1 < k) /\ (n - 1) + 1 = n
  BY <1>1 DEF Buffer
<1>4. \A n \in Buffer : n < k => n # NBlocks
  BY <1>1 DEF Buffer
<1>5. \A n \in Buffer : Freed(s, k)[n] =
        IF n < k THEN s[n] ELSE IF n < NBlocks THEN s[n + 1] ELSE Empty(s[k])
  BY DEF Freed
<1>6. Empty(s[k]) \in Slot /\ Empty(s[k]).block = NULL /\ Empty(s[k]).clean = TRUE
      /\ Empty(s[k]).buf = s[k].buf
  BY EmptySlot
<1>7. \A n \in Buffer : ~(n < NBlocks) => n = NBlocks
  BY <1>1 DEF Buffer
<1>8. Freed(s, k) \in [Buffer -> Slot]
  <2>1. \A n \in Buffer :
          (IF n < k THEN s[n] ELSE IF n < NBlocks THEN s[n + 1] ELSE Empty(s[k])) \in Slot
    <3>1. \A n \in Buffer : n < NBlocks => n # NBlocks
      BY <1>1 DEF Buffer
    <3>2. QED
      BY <1>2, <1>6, <3>1
  <2>2. QED
    BY <2>1 DEF Freed
<1>9. ~(NBlocks < k) /\ ~(NBlocks < NBlocks)
  BY <1>1 DEF Buffer
<1>10. QED
  BY <1>1, <1>2, <1>3, <1>4, <1>5, <1>6, <1>8, <1>9

(* An output of the task, a block that has been flushed.                   *)
Marked(e) == [e EXCEPT !.clean = FALSE, !.request = FALSE]
Cleaned(e) == [e EXCEPT !.clean = TRUE, !.request = FALSE]

LEMMA ChangedSlot ==
  ASSUME NEW e \in Slot
  PROVE  /\ Marked(e) \in Slot /\ Marked(e).block = e.block /\ Marked(e).clean = FALSE
         /\ Marked(e).buf = e.buf
         /\ Cleaned(e) \in Slot /\ Cleaned(e).block = e.block /\ Cleaned(e).clean = TRUE
         /\ Cleaned(e).buf = e.buf
BY DEF Slot, Marked, Cleaned

(* What a GPU holds does not change.                                       *)
SameSlots(k) ==
  \A b \in Block :
    /\ Holds(k, b)' <=> Holds(k, b)
    /\ HoldsDirty(k, b)' <=> HoldsDirty(k, b)
    /\ \A f \in Buffer : Stored(k, b, f)' <=> Stored(k, b, f)

LEMMA SlotsUnchanged ==
  ASSUME NEW k, gpu'[k] = gpu[k]
  PROVE  SameSlots(k)
BY DEF SameSlots, Holds, HoldsDirty, Stored

(* Blocks, buffers and places stay in a loop over the slots of one GPU.    *)
LEMMA SlotsKept ==
  ASSUME GpuTypeOK, SlotInv, NEW k, NEW F \in [Buffer -> Slot], gpu' = [gpu EXCEPT ![k] = F],
         \A n \in Buffer : k \in Worker =>
           F[n].block = gpu[k][n].block /\ F[n].buf = gpu[k][n].buf
  PROVE  /\ gpu' \in [Worker -> [Buffer -> Slot]] /\ SlotInv'
         /\ k \in Worker => gpu'[k] = F
         /\ \A j \in Worker \ {k} : gpu'[j] = gpu[j]
         /\ \A j \in Worker, n \in Buffer : gpu'[j][n].block = gpu[j][n].block
                                            /\ gpu'[j][n].buf = gpu[j][n].buf
         /\ \A j \in Worker, b \in Block :
              (Holds(j, b)' <=> Holds(j, b))
                /\ \A f \in Buffer : (Stored(j, b, f)' <=> Stored(j, b, f))
<1>1. gpu' \in [Worker -> [Buffer -> Slot]] /\ (k \in Worker => gpu'[k] = F)
      /\ \A j \in Worker \ {k} : gpu'[j] = gpu[j]
  BY DEF GpuTypeOK
<1>2. \A j \in Worker, n \in Buffer :
        gpu'[j][n].block = gpu[j][n].block /\ gpu'[j][n].buf = gpu[j][n].buf
  BY <1>1
<1>3. SlotInv'
  BY <1>2 DEF SlotInv
<1>4. \A j \in Worker, b \in Block :
        (Holds(j, b)' <=> Holds(j, b)) /\ \A f \in Buffer : (Stored(j, b, f)' <=> Stored(j, b, f))
  BY <1>2 DEF Holds, Stored
<1>5. QED
  BY <1>1, <1>2, <1>3, <1>4

LEMMA CheckEffect ==
  ASSUME GpuTypeOK, SlotInv, NEW i \in Worker, Check(i)
  PROVE  /\ gpu' \in [Worker -> [Buffer -> Slot]] /\ SlotInv'
         /\ \A k \in Worker : SameSlots(k)
         /\ \A k \in Worker, n \in Buffer : gpu'[k][n].block = gpu[k][n].block
<1>1. PICK s \in todo[i] : gpu' = Requesting(s.at, s.block)
  BY Zenon DEF Check
<1>k. PICK k : k = s.at
  OBVIOUS
<1> DEFINE F == [n \in Buffer |-> IF gpu[k][n].block = s.block /\ Dirty(gpu[k][n])
              THEN [gpu[k][n] EXCEPT !.request = TRUE] ELSE gpu[k][n]]
<1>2. gpu' = [gpu EXCEPT ![k] = F]
  BY <1>1, <1>k DEF Requesting
<1>3. CASE k \in Worker
  <2>1. \A n \in Buffer : gpu[k][n] \in Slot
    BY <1>3 DEF GpuTypeOK
  <2>2. \A n \in Buffer : F[n] \in Slot /\ F[n].block = gpu[k][n].block
                          /\ F[n].buf = gpu[k][n].buf /\ F[n].clean = gpu[k][n].clean
    <3> SUFFICES ASSUME NEW n \in Buffer
                 PROVE  F[n] \in Slot /\ F[n].block = gpu[k][n].block
                          /\ F[n].buf = gpu[k][n].buf /\ F[n].clean = gpu[k][n].clean
      OBVIOUS
    <3>1. F[n] = gpu[k][n] \/ F[n] = [gpu[k][n] EXCEPT !.request = TRUE]
      OBVIOUS
    <3>2. /\ [gpu[k][n] EXCEPT !.request = TRUE] \in Slot
          /\ [gpu[k][n] EXCEPT !.request = TRUE].block = gpu[k][n].block
          /\ [gpu[k][n] EXCEPT !.request = TRUE].clean = gpu[k][n].clean
          /\ [gpu[k][n] EXCEPT !.request = TRUE].buf = gpu[k][n].buf
      <4> HIDE DEF F
      <4>1. gpu[k][n] \in Slot
        BY <2>1
      <4>2. PICK e \in Slot : e = gpu[k][n]
        BY <4>1
      <4>3. QED
        BY <4>2 DEF Slot
    <3> HIDE DEF F
    <3>3. QED
      BY <2>1, <3>1, <3>2
  <2>3. F \in [Buffer -> Slot]
    BY <2>2
  <2> HIDE DEF F
  <2>4. /\ gpu' \in [Worker -> [Buffer -> Slot]] /\ SlotInv' /\ gpu'[k] = F
        /\ \A j \in Worker \ {k} : gpu'[j] = gpu[j]
        /\ \A j \in Worker, n \in Buffer : gpu'[j][n].block = gpu[j][n].block
        /\ \A j \in Worker, b \in Block :
             (Holds(j, b)' <=> Holds(j, b))
                /\ \A f \in Buffer : (Stored(j, b, f)' <=> Stored(j, b, f))
    <3>1. \A n \in Buffer : k \in Worker =>
            F[n].block = gpu[k][n].block /\ F[n].buf = gpu[k][n].buf
      BY <2>2
    <3>2. PICK G \in [Buffer -> Slot] : G = F
      BY <2>3
    <3>3. gpu' = [gpu EXCEPT ![k] = G]
      BY <1>2, <3>2
    <3>4. \A n \in Buffer : k \in Worker =>
            G[n].block = gpu[k][n].block /\ G[n].buf = gpu[k][n].buf
      BY <3>1, <3>2
    <3>5. /\ gpu' \in [Worker -> [Buffer -> Slot]] /\ SlotInv'
          /\ k \in Worker => gpu'[k] = G
          /\ \A j \in Worker \ {k} : gpu'[j] = gpu[j]
          /\ \A j \in Worker, n \in Buffer : gpu'[j][n].block = gpu[j][n].block
                                             /\ gpu'[j][n].buf = gpu[j][n].buf
          /\ \A j \in Worker, b \in Block :
               (Holds(j, b)' <=> Holds(j, b))
                 /\ \A f \in Buffer : (Stored(j, b, f)' <=> Stored(j, b, f))
      BY <3>3, <3>4, SlotsKept
    <3>6. QED
      BY <1>3, <3>2, <3>5
  <2>5. \A j \in Worker \ {k} : SameSlots(j)
    BY <2>4, SlotsUnchanged
  <2>6. \A b \in Block : HoldsDirty(k, b)' <=> HoldsDirty(k, b)
    <3>1. \A n \in Buffer : gpu'[k][n].block = gpu[k][n].block
                            /\ gpu'[k][n].clean = gpu[k][n].clean
      BY <2>2, <2>4
    <3>2. QED
      BY <3>1 DEF HoldsDirty
  <2>7. \A j \in Worker, b \in Block : HoldsDirty(j, b)' <=> HoldsDirty(j, b)
    BY <2>5, <2>6 DEF SameSlots
  <2>8. QED
    BY <2>4, <2>7 DEF SameSlots
<1>4. CASE k \notin Worker
  <2> HIDE DEF F
  <2>1. gpu' = gpu
    BY <1>2, <1>4 DEF GpuTypeOK
  <2>2. QED
    BY <2>1, SlotsUnchanged DEF GpuTypeOK, SlotInv
<1>5. QED
  BY <1>3, <1>4

LEMMA MarkEffect ==
  ASSUME GpuTypeOK, SlotInv, NEW i \in Worker, MarkBlock(i)
  PROVE  /\ gpu' \in [Worker -> [Buffer -> Slot]] /\ SlotInv'
         /\ \A k \in Worker \ {i} : gpu'[k] = gpu[k]
         /\ \E s \in todo[i] : /\ Continue(i, s)
              /\ \A b \in Block :
                   /\ Holds(i, b)' <=> Holds(i, b)
                   /\ HoldsDirty(i, b)' <=> HoldsDirty(i, b) \/ (b = s.block /\ Holds(i, b))
                   /\ \A f \in Buffer : Stored(i, b, f)' <=> Stored(i, b, f)
<1>1. PICK s \in todo[i] : /\ Continue(i, s)
        /\ gpu' = [gpu EXCEPT ![i] = [n \in Buffer |->
                     IF @[n].block = s.block THEN Marked(@[n]) ELSE @[n]]]
  BY Zenon DEF MarkBlock, Marked
<1> DEFINE F == [n \in Buffer |->
                   IF gpu[i][n].block = s.block THEN Marked(gpu[i][n]) ELSE gpu[i][n]]
<1>2. gpu' = [gpu EXCEPT ![i] = F]
  BY <1>1
<1>3. ASSUME NEW n \in Buffer
      PROVE  /\ F[n] \in Slot /\ F[n].block = gpu[i][n].block /\ F[n].buf = gpu[i][n].buf
             /\ F[n].clean = IF gpu[i][n].block = s.block THEN FALSE ELSE gpu[i][n].clean
  <2>1. gpu[i][n] \in Slot
    BY DEF GpuTypeOK
  <2>2. F[n] = IF gpu[i][n].block = s.block THEN Marked(gpu[i][n]) ELSE gpu[i][n]
    OBVIOUS
  <2> HIDE DEF F
  <2>3. /\ Marked(gpu[i][n]) \in Slot /\ Marked(gpu[i][n]).block = gpu[i][n].block
        /\ Marked(gpu[i][n]).buf = gpu[i][n].buf
        /\ Marked(gpu[i][n]).clean = FALSE
    BY <2>1, ChangedSlot
  <2>4. QED
    BY <2>1, <2>2, <2>3
<1>4. F \in [Buffer -> Slot]
  BY <1>3
<1> HIDE DEF F
<1>5. /\ gpu' \in [Worker -> [Buffer -> Slot]] /\ SlotInv' /\ gpu'[i] = F
      /\ \A j \in Worker \ {i} : gpu'[j] = gpu[j]
      /\ \A b \in Block :
           (Holds(i, b)' <=> Holds(i, b)) /\ \A f \in Buffer : Stored(i, b, f)' <=> Stored(i, b, f)
  <2>1. PICK G \in [Buffer -> Slot] : G = F
    BY <1>4
  <2>2. gpu' = [gpu EXCEPT ![i] = G]
    BY <1>2, <2>1
  <2>3. \A n \in Buffer : i \in Worker =>
          G[n].block = gpu[i][n].block /\ G[n].buf = gpu[i][n].buf
    BY <1>3, <2>1
  <2>4. QED
    BY <2>1, <2>2, <2>3, SlotsKept, ZenonT(60)
<1>6. \A b \in Block : HoldsDirty(i, b)' <=> HoldsDirty(i, b) \/ (b = s.block /\ Holds(i, b))
  <2>1. \A n \in Buffer :
          /\ gpu'[i][n].block = gpu[i][n].block
          /\ gpu'[i][n].clean = IF gpu[i][n].block = s.block THEN FALSE ELSE gpu[i][n].clean
    BY <1>3, <1>5
  <2>2. QED
    BY <2>1 DEF HoldsDirty, Holds
<1>7. QED
  BY <1>1, <1>5, <1>6

LEMMA CleanEffect ==
  ASSUME GpuTypeOK, SlotInv, NEW i \in Worker, Clean(i)
  PROVE  /\ gpu' \in [Worker -> [Buffer -> Slot]] /\ SlotInv'
         /\ \A k \in Worker \ {i} : gpu'[k] = gpu[k]
         /\ \A b \in Block :
              /\ Holds(i, b)' <=> Holds(i, b)
              /\ HoldsDirty(i, b)' <=> HoldsDirty(i, b) /\ b \notin Logged(i)
              /\ \A f \in Buffer : Stored(i, b, f)' <=> Stored(i, b, f)
<1>1. PICK L : L = Logged(i)
  OBVIOUS
<1> DEFINE F == [n \in Buffer |->
                   IF gpu[i][n].block \in L THEN Cleaned(gpu[i][n]) ELSE gpu[i][n]]
<1>2. gpu' = [gpu EXCEPT ![i] = F]
  BY <1>1, Zenon DEF Clean, Cleaned
<1>3. ASSUME NEW n \in Buffer
      PROVE  /\ F[n] \in Slot /\ F[n].block = gpu[i][n].block /\ F[n].buf = gpu[i][n].buf
             /\ F[n].clean = IF gpu[i][n].block \in L THEN TRUE ELSE gpu[i][n].clean
  <2>1. gpu[i][n] \in Slot
    BY DEF GpuTypeOK
  <2>2. F[n] = IF gpu[i][n].block \in L THEN Cleaned(gpu[i][n]) ELSE gpu[i][n]
    OBVIOUS
  <2> HIDE DEF F
  <2>3. /\ Cleaned(gpu[i][n]) \in Slot /\ Cleaned(gpu[i][n]).block = gpu[i][n].block
        /\ Cleaned(gpu[i][n]).buf = gpu[i][n].buf
        /\ Cleaned(gpu[i][n]).clean = TRUE
    BY <2>1, ChangedSlot
  <2>4. QED
    BY <2>1, <2>2, <2>3
<1>4. F \in [Buffer -> Slot]
  BY <1>3
<1> HIDE DEF F
<1>5. /\ gpu' \in [Worker -> [Buffer -> Slot]] /\ SlotInv' /\ gpu'[i] = F
      /\ \A j \in Worker \ {i} : gpu'[j] = gpu[j]
      /\ \A b \in Block :
           (Holds(i, b)' <=> Holds(i, b)) /\ \A f \in Buffer : Stored(i, b, f)' <=> Stored(i, b, f)
  <2>1. PICK G \in [Buffer -> Slot] : G = F
    BY <1>4
  <2>2. gpu' = [gpu EXCEPT ![i] = G]
    BY <1>2, <2>1
  <2>3. \A n \in Buffer : i \in Worker =>
          G[n].block = gpu[i][n].block /\ G[n].buf = gpu[i][n].buf
    BY <1>3, <2>1
  <2>4. QED
    BY <2>1, <2>2, <2>3, SlotsKept, ZenonT(60)
<1>6. \A b \in Block : HoldsDirty(i, b)' <=> HoldsDirty(i, b) /\ b \notin L
  <2>1. \A n \in Buffer :
          /\ gpu'[i][n].block = gpu[i][n].block
          /\ gpu'[i][n].clean = IF gpu[i][n].block \in L THEN TRUE ELSE gpu[i][n].clean
    BY <1>3, <1>5
  <2>2. QED
    BY <2>1 DEF HoldsDirty
<1>7. QED
  BY <1>1, <1>5, <1>6

LEMMA InvalidateEffect ==
  ASSUME GpuTypeOK, ControlInv, SlotInv, TodoInv, NEW i \in Worker, Invalidate(i)
  PROVE  /\ gpu' \in [Worker -> [Buffer -> Slot]] /\ SlotInv'
         /\ \E s \in todo[i] :
              /\ s.what = "invalidate" /\ Due(i, s) /\ Continue(i, s)
              /\ s.at \in Worker /\ s.block \in Outputs(t[i])
              /\ \A k \in Worker \ {s.at} : gpu'[k] = gpu[k]
              /\ \A b \in Block :
                   /\ Holds(s.at, b)' <=> Holds(s.at, b) /\ b # s.block
                   /\ HoldsDirty(s.at, b)' <=> HoldsDirty(s.at, b) /\ b # s.block
                   /\ \A f \in Buffer :
                        Stored(s.at, b, f)' <=> Stored(s.at, b, f) /\ b # s.block
              /\ \/ gpu' = gpu
                 \/ \E n \in Buffer : /\ gpu[s.at][n].block = s.block
                                      /\ gpu'[s.at] = Freed(gpu[s.at], n)
<1>1. PICK s \in todo[i] :
        /\ Due(i, s) /\ s.what = "invalidate" /\ Continue(i, s)
        /\ gpu' = IF Located(s.at, s.block) = {} THEN gpu
                  ELSE [gpu EXCEPT ![s.at] = Freed(@, First(Located(s.at, s.block)))]
  BY Zenon DEF Invalidate
<1>2. s.at \in Worker /\ s.block \in Outputs(t[i])
  <2>1. CASE place[i] = "update"
    BY <2>1, <1>1, UpdateSteps DEF TodoInv, TodoOf, Updating
  <2>2. CASE place[i] = "clear"
    BY <2>2, <1>1, ClearSteps DEF TodoInv, TodoOf, Clearing
  <2>3. QED
    BY <2>1, <2>2 DEF Invalidate
<1>3. PICK k \in Worker, c \in Outputs(t[i]) : k = s.at /\ c = s.block
  BY <1>2
<1>4. CASE Located(k, c) = {}
  <2>1. gpu' = gpu
    BY <1>1, <1>3, <1>4
  <2>2. ~Holds(k, c) /\ ~HoldsDirty(k, c) /\ \A f \in Buffer : ~Stored(k, c, f)
    BY <1>4 DEF Located, Holds, HoldsDirty, Stored
  <2>3. SameSlots(k)
    BY <2>1, SlotsUnchanged
  <2>4. gpu' \in [Worker -> [Buffer -> Slot]] /\ SlotInv'
    BY <2>1 DEF GpuTypeOK, SlotInv
  <2>5. QED
    BY <1>1, <1>2, <1>3, <2>1, <2>2, <2>3, <2>4 DEF SameSlots
<1>5. CASE Located(k, c) # {} /\ c \in Block
  <2>1. PICK n \in Located(k, c) : TRUE
    BY <1>5
  <2>2. n \in Buffer /\ First(Located(k, c)) = n /\ gpu[k][n].block = c /\ c # NULL
    BY <1>5, <2>1, FirstLocated, GpuAssumption DEF Located
  <2>3. PICK S \in [Buffer -> Slot] : S = gpu[k]
    BY DEF GpuTypeOK
  <2>4. gpu' = [gpu EXCEPT ![k] = Freed(S, n)]
    BY <1>1, <1>3, <1>5, <2>2, <2>3
  <2>5. /\ Freed(S, n) \in [Buffer -> Slot]
        /\ NBlocks \in Buffer /\ Freed(S, n)[NBlocks] = Empty(S[n])
        /\ Empty(S[n]).block = NULL /\ Empty(S[n]).clean = TRUE /\ Empty(S[n]).buf = S[n].buf
        /\ \A m \in Buffer : m # NBlocks =>
             IF m < n THEN Freed(S, n)[m] = S[m]
                      ELSE m + 1 \in Buffer /\ Freed(S, n)[m] = S[m + 1]
        /\ \A m \in Buffer : m # n =>
             IF m < n THEN Freed(S, n)[m] = S[m] /\ m # NBlocks
                      ELSE m - 1 \in Buffer /\ m - 1 # NBlocks /\ Freed(S, n)[m - 1] = S[m]
    BY <2>2, <2>3, FreedSlots
  <2>6. PICK G \in [Buffer -> Slot] : G = Freed(S, n)
    BY <2>5
  <2>7. /\ gpu' \in [Worker -> [Buffer -> Slot]] /\ gpu'[k] = G
        /\ \A j \in Worker \ {k} : gpu'[j] = gpu[j]
    BY <2>4, <2>6 DEF GpuTypeOK
  <2>8. \A m, l \in Buffer : m # l =>
          S[m].buf # S[l].buf /\ (S[m].block # NULL => S[m].block # S[l].block)
    BY <2>3 DEF SlotInv
  <2>9. \A m \in Buffer : \/ /\ m = NBlocks /\ G[m].block = NULL /\ G[m].clean
                             /\ G[m].buf = S[n].buf
                          \/ /\ m < n /\ m # NBlocks /\ G[m] = S[m]
                          \/ /\ ~(m < n) /\ m # NBlocks /\ m + 1 \in Buffer /\ G[m] = S[m + 1]
    BY <2>5, <2>6
  <2>10. \A m, l \in Buffer : m # l =>
           G[m].buf # G[l].buf /\ (G[m].block # NULL => G[m].block # G[l].block)
    <3> DEFINE From(m) == IF m = NBlocks THEN n ELSE IF m < n THEN m ELSE m + 1
    <3>1. ASSUME NEW m \in Buffer
          PROVE  /\ From(m) \in Buffer /\ G[m].buf = S[From(m)].buf
                 /\ G[m].block # NULL => G[m] = S[From(m)]
      BY <2>2, <2>9
    <3>2. \A m, l \in Buffer : m # l => From(m) # From(l)
      BY <2>2 DEF Buffer
    <3> HIDE DEF From
    <3>3. QED
      BY <2>8, <3>1, <3>2
  <2>11. SlotInv'
    BY <2>7, <2>10 DEF SlotInv
  <2>12. \A m \in Buffer : G[m].block # NULL =>
           \E l \in Buffer : l # n /\ G[m] = S[l]
    <3>1. \A m \in Buffer : ~(m < n) => m + 1 # n
      BY <2>2 DEF Buffer
    <3>2. \A m \in Buffer : m < n => m # n
      BY <2>2 DEF Buffer
    <3>3. QED
      BY <2>9, <3>1, <3>2
  <2>13. \A l \in Buffer : l # n => \E m \in Buffer : G[m] = S[l]
    BY <2>5, <2>6
  <2>14. \A l \in Buffer : S[l].block = c <=> l = n
    BY <2>2, <2>3, <2>8
  <2>15. ASSUME NEW b \in Block
         PROVE  /\ Holds(k, b)' <=> Holds(k, b) /\ b # c
                /\ HoldsDirty(k, b)' <=> HoldsDirty(k, b) /\ b # c
                /\ \A f \in Buffer : Stored(k, b, f)' <=> Stored(k, b, f) /\ b # c
    <3>1. b # NULL
      BY GpuAssumption
    <3>2. Holds(k, b)' <=> Holds(k, b) /\ b # c
      BY <2>3, <2>7, <2>12, <2>13, <2>14, <3>1 DEF Holds
    <3>3. HoldsDirty(k, b)' <=> HoldsDirty(k, b) /\ b # c
      BY <2>3, <2>7, <2>12, <2>13, <2>14, <3>1 DEF HoldsDirty
    <3>4. ASSUME NEW f \in Buffer PROVE Stored(k, b, f)' <=> Stored(k, b, f) /\ b # c
      BY <2>3, <2>7, <2>12, <2>13, <2>14, <3>1 DEF Stored
    <3>5. QED
      BY <3>2, <3>3, <3>4
  <2>16. gpu'[k] = Freed(gpu[k], n)
    BY <2>3, <2>6, <2>7
  <2>17. QED
    BY <1>1, <1>2, <1>3, <2>2, <2>7, <2>11, <2>15, <2>16
<1>6. c \in Block
  <2>1. t[i] \in DOMAIN op
    BY RunningTask DEF Invalidate, Running, Ready, Updating, Clearing
  <2>2. QED
    BY <1>2, <1>3, <2>1, TaskFacts
<1>7. QED
  BY <1>4, <1>5, <1>6

(* A fetched block goes to a slot k, the one used last from then on.       *)
FetchHit(i, b, old) ==
  /\ old.block = b /\ victim' = victim /\ obj' = obj /\ Enter(i, "update")
  /\ SameSlots(i)

FetchMiss(i, b, old) ==
  /\ old.block # b /\ ~Holds(i, b) /\ obj' = [obj EXCEPT ![i] = b]
  /\ IF Dirty(old) THEN victim' = [victim EXCEPT ![i] = old.block] /\ Enter(i, "evict")
                   ELSE victim' = victim /\ Enter(i, "write")
  /\ \A c \in Block :
       /\ Holds(i, c)' <=> c = b \/ (Holds(i, c) /\ c # old.block)
       /\ HoldsDirty(i, c)' <=> HoldsDirty(i, c) /\ c # old.block
       /\ \A f \in Buffer :
            Stored(i, c, f)' <=> (c = b /\ f = old.buf) \/ (Stored(i, c, f) /\ c # old.block)

FetchedTo(i, s, k) ==
  /\ s \in todo[i] /\ k \in Buffer
  /\ s.what = "fetch" /\ s.at = i /\ s.block \in Blocks(t[i]) /\ s.block \in Block
  /\ Continue(i, s)
  /\ gpu[i][k] \in Slot
  /\ arg' = [arg EXCEPT ![i][s.block] = gpu[i][k].buf]
  /\ gpu'[i][1].block = s.block /\ gpu'[i][1].buf = gpu[i][k].buf
  /\ \A n \in Buffer : n # 1 =>
       gpu'[i][n] = IF n <= k THEN gpu[i][n - 1] ELSE gpu[i][n]
  /\ gpu[i][k].block # s.block => k = NBlocks /\ \A n \in Buffer : gpu[i][n].block # s.block
  /\ FetchHit(i, s.block, gpu[i][k]) \/ FetchMiss(i, s.block, gpu[i][k])

NewSlot(e, b) == IF e.block # b THEN [e EXCEPT !.block = b, !.clean = TRUE, !.request = FALSE]
                                ELSE e

LEMMA NewSlotFields ==
  ASSUME NEW e \in Slot, NEW b \in Block
  PROVE  /\ NewSlot(e, b) \in Slot /\ NewSlot(e, b).block = b /\ NewSlot(e, b).buf = e.buf
         /\ NewSlot(e, b).clean = IF e.block = b THEN e.clean ELSE TRUE
BY DEF Slot, NewSlot

LEMMA FetchEffect ==
  ASSUME GpuTypeOK, ControlInv, SlotInv, TodoInv, NEW i \in Worker, Fetch(i)
  PROVE  /\ gpu' \in [Worker -> [Buffer -> Slot]] /\ SlotInv'
         /\ \A j \in Worker \ {i} : gpu'[j] = gpu[j]
         /\ \E s \in todo[i], k \in Buffer : FetchedTo(i, s, k)
<1>1. PICK s \in todo[i] :
        LET k     == PlaceFor(i, s.block)
            old   == gpu[i][k]
            miss  == old.block # s.block
            evict == miss /\ Dirty(old)
        IN  /\ s.what = "fetch" /\ Continue(i, s)
            /\ arg' = [arg EXCEPT ![i][s.block] = old.buf]
            /\ gpu' = [gpu EXCEPT ![i] = UsedLast(gpu[i], k, NewSlot(old, s.block))]
            /\ victim' = IF evict THEN [victim EXCEPT ![i] = old.block] ELSE victim
            /\ obj' = IF miss THEN [obj EXCEPT ![i] = s.block] ELSE obj
            /\ Enter(i, IF evict THEN "evict" ELSE IF miss THEN "write" ELSE "update")
  BY Zenon DEF Fetch, NewSlot
<1>2. place[i] = "update" /\ Updating(i) /\ Running(i)
  BY DEF Fetch, Updating, Running, Ready
<1>3. s.at = i /\ s.block \in Blocks(t[i]) /\ s.block \in Block /\ NBlocks \in Buffer
  <2>1. s.at = i /\ s.block \in Blocks(t[i])
    BY <1>1, <1>2, UpdateSteps DEF TodoInv, TodoOf
  <2>2. t[i] \in DOMAIN op /\ op[t[i]].gpu
    BY <1>2, RunningTask DEF ControlInv, ControlOf
  <2>3. QED
    BY <2>1, <2>2, SlotsEnough, TaskFacts
<1>4. PICK b \in Block : b = s.block
  BY <1>3
<1>5. PICK k \in Buffer : k = PlaceFor(i, b)
  BY <1>3, PlaceForBlock
<1>6. PICK S \in [Buffer -> Slot] : S = gpu[i]
  BY DEF GpuTypeOK
<1>7. PICK old \in Slot : old = S[k]
  OBVIOUS
<1>8. PICK e \in Slot : e = NewSlot(old, b)
  <2>1. NewSlot(old, b) \in Slot
    BY NewSlotFields
  <2>2. QED
    BY <2>1
<1>9. PICK G \in [Buffer -> Slot] : G = UsedLast(S, k, e)
  BY UsedLastSlots
<1>10. /\ gpu' = [gpu EXCEPT ![i] = G] /\ arg' = [arg EXCEPT ![i][b] = old.buf]
       /\ e.block = b /\ e.buf = old.buf /\ (old.block # b => e.clean)
       /\ old.block = b => e = old
  <2>1. /\ gpu' = [gpu EXCEPT ![i] = UsedLast(gpu[i], k, NewSlot(gpu[i][k], b))]
        /\ arg' = [arg EXCEPT ![i][b] = gpu[i][k].buf]
    BY <1>1, <1>4, <1>5
  <2>2. gpu' = [gpu EXCEPT ![i] = G]
    BY <2>1, <1>6, <1>7, <1>8, <1>9
  <2>3. arg' = [arg EXCEPT ![i][b] = old.buf]
    BY <2>1, <1>6, <1>7
  <2>4. e.block = b /\ e.buf = old.buf /\ (old.block # b => e.clean)
    <3>1. PICK d \in Slot : d = NewSlot(old, b) /\ d.block = b /\ d.buf = old.buf
                             /\ d.clean = IF old.block = b THEN old.clean ELSE TRUE
      BY NewSlotFields
    <3>2. QED
      BY <1>8, <3>1
  <2>5. old.block = b => e = old
    BY <1>8 DEF NewSlot
  <2>6. QED
    BY <2>2, <2>3, <2>4, <2>5
<1>11. /\ 1 \in Buffer /\ G[1] = e
       /\ \A n \in Buffer : n # 1 /\ n <= k => n - 1 \in Buffer /\ G[n] = S[n - 1]
       /\ \A n \in Buffer : n # 1 /\ ~(n <= k) => G[n] = S[n]
       /\ \A n \in Buffer : n # k /\ n < k => n + 1 \in Buffer /\ G[n + 1] = S[n]
       /\ \A n \in Buffer : n # k /\ ~(n < k) => G[n] = S[n] /\ n # 1
  <2>1. Reordered(G, S, k, e)
    BY <1>9, UsedLastSlots
  <2>2. QED
    BY <2>1 DEF Reordered
<1>12. old.block = b \/ (old.block # b /\ k = NBlocks /\ \A n \in Buffer : S[n].block # b)
  BY <1>3, <1>5, <1>6, <1>7, PlaceForBlock
<1>13. /\ gpu' \in [Worker -> [Buffer -> Slot]] /\ gpu'[i] = G
       /\ \A j \in Worker \ {i} : gpu'[j] = gpu[j]
  BY <1>10 DEF GpuTypeOK
<1>14. \A m, l \in Buffer : m # l =>
          S[m].buf # S[l].buf /\ (S[m].block # NULL => S[m].block # S[l].block)
  BY <1>6 DEF SlotInv
<1> DEFINE From(n) == IF n = 1 THEN k ELSE IF n <= k THEN n - 1 ELSE n
<1>15. ASSUME NEW n \in Buffer
       PROVE  /\ From(n) \in Buffer /\ G[n].buf = S[From(n)].buf
              /\ n # 1 => G[n] = S[From(n)] /\ From(n) # k
  BY <1>7, <1>10, <1>11 DEF Buffer
<1>16. \A n, m \in Buffer : n # m => From(n) # From(m)
  BY DEF Buffer
<1>17. \A n \in Buffer : n # k => \E m \in Buffer : m # 1 /\ G[m] = S[n]
  <2>1. \A n \in Buffer : n < k => n + 1 # 1
    BY DEF Buffer
  <2>2. QED
    BY <1>11, <2>1
<1> HIDE DEF From
<1>18. \A n \in Buffer : n # k => S[n].block # b
  BY <1>7, <1>12, <1>14, GpuAssumption
<1>19. \A m, l \in Buffer : m # l =>
          G[m].buf # G[l].buf /\ (G[m].block # NULL => G[m].block # G[l].block)
  <2>1. \A m, l \in Buffer : m # l => G[m].buf # G[l].buf
    BY <1>14, <1>15, <1>16
  <2>2. \A m, l \in Buffer : m # l /\ m # 1 /\ l # 1 /\ G[m].block # NULL =>
          G[m].block # G[l].block
    BY <1>14, <1>15, <1>16
  <2>3. \A m \in Buffer : m # 1 => G[m].block # b
    BY <1>15, <1>18
  <2>4. QED
    BY <1>10, <1>11, <2>1, <2>2, <2>3
<1>20. SlotInv'
  BY <1>13, <1>19 DEF SlotInv
<1>21. \A m \in Buffer : m # 1 => \E n \in Buffer : n # k /\ G[m] = S[n]
  BY <1>15
<1>22. ASSUME FetchHit(i, b, old) \/ FetchMiss(i, b, old)
       PROVE  FetchedTo(i, s, k)
  <2>1. gpu[i][k] = old /\ gpu[i][k] \in Slot /\ gpu'[i][1].block = b /\ gpu'[i][1].buf = old.buf
    BY <1>6, <1>7, <1>10, <1>11, <1>13
  <2>2. \A n \in Buffer : n # 1 =>
          gpu'[i][n] = IF n <= k THEN gpu[i][n - 1] ELSE gpu[i][n]
    BY <1>6, <1>11, <1>13
  <2>3. old.block # b => k = NBlocks /\ \A n \in Buffer : gpu[i][n].block # b
    BY <1>6, <1>12
  <2>4. s.what = "fetch" /\ Continue(i, s) /\ s.at = i /\ s.block = b /\ b \in Blocks(t[i])
    BY <1>1, <1>3, <1>4
  <2>5. arg' = [arg EXCEPT ![i][b] = old.buf]
    BY <1>10
  <2>6. QED
    BY <1>22, <2>1, <2>2, <2>3, <2>4, <2>5 DEF FetchedTo
<1>23. CASE old.block = b
  <2>1. e = old
    BY <1>10, <1>23
  <2>2. \A n \in Buffer : \E m \in Buffer : G[m] = S[n]
    BY <1>7, <1>11, <1>17, <2>1
  <2>3. \A m \in Buffer : \E n \in Buffer : G[m] = S[n]
    BY <1>7, <1>11, <1>21, <2>1
  <2>4. ASSUME NEW c \in Block
        PROVE  /\ Holds(i, c)' <=> Holds(i, c)
               /\ HoldsDirty(i, c)' <=> HoldsDirty(i, c)
               /\ \A f \in Buffer : Stored(i, c, f)' <=> Stored(i, c, f)
    <3>1. Holds(i, c)' <=> Holds(i, c)
      <4>1. ASSUME Holds(i, c) PROVE Holds(i, c)'
        BY <1>6, <1>13, <2>2, <4>1 DEF Holds
      <4>2. ASSUME Holds(i, c)' PROVE Holds(i, c)
        BY <1>6, <1>13, <2>3, <4>2 DEF Holds
      <4>3. QED
        BY <4>1, <4>2
    <3>2. HoldsDirty(i, c)' <=> HoldsDirty(i, c)
      <4>1. ASSUME HoldsDirty(i, c) PROVE HoldsDirty(i, c)'
        BY <1>6, <1>13, <2>2, <4>1 DEF HoldsDirty
      <4>2. ASSUME HoldsDirty(i, c)' PROVE HoldsDirty(i, c)
        BY <1>6, <1>13, <2>3, <4>2 DEF HoldsDirty
      <4>3. QED
        BY <4>1, <4>2
    <3>3. ASSUME NEW f \in Buffer PROVE Stored(i, c, f)' <=> Stored(i, c, f)
      <4>1. ASSUME Stored(i, c, f) PROVE Stored(i, c, f)'
        BY <1>6, <1>13, <2>2, <4>1 DEF Stored
      <4>2. ASSUME Stored(i, c, f)' PROVE Stored(i, c, f)
        BY <1>6, <1>13, <2>3, <4>2 DEF Stored
      <4>3. QED
        BY <4>1, <4>2
    <3>4. QED
      BY <3>1, <3>2, <3>3
  <2>5. SameSlots(i)
    BY <2>4 DEF SameSlots
  <2>6. victim' = victim /\ obj' = obj /\ Enter(i, "update")
    BY <1>1, <1>4, <1>5, <1>6, <1>7, <1>23
  <2>7. FetchHit(i, b, old)
    BY <1>23, <2>5, <2>6 DEF FetchHit
  <2>8. QED
    BY <2>7, <1>13, <1>20, <1>22
<1>24. CASE old.block # b
  <2>1. k = NBlocks /\ \A n \in Buffer : S[n].block # b
    BY <1>12, <1>24
  <2>2. ~Holds(i, b) /\ ~HoldsDirty(i, b)
    BY <1>6, <2>1 DEF Holds, HoldsDirty
  <2>3. e.clean /\ e.block = b /\ e.buf = old.buf /\ old.block # b
    BY <1>10, <1>24
  <2>4. ASSUME NEW c \in Block
        PROVE  /\ Holds(i, c)' <=> c = b \/ (Holds(i, c) /\ c # old.block)
               /\ HoldsDirty(i, c)' <=> HoldsDirty(i, c) /\ c # old.block
               /\ \A f \in Buffer :
                    Stored(i, c, f)' <=> (c = b /\ f = old.buf)
                                           \/ (Stored(i, c, f) /\ c # old.block)
    <3>1. c # NULL
      BY GpuAssumption
    <3>2. \A n \in Buffer : S[n].block = c => (n = k <=> c = old.block)
      BY <1>7, <1>14, <3>1
    <3>3. Holds(i, c)' <=> c = b \/ (Holds(i, c) /\ c # old.block)
      <4>1. ASSUME Holds(i, c)' PROVE c = b \/ (Holds(i, c) /\ c # old.block)
        BY <1>6, <1>11, <1>13, <1>17, <1>21, <2>3, <3>2, <4>1 DEF Holds
      <4>2. ASSUME c = b \/ (Holds(i, c) /\ c # old.block) PROVE Holds(i, c)'
        BY <1>6, <1>11, <1>13, <1>17, <1>21, <2>3, <3>2, <4>2 DEF Holds
      <4>3. QED
        BY <4>1, <4>2
    <3>4. HoldsDirty(i, c)' <=> HoldsDirty(i, c) /\ c # old.block
      <4>1. ASSUME HoldsDirty(i, c)' PROVE HoldsDirty(i, c) /\ c # old.block
        BY <1>6, <1>11, <1>13, <1>17, <1>21, <2>3, <3>2, <4>1 DEF HoldsDirty
      <4>2. ASSUME HoldsDirty(i, c) /\ c # old.block PROVE HoldsDirty(i, c)'
        BY <1>6, <1>11, <1>13, <1>17, <1>21, <2>3, <3>2, <4>2 DEF HoldsDirty
      <4>3. QED
        BY <4>1, <4>2
    <3>5. ASSUME NEW f \in Buffer
          PROVE  Stored(i, c, f)' <=> (c = b /\ f = old.buf) \/ (Stored(i, c, f) /\ c # old.block)
      <4>1. ASSUME Stored(i, c, f)'
            PROVE  (c = b /\ f = old.buf) \/ (Stored(i, c, f) /\ c # old.block)
        <5>1. PICK m \in Buffer : G[m].block = c /\ G[m].buf = f
          BY <1>13, <4>1 DEF Stored
        <5>2. CASE m = 1
          BY <5>1, <5>2, <1>11, <2>3
        <5>3. CASE m # 1
          <6>1. PICK n \in Buffer : n # k /\ G[m] = S[n]
            BY <5>3, <1>21
          <6>2. c # old.block
            BY <5>1, <6>1, <3>2
          <6>3. QED
            BY <1>6, <5>1, <6>1, <6>2 DEF Stored
        <5>4. QED
          BY <5>2, <5>3
      <4>2. ASSUME (c = b /\ f = old.buf) \/ (Stored(i, c, f) /\ c # old.block)
            PROVE  Stored(i, c, f)'
        BY <1>6, <1>11, <1>13, <1>17, <1>21, <2>3, <3>2, <4>2 DEF Stored
      <4>3. QED
        BY <4>1, <4>2
    <3>6. QED
      BY <3>3, <3>4, <3>5
  <2>5. /\ obj' = [obj EXCEPT ![i] = b]
        /\ IF Dirty(old) THEN victim' = [victim EXCEPT ![i] = old.block] /\ Enter(i, "evict")
                         ELSE victim' = victim /\ Enter(i, "write")
    BY <1>1, <1>4, <1>5, <1>6, <1>7, <1>24
  <2>6. FetchMiss(i, b, old)
    BY <2>2, <2>3, <2>4, <2>5 DEF FetchMiss
  <2>7. QED
    BY <2>6, <1>13, <1>20, <1>22
<1>25. QED
  BY <1>13, <1>20, <1>23, <1>24

-----------------------------------------------------------------------------
(* The shape of the state.                                                 *)

(* The steps that leave the slots alone.                                   *)
LEMMA SlotStep ==
  ASSUME ShapeInv, NEW i \in Worker, WorkOn(i)
  PROVE  gpu' \in [Worker -> [Buffer -> Slot]] /\ SlotInv'
<1>1. CASE Check(i)
  BY <1>1, CheckEffect DEF ShapeInv
<1>2. CASE Fetch(i)
  BY <1>2, FetchEffect DEF ShapeInv
<1>3. CASE Invalidate(i)
  BY <1>3, InvalidateEffect DEF ShapeInv
<1>4. CASE MarkBlock(i)
  BY <1>4, MarkEffect DEF ShapeInv
<1>5. CASE Clean(i)
  BY <1>5, CleanEffect DEF ShapeInv
<1>6. CASE gpu' = gpu
  BY <1>6 DEF ShapeInv, GpuTypeOK, SlotInv
<1>7. QED
  BY <1>1, <1>2, <1>3, <1>4, <1>5, <1>6
  DEF WorkOn, FlushGpu, Dequeue, Verdict, Evicted, FlushBlock, Read, ReadVictim, Write, Compute,
      ComputeOnCpu, Release, Commit, Destroy, cache

LEMMA PlansSame ==
  ASSUME op' = op
  PROVE  \A i, x : /\ CheckPlan(i, x)' = CheckPlan(i, x)
                   /\ UpdatePlan(i, x)' = UpdatePlan(i, x)
                   /\ MarkPlan(i, x)' = MarkPlan(i, x)
                   /\ ClearPlan(i, x)' = ClearPlan(i, x)
<1> SUFFICES ASSUME NEW i, NEW x
             PROVE  /\ CheckPlan(i, x)' = CheckPlan(i, x)
                    /\ UpdatePlan(i, x)' = UpdatePlan(i, x)
                    /\ MarkPlan(i, x)' = MarkPlan(i, x)
                    /\ ClearPlan(i, x)' = ClearPlan(i, x)
  OBVIOUS
<1> USE DEF Up, Down, Blocks, Inputs, Outputs
<1>1. CheckPlan(i, x)' = CheckPlan(i, x)
  BY DEF CheckPlan
<1>2. UpdatePlan(i, x)' = UpdatePlan(i, x)
  BY DEF UpdatePlan
<1>3. MarkPlan(i, x)' = MarkPlan(i, x)
  BY DEF MarkPlan
<1>4. ClearPlan(i, x)' = ClearPlan(i, x)
  BY DEF ClearPlan
<1>5. QED
  BY <1>1, <1>2, <1>3, <1>4

LEMMA TodoStep ==
  ASSUME ShapeInv, NEW i \in Worker, WorkOn(i)
  PROVE  TodoInv' /\ DOMAIN todo' = Worker
<1> USE DEF ShapeInv
<1>1. op' = op /\ \A k \in Worker \ {i} : Untouched(k)
  BY Frame
<1>2. ASSUME NEW k \in Worker \ {i} PROVE TodoOf(k)'
  <2>1. Untouched(k)
    BY <1>1
  <2>2. /\ Updating(k)' = Updating(k) /\ Clearing(k)' = Clearing(k) /\ Running(k)' = Running(k)
    BY <1>1, <2>1, StageSame
  <2>3. TodoOf(k)
    BY DEF TodoInv
  <2>4. /\ CheckPlan(k, t[k])' = CheckPlan(k, t[k]) /\ UpdatePlan(k, t[k])' = UpdatePlan(k, t[k])
        /\ MarkPlan(k, t[k])' = MarkPlan(k, t[k]) /\ ClearPlan(k, t[k])' = ClearPlan(k, t[k])
    BY <1>1, <2>1, PlansSame DEF Untouched
  <2>5. QED
    BY <2>1, <2>2, <2>3, <2>4 DEF TodoOf, Untouched
<1>3. \A x : /\ CheckPlan(i, x)' = CheckPlan(i, x) /\ UpdatePlan(i, x)' = UpdatePlan(i, x)
             /\ MarkPlan(i, x)' = MarkPlan(i, x) /\ ClearPlan(i, x)' = ClearPlan(i, x)
  BY <1>1, PlansSame
<1>4. TodoOf(i)
  BY DEF TodoInv
<1>5. ASSUME todo'[i] = {} PROVE TodoOf(i)'
  BY <1>5 DEF TodoOf
<1>6. ASSUME t'[i] = t[i], todo'[i] \subseteq todo[i],
             place'[i] = "check" => place[i] = "check",
             Updating(i)' => Updating(i), Clearing(i)' => Clearing(i),
             place'[i] = "mark" => place[i] = "mark", Running(i) => Running(i)'
      PROVE  TodoOf(i)'
  <2>1. /\ CheckPlan(i, t[i])' = CheckPlan(i, t[i]) /\ UpdatePlan(i, t[i])' = UpdatePlan(i, t[i])
        /\ MarkPlan(i, t[i])' = MarkPlan(i, t[i]) /\ ClearPlan(i, t[i])' = ClearPlan(i, t[i])
    BY <1>3, <1>6
  <2>2. QED
    BY <1>4, <1>6, <2>1 DEF TodoOf
<1>7. \A s : Continue(i, s) => DOMAIN todo' = Worker /\ todo'[i] = todo[i] \ {s}
  BY DEF Continue, GpuTypeOK
<1>8. TodoOf(i)' /\ DOMAIN todo' = Worker
  <2> USE DEF Updating, Clearing, Running, Ready
  <2>1. CASE FlushGpu(i) \/ Commit(i) \/ Destroy(i)
    <3>1. todo' = todo /\ ~Running(i)
      BY <2>1 DEF FlushGpu, Commit, Destroy
    <3>2. QED
      BY <1>4, <1>5, <3>1 DEF TodoOf, GpuTypeOK
  <2>2. CASE ComputeOnCpu(i) \/ Release(i)
    <3>1. todo' = todo /\ todo[i] = {}
      BY <2>2 DEF ComputeOnCpu, ComputingOnCpu, Release
    <3>2. QED
      BY <1>5, <3>1 DEF GpuTypeOK
  <2>3. CASE Dequeue(i)
    <3>1. CASE \E x \in DOMAIN op : /\ t' = [t EXCEPT ![i] = x] /\ Enter(i, "check")
                                    /\ todo' = [todo EXCEPT ![i] = CheckPlan(i, x)]
      <4>1. PICK x \in DOMAIN op : /\ t' = [t EXCEPT ![i] = x] /\ Enter(i, "check")
                                    /\ todo' = [todo EXCEPT ![i] = CheckPlan(i, x)]
        BY <3>1
      <4>2. t'[i] = x /\ place'[i] = "check" /\ todo'[i] = CheckPlan(i, x) /\ DOMAIN todo' = Worker
        BY <4>1 DEF Enter, GpuTypeOK
      <4>3. CheckPlan(i, t[i])' = CheckPlan(i, x)
        BY <1>3, <4>2
      <4>4. QED
        BY <4>2, <4>3 DEF TodoOf
    <3>2. CASE todo' = todo
      <4>1. todo[i] = {}
        BY <1>4, <2>3 DEF TodoOf, Dequeue
      <4>2. QED
        BY <1>5, <3>2, <4>1 DEF GpuTypeOK
    <3>3. QED
      BY <2>3, <3>1, <3>2 DEF Dequeue
  <2>4. CASE Verdict(i)
    <3>1. CASE todo' = todo
      BY <1>5, <2>4, <3>1 DEF Verdict, GpuTypeOK
    <3>2. CASE t' = t /\ Enter(i, "update") /\ todo' = [todo EXCEPT ![i] = UpdatePlan(i, t[i])]
      <4>1. /\ t'[i] = t[i] /\ place'[i] = "update" /\ todo'[i] = UpdatePlan(i, t[i])
            /\ DOMAIN todo' = Worker
        BY <3>2 DEF Enter, GpuTypeOK
      <4>2. UpdatePlan(i, t[i])' = UpdatePlan(i, t[i])
        BY <1>3, <4>1
      <4>3. QED
        BY <4>1, <4>2 DEF TodoOf
    <3>3. CASE t' = t /\ Enter(i, "clear") /\ todo' = [todo EXCEPT ![i] = ClearPlan(i, t[i])]
      <4>1. /\ t'[i] = t[i] /\ place'[i] = "clear" /\ todo'[i] = ClearPlan(i, t[i])
            /\ DOMAIN todo' = Worker
        BY <3>3 DEF Enter, GpuTypeOK
      <4>2. ClearPlan(i, t[i])' = ClearPlan(i, t[i])
        BY <1>3, <4>1
      <4>3. QED
        BY <4>1, <4>2 DEF TodoOf
    <3>4. QED
      BY <2>4, <3>1, <3>2, <3>3 DEF Verdict
  <2>5. CASE Compute(i)
    <3>1. /\ t'[i] = t[i] /\ place'[i] = "mark" /\ todo'[i] = MarkPlan(i, t[i])
          /\ DOMAIN todo' = Worker
      BY <2>5 DEF Compute, Enter, GpuTypeOK, tasks
    <3>2. MarkPlan(i, t[i])' = MarkPlan(i, t[i])
      BY <1>3, <3>1
    <3>3. QED
      BY <3>1, <3>2 DEF TodoOf
  <2>6. CASE Check(i)
    <3>1. t' = t /\ place' = place /\ DOMAIN todo' = Worker /\ todo'[i] \subseteq todo[i]
      <4>1. t' = t /\ place' = place
        BY <2>6, Zenon DEF Check
      <4>2. PICK s \in todo[i] : \/ todo' = [todo EXCEPT ![i] = {r \in @ : r.block # s.block}]
                                 \/ Continue(i, s)
        BY <2>6, Zenon DEF Check
      <4>3. QED
        BY <1>7, <4>1, <4>2 DEF GpuTypeOK
    <3>2. QED
      BY <1>6, <3>1
  <2>7. CASE Invalidate(i) \/ MarkBlock(i)
    <3>1. t' = t /\ place' = place /\ \E s \in todo[i] : Continue(i, s)
      BY <2>7, Zenon DEF Invalidate, MarkBlock, tasks
    <3>2. QED
      BY <1>6, <1>7, <3>1
  <2>8. CASE Fetch(i)
    <3>1. /\ t' = t /\ \E s \in todo[i] : Continue(i, s)
          /\ Enter(i, "evict") \/ Enter(i, "write") \/ Enter(i, "update")
      <4>1. PICK s \in todo[i], k \in Buffer : FetchedTo(i, s, k)
        BY <2>8, FetchEffect
      <4>2. Continue(i, s) /\ (Enter(i, "evict") \/ Enter(i, "write") \/ Enter(i, "update"))
        BY <4>1 DEF FetchedTo, FetchHit, FetchMiss
      <4>3. t' = t
        BY <2>8, Zenon DEF Fetch, tasks
      <4>4. QED
        BY <4>2, <4>3
    <3>2. place[i] = "update" /\ place'[i] \in {"evict", "write", "update"}
      BY <2>8, <3>1 DEF Fetch, Enter, GpuTypeOK
    <3>3. QED
      BY <1>6, <1>7, <3>1, <3>2
  <2>9. CASE FlushBlock(i)
    <3>1. /\ t' = t /\ \E s \in todo[i] : Continue(i, s)
          /\ place[i] = "clear" /\ (Enter(i, "clear") \/ Enter(i, "flush"))
      BY <2>9 DEF FlushBlock, tasks
    <3>2. place[i] = "clear" /\ place'[i] \in {"clear", "flush"} /\ t[i] # 0
      BY <3>1 DEF Enter, GpuTypeOK, ControlInv, ControlOf
    <3>3. QED
      BY <1>6, <1>7, <3>1, <3>2
  <2>10. CASE Clean(i)
    <3>1. /\ t' = t /\ todo' = todo /\ place[i] = "flush"
          /\ place'[i] = IF t[i] = 0 THEN "dequeue" ELSE "clear"
      <4>1. t' = t /\ todo' = todo /\ place[i] = "flush"
            /\ Enter(i, IF t[i] = 0 THEN "dequeue" ELSE "clear")
        BY <2>10, Zenon DEF Clean, tasks
      <4>2. QED
        BY <4>1 DEF Enter, GpuTypeOK
    <3>2. QED
      BY <1>6, <3>1 DEF GpuTypeOK
  <2>11. CASE Evicted(i) \/ Read(i) \/ ReadVictim(i) \/ Write(i)
    <3>1. /\ t' = t /\ todo' = todo
          /\ place'[i] = place[i] \/ (Updating(i) /\ place'[i] \in {"write", "evicted", "update"})
      BY <2>11 DEF Evicted, Read, ReadVictim, Write, tasks, Enter, GpuTypeOK
    <3>2. QED
      BY <1>6, <3>1 DEF GpuTypeOK
  <2>12. QED
    BY <2>1, <2>2, <2>3, <2>4, <2>5, <2>6, <2>7, <2>8, <2>9, <2>10, <2>11 DEF WorkOn
<1>9. QED
  BY <1>2, <1>8 DEF TodoInv

LEMMA ControlStep ==
  ASSUME ShapeInv, NEW i \in Worker, WorkOn(i)
  PROVE  ControlInv'
<1> USE DEF ShapeInv
<1>1. op' = op /\ \A k \in Worker \ {i} : Untouched(k)
  BY Frame
<1>2. /\ Len(op) \in Nat /\ 0 \notin DOMAIN op /\ n_committed \in Nat /\ NULL \notin Block
  BY TaskFacts, GpuAssumption DEF GpuTypeOK
<1>3. ControlOf(i)
  BY DEF ControlInv
<1>4. \A k \in Worker \ {i} : t[k] # 0 => state[t[k]] # "waiting" /\ t[k] \in DOMAIN op
  BY SMTT(30) DEF ControlInv, ControlOf, Running, Ready, Updating, Clearing, GpuTypeOK, Label
<1>5. \/ state' = state /\ (t' = t \/ t' = [t EXCEPT ![i] = 0])
      \/ \E x \in DOMAIN op : /\ state[x] = "waiting" /\ t' = [t EXCEPT ![i] = x]
                              /\ state' = [state EXCEPT ![x] = "taken"]
      \/ /\ t[i] \in DOMAIN op /\ state[t[i]] = "taken" /\ (t' = t \/ t' = [t EXCEPT ![i] = 0])
         /\ \E w \in {"waiting", "done"} : state' = [state EXCEPT ![t[i]] = w]
  <2>1. CASE Dequeue(i)
    BY <2>1 DEF Dequeue, Available
  <2>2. CASE Verdict(i)
    <3>1. Running(i)
      BY <2>2 DEF Verdict, Running
    <3>2. QED
      BY <2>2, <3>1, RunningTask DEF Verdict
  <2>3. CASE Release(i)
    <3>1. Running(i)
      BY <2>3 DEF Release, Running, Ready
    <3>2. QED
      BY <2>3, <3>1, RunningTask DEF Release
  <2>4. CASE Commit(i)
    BY <2>4 DEF Commit
  <2>5. CASE state' = state /\ t' = t
    BY <2>5
  <2>6. QED
    BY <2>1, <2>2, <2>3, <2>4, <2>5, Zenon
    DEF WorkOn, FlushGpu, Check, Fetch, Evicted, Invalidate, MarkBlock, FlushBlock, Clean, Read,
        ReadVictim, Write, Compute, ComputeOnCpu, Destroy, tasks
<1>6. ASSUME NEW k \in Worker \ {i}
      PROVE  /\ t[k] # 0 => state'[t[k]] = state[t[k]]
             /\ t'[i] # 0 => t'[i] # t[k]
  <2>1. t[i] \in DOMAIN op => t[i] # t[k]
    BY <1>2 DEF ControlInv
  <2>2. t[i] # 0 => t[i] # t[k]
    BY DEF ControlInv
  <2>3. t[k] # 0 => state'[t[k]] = state[t[k]]
    BY <1>4, <1>5, <2>1 DEF GpuTypeOK
  <2>4. t'[i] # 0 => t'[i] # t[k]
    BY <1>2, <1>4, <1>5, <2>2 DEF GpuTypeOK
  <2>5. QED
    BY <2>3, <2>4
<1>7. n_committed' \in Nat /\ n_committed' >= n_committed
  <2>1. CASE Commit(i)
    BY <1>2, <2>1 DEF Commit
  <2>2. CASE n_committed' = n_committed
    BY <1>2, <2>2
  <2>3. QED
    BY <2>1, <2>2, Zenon
    DEF WorkOn, FlushGpu, Dequeue, Verdict, Check, Fetch, Evicted, Invalidate, MarkBlock,
        FlushBlock, Clean, Read, ReadVictim, Write, Compute, ComputeOnCpu, Release, Destroy, tasks
<1>8. ASSUME NEW k \in Worker \ {i} PROVE ControlOf(k)'
  <2>1. Untouched(k) /\ ControlOf(k)
    BY <1>1 DEF ControlInv
  <2>2. /\ Updating(k)' = Updating(k) /\ Running(k)' = Running(k) /\ Ready(k)' = Ready(k)
    BY <1>1, <2>1, StageSame
  <2>3. QED
    BY <1>1, <1>2, <1>6, <1>7, <2>1, <2>2 DEF Untouched, ControlOf
<1>9. ControlOf(i)'
  <2> USE DEF Updating, Clearing, Running, Ready, ControlOf
  <2>1. CASE FlushGpu(i)
    BY <1>3, <2>1 DEF FlushGpu, LogSlots, Enter, tasks, cache, GpuTypeOK
  <2>2. CASE Dequeue(i)
    BY <1>3, <2>2 DEF Dequeue, Enter, cache, log, GpuTypeOK
  <2>3. CASE Check(i)
    <3>1. /\ UNCHANGED <<state, n_committed, t, place, victim, log, obj>> /\ place[i] = "check"
          /\ op' = op
      BY <2>3, Zenon DEF Check
    <3>2. QED
      BY <1>3, <3>1 DEF log
  <2>4. CASE Verdict(i)
    BY <1>3, <2>4 DEF Verdict, Enter, cache, log, GpuTypeOK
  <2>5. CASE Fetch(i)
    <3>1. PICK s \in todo[i], k \in Buffer : FetchedTo(i, s, k)
      BY <2>5, FetchEffect
    <3>2. UNCHANGED <<tasks, log>> /\ place[i] = "update"
      BY <2>5, Zenon DEF Fetch
    <3>3. /\ victim[i] = NULL /\ obj[i] = NULL /\ t[i] # 0 /\ state[t[i]] = "taken"
          /\ op[t[i]].gpu /\ ok[i] /\ reads[i] = {}
      BY <1>3, <3>2
    <3>4. \/ victim'[i] = NULL /\ obj'[i] = NULL /\ place'[i] = "update"
          \/ victim'[i] = NULL /\ obj'[i] # NULL /\ place'[i] = "write"
          \/ victim'[i] # NULL /\ obj'[i] # NULL /\ place'[i] = "evict"
      BY <1>2, <3>1, <3>2, <3>3 DEF FetchedTo, FetchHit, FetchMiss, Enter, Dirty, GpuTypeOK
    <3>5. QED
      BY <1>3, <3>2, <3>3, <3>4 DEF tasks, log
  <2>6. CASE Evicted(i)
    BY <1>3, <2>6 DEF Evicted, Enter, tasks, log, GpuTypeOK
  <2>7. CASE Invalidate(i) \/ MarkBlock(i)
    <3>1. UNCHANGED <<tasks, victim, log, place, obj>>
      BY <2>7, Zenon DEF Invalidate, MarkBlock
    <3>2. QED
      BY <1>3, <3>1 DEF tasks, log
  <2>8. CASE FlushBlock(i)
    BY <1>3, <2>8 DEF FlushBlock, LogSlots, Enter, tasks, cache, GpuTypeOK
  <2>9. CASE Clean(i)
    <3>1. /\ UNCHANGED <<tasks, victim, reads, obj>> /\ place[i] = "flush" /\ reads[i] = {}
          /\ Enter(i, IF t[i] = 0 THEN "dequeue" ELSE "clear")
      BY <2>9, Zenon DEF Clean
    <3>2. QED
      BY <1>3, <3>1 DEF Enter, tasks, GpuTypeOK
  <2>10. CASE Read(i)
    BY <1>3, <2>10 DEF Read, tasks, cache, GpuTypeOK
  <2>11. CASE ReadVictim(i)
    BY <1>3, <2>11 DEF ReadVictim, Enter, tasks, cache, log, GpuTypeOK
  <2>12. CASE Write(i)
    BY <1>3, <2>12 DEF Write, Enter, tasks, cache, log, GpuTypeOK
  <2>13. CASE Compute(i)
    <3>1. UNCHANGED <<tasks, cache, log, obj>> /\ Enter(i, "mark") /\ Computing(i)
      BY <2>13, Zenon DEF Compute
    <3>2. QED
      BY <1>3, <3>1 DEF Computing, Enter, tasks, cache, log, GpuTypeOK
  <2>14. CASE ComputeOnCpu(i)
    BY <1>3, <2>14 DEF ComputeOnCpu, ComputingOnCpu, Enter, tasks, cache, log, GpuTypeOK
  <2>15. CASE Release(i)
    BY <1>3, <2>15 DEF Release, Enter, cache, log, GpuTypeOK
  <2>16. CASE Commit(i)
    BY <1>1, <1>3, <2>16 DEF Commit, Enter, cache, log, GpuTypeOK
  <2>17. CASE Destroy(i)
    BY <1>3, <2>17 DEF Destroy, LogSlots, Enter, tasks, cache, GpuTypeOK
  <2>18. QED
    BY <2>1, <2>2, <2>3, <2>4, <2>5, <2>6, <2>7, <2>8, <2>9, <2>10, <2>11, <2>12, <2>13, <2>14,
       <2>15, <2>16, <2>17 DEF WorkOn
<1>10. ASSUME NEW j \in Worker, NEW k \in Worker, j # k, t'[j] # 0 PROVE t'[j] # t'[k]
  <2>1. CASE j = i
    BY <1>1, <1>6, <1>10, <2>1 DEF Untouched
  <2>2. CASE k = i
    BY <1>1, <1>6, <1>10, <2>2 DEF Untouched
  <2>3. CASE j # i /\ k # i
    BY <1>1, <1>10, <2>3 DEF Untouched, ControlInv
  <2>4. QED
    BY <2>1, <2>2, <2>3
<1>11. QED
  BY <1>8, <1>9, <1>10 DEF ControlInv

-----------------------------------------------------------------------------
(* The tasks.                                                              *)

(* The steps that neither take a task nor end one.                         *)
Transfers(i) ==
  \/ FlushGpu(i) \/ Check(i) \/ Fetch(i) \/ Evicted(i) \/ Invalidate(i) \/ MarkBlock(i)
  \/ FlushBlock(i) \/ Clean(i) \/ Read(i) \/ ReadVictim(i) \/ Write(i) \/ Destroy(i)

LEMMA TransfersKeep ==
  ASSUME ShapeInv, NEW i \in Worker, Transfers(i)
  PROVE  /\ state' = state /\ t' = t /\ n_committed' = n_committed /\ written' = written
         /\ place'[i] = "mark" <=> place[i] = "mark"
<1>1. state' = state /\ t' = t /\ n_committed' = n_committed /\ written' = written
  BY Zenon DEF Transfers, FlushGpu, Check, Fetch, Evicted, Invalidate, MarkBlock, FlushBlock,
               Clean, Read, ReadVictim, Write, Destroy, tasks, memory
<1>2. /\ place[i] = "mark" => MarkBlock(i)
      /\ \/ place' = place
         \/ \E l \in {"dequeue", "flush", "evict", "write", "update", "clear", "evicted", "exit"} :
              Enter(i, l)
  <2>1. CASE Fetch(i)
    <3>1. PICK s \in todo[i], k \in Buffer : FetchedTo(i, s, k)
      BY <2>1, FetchEffect DEF ShapeInv
    <3>2. QED
      BY <2>1, <3>1 DEF Fetch, FetchedTo, FetchHit, FetchMiss
  <2>2. CASE Check(i) \/ Invalidate(i) \/ MarkBlock(i) \/ Read(i)
    <3>1. place' = place /\ (Check(i) \/ Invalidate(i) \/ Read(i) => place[i] # "mark")
      BY <2>2, Zenon DEF Check, Invalidate, MarkBlock, Read
    <3>2. QED
      BY <2>2, <3>1
  <2>3. CASE Clean(i)
    <3>1. place[i] = "flush" /\ Enter(i, IF t[i] = 0 THEN "dequeue" ELSE "clear")
      BY <2>3, Zenon DEF Clean
    <3>2. QED
      BY <3>1
  <2>4. CASE FlushGpu(i) \/ Evicted(i) \/ FlushBlock(i) \/ ReadVictim(i) \/ Write(i) \/ Destroy(i)
    BY <2>4 DEF FlushGpu, Evicted, FlushBlock, ReadVictim, Write, Destroy
  <2>5. QED
    BY <2>1, <2>2, <2>3, <2>4 DEF Transfers
<1>3. MarkBlock(i) => place' = place
  BY Zenon DEF MarkBlock
<1>4. QED
  BY <1>1, <1>2, <1>3 DEF Enter, ShapeInv, GpuTypeOK

LEMMA OrderStep ==
  ASSUME ShapeInv, OrderInv, NEW i \in Worker, WorkOn(i)
  PROVE  OrderInv'
<1> USE DEF ShapeInv
<1>1. op' = op
  BY Frame
<1>2. /\ \A x, y : Conflict(x, y)' = Conflict(x, y)
      /\ DOMAIN op = 1..Len(op) /\ Len(op) \in Nat
  BY <1>1, TaskFacts DEF Conflict, Outputs, Blocks, Inputs
<1>3. state \in [DOMAIN op -> {"waiting", "taken", "done"}]
  BY DEF GpuTypeOK
<1>4. \A x \in DOMAIN op : \A y \in 1..(x - 1) : y \in DOMAIN op
  BY <1>2
<1>5. CASE Dequeue(i)
  <2>1. CASE \E x \in DOMAIN op : Available(x) /\ state' = [state EXCEPT ![x] = "taken"]
    <3>1. PICK x \in DOMAIN op : Available(x) /\ state' = [state EXCEPT ![x] = "taken"]
      BY <2>1
    <3>2. \A y \in DOMAIN op : /\ state[y] = "done" => state'[y] = "done"
                               /\ y # x => state'[y] = state[y]
      BY <1>3, <3>1 DEF Available
    <3>3. QED
      BY <1>1, <1>2, <1>4, <3>1, <3>2 DEF OrderInv, Available
  <2>2. CASE state' = state
    BY <1>1, <1>2, <2>2 DEF OrderInv
  <2>3. QED
    BY <1>5, <2>1, <2>2 DEF Dequeue
<1>6. CASE Verdict(i)
  <2>1. t[i] \in DOMAIN op /\ state[t[i]] = "taken"
    BY <1>6, RunningTask DEF Verdict, Running
  <2>2. \A y \in DOMAIN op : /\ state[y] = "done" => state'[y] = "done"
                             /\ state'[y] # "waiting" => state[y] # "waiting"
    BY <1>3, <1>6, <2>1 DEF Verdict
  <2>3. QED
    BY <1>1, <1>2, <1>4, <2>2 DEF OrderInv
<1>7. CASE Release(i)
  <2>1. t[i] \in DOMAIN op /\ state[t[i]] = "taken"
    BY <1>7, RunningTask DEF Release, Running, Ready
  <2>2. \A y \in DOMAIN op : /\ state[y] = "done" => state'[y] = "done"
                             /\ state'[y] # "waiting" => state[y] # "waiting"
    BY <1>3, <1>7, <2>1 DEF Release
  <2>3. QED
    BY <1>1, <1>2, <1>4, <2>2 DEF OrderInv
<1>8. CASE Transfers(i) \/ Compute(i) \/ ComputeOnCpu(i) \/ Commit(i)
  <2>1. state' = state
    BY <1>8, TransfersKeep, Zenon DEF Compute, ComputeOnCpu, Commit, tasks
  <2>2. QED
    BY <1>1, <1>2, <2>1 DEF OrderInv
<1>9. QED
  BY <1>5, <1>6, <1>7, <1>8 DEF WorkOn, Transfers

LEMMA CountStep ==
  ASSUME ShapeInv, CountInv, NEW i \in Worker, WorkOn(i)
  PROVE  CountInv'
<1> USE DEF ShapeInv
<1>1. op' = op /\ \A k \in Worker \ {i} : t'[k] = t[k]
  BY Frame DEF Untouched
<1>2. state \in [DOMAIN op -> {"waiting", "taken", "done"}] /\ t \in [Worker -> {0} \cup DOMAIN op]
  BY DEF GpuTypeOK
<1>3. ASSUME n_committed' = n_committed,
             \A x \in DOMAIN op : (state'[x] = "done" /\ \A k \in Worker : t'[k] # x)
                                    <=> (state[x] = "done" /\ \A k \in Worker : t[k] # x)
      PROVE  CountInv'
  <2>1. CommittedTasks' = CommittedTasks
    BY <1>1, <1>3 DEF CommittedTasks
  <2>2. QED
    BY <1>3, <2>1 DEF CountInv
<1>4. CASE Dequeue(i)
  <2>1. CASE \E x \in DOMAIN op : /\ Available(x) /\ t' = [t EXCEPT ![i] = x]
                                  /\ state' = [state EXCEPT ![x] = "taken"]
    <3>1. PICK x \in DOMAIN op : /\ Available(x) /\ t' = [t EXCEPT ![i] = x]
                                 /\ state' = [state EXCEPT ![x] = "taken"]
      BY <2>1
    <3>2. t[i] = 0 /\ 0 \notin DOMAIN op
      BY <1>4, TaskFacts DEF Dequeue, ControlInv, ControlOf
    <3>3. state[x] = "waiting" /\ t'[i] = x
      BY <1>2, <3>1 DEF Available
    <3>4. n_committed' = n_committed
      BY <1>4 DEF Dequeue
    <3>5. ASSUME NEW y \in DOMAIN op
          PROVE  (state'[y] = "done" /\ \A k \in Worker : t'[k] # y)
                   <=> (state[y] = "done" /\ \A k \in Worker : t[k] # y)
      <4>1. CASE y = x
        BY <1>2, <3>1, <3>3, <4>1
      <4>2. CASE y # x
        <5>1. state'[y] = state[y]
          BY <1>2, <3>1, <4>2
        <5>2. \A k \in Worker : t'[k] # y <=> t[k] # y
          BY <1>1, <3>2, <3>3, <4>2
        <5>3. QED
          BY <5>1, <5>2
      <4>3. QED
        BY <4>1, <4>2
    <3>6. QED
      BY <1>3, <3>4, <3>5
  <2>2. CASE state' = state /\ t' = t
    BY <1>3, <1>4, <2>2 DEF Dequeue
  <2>3. QED
    BY <1>4, <2>1, <2>2 DEF Dequeue
<1>5. CASE Verdict(i)
  <2>1. CASE state' = state /\ t' = t
    BY <1>3, <1>5, <2>1 DEF Verdict
  <2>2. CASE state' = [state EXCEPT ![t[i]] = "waiting"] /\ t' = [t EXCEPT ![i] = 0]
    <3>1. t[i] \in DOMAIN op /\ state[t[i]] = "taken" /\ 0 \notin DOMAIN op
      BY <1>5, RunningTask, TaskFacts DEF Verdict, Running
    <3>2. \A y \in DOMAIN op : y # t[i] => state'[y] = state[y]
      BY <1>2, <2>2, <3>1
    <3>3. state'[t[i]] = "waiting" /\ t'[i] = 0
      BY <1>2, <2>2, <3>1
    <3>4. n_committed' = n_committed
      BY <1>5 DEF Verdict
    <3>5. ASSUME NEW y \in DOMAIN op
          PROVE  (state'[y] = "done" /\ \A k \in Worker : t'[k] # y)
                   <=> (state[y] = "done" /\ \A k \in Worker : t[k] # y)
      <4>1. CASE y = t[i]
        BY <3>1, <3>3, <4>1
      <4>2. CASE y # t[i]
        <5>1. \A k \in Worker : t'[k] # y <=> t[k] # y
          BY <1>1, <3>1, <3>3, <4>2
        <5>2. QED
          BY <3>2, <4>2, <5>1
      <4>3. QED
        BY <4>1, <4>2
    <3>6. QED
      BY <1>3, <3>4, <3>5
  <2>3. QED
    BY <1>5, <2>1, <2>2 DEF Verdict
<1>6. CASE Release(i)
  <2>1. t[i] \in DOMAIN op /\ state[t[i]] = "taken"
    BY <1>6, RunningTask DEF Release, Running, Ready
  <2>2. /\ \A y \in DOMAIN op : y # t[i] => state'[y] = state[y]
        /\ t' = t /\ n_committed' = n_committed
    BY <1>2, <1>6 DEF Release
  <2>3. QED
    BY <1>3, <2>1, <2>2
<1>7. CASE Transfers(i) \/ Compute(i) \/ ComputeOnCpu(i)
  <2>1. state' = state /\ t' = t /\ n_committed' = n_committed
    BY <1>7, TransfersKeep, Zenon DEF Compute, ComputeOnCpu, tasks
  <2>2. QED
    BY <1>3, <2>1
<1>8. CASE Commit(i)
  <2>1. state' = state /\ t' = [t EXCEPT ![i] = 0] /\ t'[i] = 0
        /\ n_committed' = n_committed + IF t[i] # 0 THEN 1 ELSE 0
    BY <1>2, <1>8 DEF Commit
  <2>2. 0 \notin DOMAIN op /\ n_committed \in Nat /\ IsFiniteSet(DOMAIN op)
    BY TaskFacts, FS_Interval DEF GpuTypeOK
  <2>3. CASE t[i] = 0
    <3>1. t' = t /\ n_committed' = n_committed
      BY <1>2, <2>1, <2>2, <2>3
    <3>2. QED
      BY <1>3, <2>1, <3>1
  <2>4. CASE t[i] # 0
    <3>1. /\ t[i] \in DOMAIN op /\ state[t[i]] = "done"
          /\ \A k \in Worker \ {i} : t[k] # t[i]
      BY <1>2, <1>8, <2>4 DEF Commit, ControlInv, ControlOf
    <3>2. CommittedTasks' = CommittedTasks \cup {t[i]}
      <4>1. \A y \in DOMAIN op : y # t[i] =>
              ((\A k \in Worker : t'[k] # y) <=> (\A k \in Worker : t[k] # y))
        BY <1>1, <2>1, <2>2
      <4>2. \A k \in Worker : t'[k] # t[i]
        BY <1>1, <2>1, <2>2, <3>1
      <4>3. QED
        BY <1>1, <2>1, <3>1, <4>1, <4>2 DEF CommittedTasks
    <3>3. t[i] \notin CommittedTasks
      BY DEF CommittedTasks
    <3>4. IsFiniteSet(CommittedTasks)
      BY <2>2, FS_Subset DEF CommittedTasks
    <3>5. Cardinality(CommittedTasks') = Cardinality(CommittedTasks) + 1
      BY <3>2, <3>3, <3>4, FS_AddElement
    <3>6. QED
      BY <2>1, <2>4, <3>5 DEF CountInv
  <2>5. QED
    BY <2>3, <2>4
<1>9. QED
  BY <1>4, <1>5, <1>6, <1>7, <1>8 DEF WorkOn, Transfers

LEMMA WrittenStep ==
  ASSUME ShapeInv, WrittenInv, NEW i \in Worker, WorkOn(i)
  PROVE  WrittenInv'
<1> USE DEF ShapeInv
<1>1. op' = op /\ \A k \in Worker \ {i} : t'[k] = t[k] /\ place'[k] = place[k]
  BY Frame DEF Untouched
<1>2. /\ state \in [DOMAIN op -> {"waiting", "taken", "done"}]
      /\ t \in [Worker -> {0} \cup DOMAIN op] /\ place \in [Worker -> Label]
      /\ 0 \notin DOMAIN op /\ IsFiniteSet(DOMAIN op) /\ written \in [Block -> Nat]
  <2>1. DOMAIN op = 1..Len(op) /\ Len(op) \in Nat
    BY TaskFacts
  <2>2. IsFiniteSet(1..Len(op)) /\ 0 \notin 1..Len(op)
    BY <2>1, FS_Interval
  <2>3. QED
    BY <2>1, <2>2 DEF GpuTypeOK
<1>3. \A x : Outputs(x)' = Outputs(x)
  BY <1>1 DEF Outputs
<1>4. ASSUME written' = written, \A x \in DOMAIN op : Ran(x)' <=> Ran(x)
      PROVE  WrittenInv'
  <2>1. \A b : {x \in DOMAIN op : b \in Outputs(x) /\ Ran(x)}'
                 = {x \in DOMAIN op : b \in Outputs(x) /\ Ran(x)}
    BY <1>1, <1>3, <1>4
  <2>2. QED
    BY <1>4, <2>1 DEF WrittenInv
<1>5. CASE Compute(i) \/ ComputeOnCpu(i)
  <2>1. /\ t' = t /\ state' = state /\ place'[i] = "mark" /\ place[i] # "mark"
        /\ Overwrite(t[i]) /\ Running(i)
    <3>1. /\ t' = t /\ state' = state /\ Enter(i, "mark") /\ (Computing(i) \/ ComputingOnCpu(i))
          /\ Overwrite(t[i])
      BY <1>5, Zenon DEF Compute, ComputeOnCpu, tasks
    <3>2. QED
      BY <1>2, <3>1 DEF Enter, Computing, ComputingOnCpu, Running, Ready, Updating, Clearing
  <2>2. /\ t[i] \in DOMAIN op /\ state[t[i]] = "taken"
        /\ \A k \in Worker \ {i} : t[k] # t[i]
    BY <1>2, <2>1, RunningTask DEF ControlInv
  <2>3. ~Ran(t[i])
    BY <2>1, <2>2 DEF Ran
  <2>4. \A x \in DOMAIN op : Ran(x)' <=> Ran(x) \/ x = t[i]
    <3>1. ASSUME NEW x \in DOMAIN op PROVE Ran(x)' <=> Ran(x) \/ x = t[i]
      <4>1. ASSUME NEW k \in Worker
            PROVE  t'[k] = x /\ place'[k] = "mark" <=>
                     (t[k] = x /\ place[k] = "mark") \/ (k = i /\ x = t[i])
        BY <1>1, <2>1
      <4>2. QED
        BY <2>1, <4>1 DEF Ran
    <3>2. QED
      BY <3>1
  <2>5. ASSUME NEW b \in Block
        PROVE  written'[b] = Cardinality({x \in DOMAIN op : b \in Outputs(x) /\ Ran(x)}')
    <3> DEFINE R == {x \in DOMAIN op : b \in Outputs(x) /\ Ran(x)}
    <3>1. IsFiniteSet(R)
      BY <1>2, FS_Subset
    <3>2. written[b] = Cardinality(R)
      BY DEF WrittenInv
    <3>3. CASE b \in Outputs(t[i])
      <4>1. R' = R \cup {t[i]}
        BY <1>1, <1>3, <2>2, <2>4, <3>3
      <4>2. t[i] \notin R
        BY <2>3
      <4>3. written'[b] = written[b] + 1
        BY <2>1, <3>3 DEF Overwrite
      <4> HIDE DEF R
      <4>4. Cardinality(R \cup {t[i]}) = Cardinality(R) + 1
        BY <3>1, <4>2, FS_AddElement
      <4>5. written'[b] = Cardinality(R')
        BY <3>2, <4>1, <4>3, <4>4
      <4>6. QED
        BY <4>5 DEF R
    <3>4. CASE b \notin Outputs(t[i])
      <4>1. R' = R
        BY <1>1, <1>3, <2>2, <2>4, <3>4
      <4>2. written'[b] = written[b]
        BY <2>1, <3>4 DEF Overwrite
      <4> HIDE DEF R
      <4>3. written'[b] = Cardinality(R')
        BY <3>2, <4>1, <4>2
      <4>4. QED
        BY <4>3 DEF R
    <3>5. QED
      BY <3>3, <3>4
  <2>6. QED
    BY <2>5 DEF WrittenInv
<1>6. CASE Transfers(i)
  <2>1. state' = state /\ t' = t /\ written' = written /\ (place'[i] = "mark" <=> place[i] = "mark")
    BY <1>6, TransfersKeep
  <2>2. \A k \in Worker : place'[k] = "mark" <=> place[k] = "mark"
    BY <1>1, <2>1
  <2>3. QED
    BY <1>4, <2>1, <2>2 DEF Ran
<1>7. CASE Dequeue(i)
  <2>1. written' = written /\ place[i] = "dequeue" /\ t[i] = 0
    BY <1>7 DEF Dequeue, memory, ControlInv, ControlOf
  <2>2. place'[i] \in {"check", "commit"}
    BY <1>2, <1>7 DEF Dequeue, Enter
  <2>3. \A y \in DOMAIN op : state'[y] = "done" <=> state[y] = "done"
    BY <1>2, <1>7 DEF Dequeue, Available
  <2>4. ASSUME NEW x \in DOMAIN op PROVE Ran(x)' <=> Ran(x)
    BY <1>1, <2>1, <2>2, <2>3 DEF Ran
  <2>5. QED
    BY <1>4, <2>1, <2>4
<1>8. CASE Verdict(i)
  <2>1. /\ written' = written /\ place[i] = "check" /\ t[i] \in DOMAIN op
        /\ state[t[i]] = "taken"
    BY <1>8, RunningTask DEF Verdict, memory, Running
  <2>2. place'[i] \in {"update", "clear", "commit"}
    BY <1>2, <1>8 DEF Verdict, Enter
  <2>3. \A y \in DOMAIN op : state'[y] = "done" <=> state[y] = "done"
    BY <1>2, <1>8, <2>1 DEF Verdict
  <2>4. ASSUME NEW x \in DOMAIN op PROVE Ran(x)' <=> Ran(x)
    BY <1>1, <2>1, <2>2, <2>3 DEF Ran
  <2>5. QED
    BY <1>4, <2>1, <2>4
<1>9. CASE Release(i)
  <2>1. /\ written' = written /\ t' = t /\ place[i] = "mark" /\ t[i] \in DOMAIN op
        /\ place'[i] = "commit" /\ state' = [state EXCEPT ![t[i]] = "done"]
    BY <1>2, <1>9, RunningTask DEF Release, memory, Running, Ready, Enter
  <2>2. \A y \in DOMAIN op : state'[y] = "done" <=> state[y] = "done" \/ y = t[i]
    BY <1>2, <2>1
  <2>3. ASSUME NEW x \in DOMAIN op PROVE Ran(x)' <=> Ran(x)
    BY <1>1, <2>1, <2>2 DEF Ran
  <2>4. QED
    BY <1>4, <2>1, <2>3
<1>10. CASE Commit(i)
  <2>1. /\ written' = written /\ state' = state /\ place[i] = "commit"
        /\ place'[i] \in {"destroy", "loop"}
    BY <1>2, <1>10 DEF Commit, memory, Enter
  <2>2. ASSUME NEW x \in DOMAIN op PROVE Ran(x)' <=> Ran(x)
    BY <1>1, <2>1 DEF Ran
  <2>3. QED
    BY <1>4, <2>1, <2>2
<1>11. QED
  BY <1>5, <1>6, <1>7, <1>8, <1>9, <1>10 DEF WorkOn, Transfers

(* The number of committed tasks stays in its range since it counts tasks. *)
LEMMA TypeStep ==
  ASSUME ShapeInv, CountInv, FetchInv, NEW i \in Worker, WorkOn(i)
  PROVE  GpuTypeOK'
<1> USE DEF ShapeInv
<1>1. op' = op /\ op' \in Program /\ Len(op) \in Nat /\ DOMAIN op = 1..Len(op)
  BY Frame, TaskFacts DEF GpuTypeOK
<1>2. n_committed' \in 0..Len(op)
  <2>1. n_committed' = Cardinality(CommittedTasks') /\ CommittedTasks' \subseteq DOMAIN op
    <3>1. CountInv'
      BY CountStep
    <3>2. QED
      BY <1>1, <3>1 DEF CountInv, CommittedTasks
  <2>2. IsFiniteSet(1..Len(op)) /\ Cardinality(1..Len(op)) = Len(op)
    <3>1. PICK m \in Nat : m = Len(op)
      BY <1>1
    <3>2. IsFiniteSet(1..m) /\ Cardinality(1..m) = m
      BY FS_Interval
    <3>3. QED
      BY <3>1, <3>2
  <2>3. /\ Cardinality(CommittedTasks') <= Len(op)
        /\ Cardinality(CommittedTasks') \in Nat
    <3>1. PICK S \in SUBSET (1..Len(op)) : S = CommittedTasks'
      BY <1>1, <2>1
    <3>2. IsFiniteSet(S) /\ Cardinality(S) <= Cardinality(1..Len(op))
      BY <2>2, FS_Subset
    <3>3. Cardinality(S) \in Nat
      BY <3>2, FS_CardinalityType
    <3>4. QED
      BY <2>2, <3>1, <3>2, <3>3
  <2>4. QED
    BY <1>1, <2>1, <2>3
<1>3. gpu' \in [Worker -> [Buffer -> Slot]] /\ DOMAIN todo' = Worker
  BY SlotStep, TodoStep
<1>4. state' \in [DOMAIN op -> {"waiting", "taken", "done"}]
      /\ t' \in [Worker -> {0} \cup DOMAIN op] /\ ok' \in [Worker -> BOOLEAN]
  <2>1. CASE Transfers(i) /\ ~Check(i)
    <3>1. state' = state /\ t' = t
      BY <2>1, TransfersKeep
    <3>2. ok' = ok
      BY <2>1, Zenon DEF Transfers, FlushGpu, Fetch, Evicted, Invalidate, MarkBlock, FlushBlock,
                         Clean, Read, ReadVictim, Write, Destroy, tasks
    <3>3. QED
      BY <3>1, <3>2 DEF GpuTypeOK
  <2>2. CASE Check(i)
    <3>1. state' = state /\ t' = t /\ (ok' = ok \/ ok' = [ok EXCEPT ![i] = FALSE])
      BY <2>2, Zenon DEF Check
    <3>2. QED
      BY <3>1 DEF GpuTypeOK
  <2>3. CASE Compute(i) \/ ComputeOnCpu(i)
    <3>1. state' = state /\ t' = t /\ ok' = ok
      BY <2>3, Zenon DEF Compute, ComputeOnCpu, tasks
    <3>2. QED
      BY <3>1 DEF GpuTypeOK
  <2>4. CASE Dequeue(i) \/ Verdict(i) \/ Release(i) \/ Commit(i)
    <3>1. CASE Dequeue(i)
      <4>1. \/ state' = state /\ t' = t /\ ok' = ok
            \/ \E x \in DOMAIN op : /\ t' = [t EXCEPT ![i] = x]
                                   /\ ok' = [ok EXCEPT ![i] = TRUE]
                                   /\ state' = [state EXCEPT ![x] = "taken"]
        BY <3>1, Zenon DEF Dequeue
      <4>2. CASE state' = state /\ t' = t /\ ok' = ok
        BY <4>2 DEF GpuTypeOK
      <4>3. CASE \E x \in DOMAIN op : /\ t' = [t EXCEPT ![i] = x]
                                      /\ ok' = [ok EXCEPT ![i] = TRUE]
                                      /\ state' = [state EXCEPT ![x] = "taken"]
        <5>1. PICK x \in DOMAIN op : /\ t' = [t EXCEPT ![i] = x]
                                     /\ ok' = [ok EXCEPT ![i] = TRUE]
                                     /\ state' = [state EXCEPT ![x] = "taken"]
          BY <4>3
        <5>2. state' \in [DOMAIN op -> {"waiting", "taken", "done"}]
          BY <5>1 DEF GpuTypeOK
        <5>3. t' \in [Worker -> {0} \cup DOMAIN op] /\ ok' \in [Worker -> BOOLEAN]
          BY <5>1 DEF GpuTypeOK
        <5>4. QED
          BY <5>2, <5>3
      <4>4. QED
        BY <4>1, <4>2, <4>3
    <3>2. CASE Verdict(i)
      BY <3>2 DEF Verdict, GpuTypeOK
    <3>3. CASE Release(i)
      BY <3>3 DEF Release, GpuTypeOK
    <3>4. CASE Commit(i)
      BY <3>4 DEF Commit, GpuTypeOK
    <3>5. QED
      BY <2>4, <3>1, <3>2, <3>3, <3>4
  <2>5. QED
    BY <2>1, <2>2, <2>3, <2>4 DEF WorkOn, Transfers
<1>5. place' \in [Worker -> Label]
  <2>1. place' = place \/ \E l \in Label : Enter(i, l)
    <3>1. CASE Check(i) \/ Invalidate(i) \/ MarkBlock(i) \/ Read(i)
      BY <3>1, Zenon DEF Check, Invalidate, MarkBlock, Read
    <3>2. CASE Clean(i)
      <4>1. Enter(i, IF t[i] = 0 THEN "dequeue" ELSE "clear")
        BY <3>2, Zenon DEF Clean
      <4>2. QED
        BY <4>1 DEF Label
    <3>3. CASE Fetch(i)
      <4>1. PICK s \in todo[i], k \in Buffer : FetchedTo(i, s, k)
        BY <3>3, FetchEffect
      <4>2. QED
        BY <4>1 DEF FetchedTo, FetchHit, FetchMiss, Label
    <3>4. CASE Compute(i)
      <4>1. Enter(i, "mark")
        BY <3>4, Zenon DEF Compute
      <4>2. QED
        BY <4>1 DEF Label
    <3>5. CASE ComputeOnCpu(i) \/ FlushGpu(i) \/ Dequeue(i) \/ Verdict(i) \/ Evicted(i)
               \/ FlushBlock(i) \/ ReadVictim(i) \/ Write(i) \/ Release(i)
               \/ Commit(i) \/ Destroy(i)
      BY <3>5 DEF ComputeOnCpu, FlushGpu, Dequeue, Verdict, Evicted, FlushBlock, ReadVictim, Write,
                  Release, Commit, Destroy, Label
    <3>6. QED
      BY <3>1, <3>2, <3>3, <3>4, <3>5 DEF WorkOn
  <2>2. QED
    BY <2>1 DEF Enter, GpuTypeOK
<1>6. reads' \in [Worker -> SUBSET Buffer] /\ DOMAIN gpu_log' = Worker
      /\ \A j \in Worker : /\ DOMAIN gpu_log'[j] \subseteq Buffer
                           /\ gpu_log'[j] \in [DOMAIN gpu_log'[j] -> Slot]
  <2>1. CASE reads' = reads /\ gpu_log' = gpu_log
    BY <2>1 DEF GpuTypeOK
  <2>2. CASE Read(i)
    BY <2>2 DEF Read, GpuTypeOK
  <2>3. CASE Clean(i)
    <3>1. reads' = reads /\ gpu_log' = [gpu_log EXCEPT ![i] = <<>>]
      BY <2>3, Zenon DEF Clean
    <3>2. DOMAIN <<>> = {} /\ <<>> \in [{} -> Slot]
      OBVIOUS
    <3>3. QED
      BY <3>1, <3>2 DEF GpuTypeOK
  <2>4. CASE \E s \in SUBSET Buffer : LogSlots(i, s)
    <3>1. PICK s \in SUBSET Buffer : LogSlots(i, s)
      BY <2>4
    <3>2. \A n \in s : gpu[i][n] \in Slot
      BY DEF GpuTypeOK
    <3>3. PICK l \in [s -> Slot] : l = [n \in s |-> gpu[i][n]]
      BY <3>2
    <3>4. gpu_log' = [gpu_log EXCEPT ![i] = l] /\ reads' = [reads EXCEPT ![i] = s]
          /\ DOMAIN l = s
      BY <3>1, <3>3 DEF LogSlots
    <3>5. QED
      BY <3>4 DEF GpuTypeOK
  <2>5. FlushGpu(i) \/ FlushBlock(i) \/ Destroy(i) => \E s \in SUBSET Buffer : LogSlots(i, s)
    BY Zenon DEF FlushGpu, FlushBlock, Destroy, Located
  <2>6. QED
    BY <2>1, <2>2, <2>3, <2>4, <2>5, Zenon
    DEF WorkOn, Dequeue, Check, Verdict, Fetch, Evicted, Invalidate, MarkBlock, ReadVictim, Write,
        Compute, ComputeOnCpu, Release, Commit, log
<1>7. /\ victim' \in [Worker -> Block \cup {NULL}] /\ obj' \in [Worker -> Block \cup {NULL}]
      /\ arg' \in [Worker -> [Block -> {0} \cup Buffer]]
  <2>1. CASE Fetch(i)
    <3>1. PICK s \in todo[i], k \in Buffer : FetchedTo(i, s, k)
      BY <2>1, FetchEffect
    <3>2. PICK e \in Slot, b \in Block : e = gpu[i][k] /\ b = s.block
      BY <3>1 DEF FetchedTo
    <3>3. /\ arg' = [arg EXCEPT ![i][b] = e.buf]
          /\ victim' = victim \/ victim' = [victim EXCEPT ![i] = e.block]
          /\ obj' = obj \/ obj' = [obj EXCEPT ![i] = b]
      BY <3>1, <3>2 DEF FetchedTo, FetchHit, FetchMiss
    <3>4. e.buf \in Buffer /\ e.block \in Block \cup {NULL}
      BY DEF Slot
    <3>5. victim' \in [Worker -> Block \cup {NULL}]
      BY <3>3, <3>4 DEF GpuTypeOK
    <3>6. obj' \in [Worker -> Block \cup {NULL}]
      BY <3>3 DEF GpuTypeOK
    <3>7. arg' \in [Worker -> [Block -> {0} \cup Buffer]]
      BY <3>3, <3>4 DEF GpuTypeOK
    <3>8. QED
      BY <3>5, <3>6, <3>7
  <2>2. CASE Evicted(i) \/ Write(i)
    BY <2>2 DEF Evicted, Write, cache, GpuTypeOK
  <2>3. CASE victim' = victim /\ obj' = obj /\ arg' = arg
    BY <2>3 DEF GpuTypeOK
  <2>4. QED
    BY <2>1, <2>2, <2>3, Zenon
    DEF WorkOn, FlushGpu, Dequeue, Check, Verdict, Invalidate, MarkBlock, FlushBlock, Clean, Read,
        ReadVictim, Compute, ComputeOnCpu, Release, Commit, Destroy, cache
<1>8. /\ device' \in [Worker -> [Buffer -> Value]] /\ main' \in [Block -> Value]
      /\ written' \in [Block -> Nat]
  <2> USE DEF GpuTypeOK
  <2>1. CASE Read(i)
    <3>1. PICK n \in reads[i] :
            main' = [main EXCEPT ![gpu_log[i][n].block] = device[i][gpu_log[i][n].buf]]
      BY <2>1 DEF Read
    <3>2. gpu_log[i][n] \in Slot
      BY DEF ControlInv, ControlOf
    <3>3. gpu_log[i][n].buf \in Buffer
      BY <3>2 DEF Slot
    <3>4. device[i][gpu_log[i][n].buf] \in Value
      BY <3>3
    <3>5. QED
      BY <2>1, <3>1, <3>4 DEF Read
  <2>2. CASE ReadVictim(i)
    <3>1. Updating(i) /\ obj[i] # NULL
      BY <2>2 DEF ReadVictim, Updating, ControlInv, ControlOf
    <3>2. Stored(i, obj[i], arg[i][obj[i]])
      BY <3>1 DEF FetchInv, FetchOf, Fetched
    <3>3. arg[i][obj[i]] \in Buffer
      BY <3>2 DEF Stored, Slot
    <3>4. device[i][arg[i][obj[i]]] \in Value
      BY <3>3
    <3>5. main' \in [Block -> Value] /\ device' = device /\ written' = written
      <4>1. main' = [main EXCEPT ![victim[i]] = device[i][arg[i][obj[i]]]]
            /\ device' = device /\ written' = written
        BY <2>2 DEF ReadVictim
      <4>2. QED
        BY <3>4, <4>1
    <3>6. QED
      BY <3>5
  <2>3. CASE Write(i)
    <3>1. obj[i] \in Block
      BY <2>3 DEF Write, ControlInv, ControlOf
    <3>2. main[obj[i]] \in Value
      BY <3>1
    <3>3. QED
      BY <2>3, <3>2 DEF Write, memory
  <2>4. CASE Compute(i)
    <3>1. main' = main /\ Overwrite(t[i])
          /\ device' = [device EXCEPT ![i] = [k \in Buffer |->
               LET b == {c \in Outputs(t[i]) : arg[i][c] = k}
               IN  IF b = {} THEN @[k]
                   ELSE LET c == CHOOSE c \in b : TRUE IN <<c, written[c] + 1>>]]
      BY <2>4, Zenon DEF Compute
    <3>2. Outputs(t[i]) \subseteq Block
      BY <2>4, RunningTask DEF Compute, Computing, Running, Ready, Updating
    <3>3. ASSUME NEW k \in Buffer
          PROVE  LET b == {c \in Outputs(t[i]) : arg[i][c] = k}
                 IN  (IF b = {} THEN device[i][k]
                      ELSE LET c == CHOOSE c \in b : TRUE IN <<c, written[c] + 1>>) \in Value
      <4> DEFINE b == {c \in Outputs(t[i]) : arg[i][c] = k}
      <4>1. CASE b = {}
        <5>1. device[i][k] \in Value
          OBVIOUS
        <5>2. QED
          BY <4>1, <5>1
      <4>2. CASE b # {}
        <5>1. (CHOOSE c \in b : TRUE) \in Block
          BY <3>2, <4>2
        <5>2. \A c \in Block : <<c, written[c] + 1>> \in Value
          BY DEF Value
        <5> HIDE DEF b
        <5>3. QED
          BY <4>2, <5>1, <5>2 DEF b
      <4>3. QED
        BY <4>1, <4>2
    <3>4. device'[i] \in [Buffer -> Value] /\ \A j \in Worker \ {i} : device'[j] = device[j]
          /\ DOMAIN device' = Worker
      BY <3>1, <3>3
    <3>5. written' \in [Block -> Nat]
      BY <3>1 DEF Overwrite
    <3>6. QED
      BY <3>1, <3>4, <3>5
  <2>5. CASE ComputeOnCpu(i)
    <3>1. written' \in [Block -> Nat]
      BY <2>5 DEF ComputeOnCpu, Overwrite
    <3>2. \A b \in Block : <<b, written[b] + 1>> \in Value
      BY DEF Value
    <3>3. main' \in [Block -> Value]
      BY <2>5, <3>2 DEF ComputeOnCpu
    <3>4. QED
      BY <2>5, <3>1, <3>3 DEF ComputeOnCpu
  <2>6. CASE UNCHANGED memory
    BY <2>6 DEF memory
  <2>7. QED
    BY <2>1, <2>2, <2>3, <2>4, <2>5, <2>6, Zenon
    DEF WorkOn, FlushGpu, Dequeue, Check, Verdict, Fetch, Evicted, Invalidate, MarkBlock,
        FlushBlock, Clean, Release, Commit, Destroy
<1>9. QED
  BY <1>1, <1>2, <1>3, <1>4, <1>5, <1>6, <1>7, <1>8 DEF GpuTypeOK

-----------------------------------------------------------------------------
(* The blocks and who has them.                                            *)

LEMMA SlotsChange ==
  ASSUME ShapeInv, NEW i \in Worker, WorkOn(i),
         ~Fetch(i), ~Invalidate(i), ~MarkBlock(i), ~Clean(i)
  PROVE  \A k \in Worker : SameSlots(k)
<1>1. CASE Check(i)
  BY <1>1, CheckEffect DEF ShapeInv
<1>2. CASE gpu' = gpu
  BY <1>2, SlotsUnchanged
<1>3. QED
  BY <1>1, <1>2
  DEF WorkOn, FlushGpu, Dequeue, Verdict, Evicted, FlushBlock, Read, ReadVictim, Write,
                    Compute, ComputeOnCpu, Release, Commit, Destroy, cache

LEMMA VictimChange ==
  ASSUME NEW i \in Worker, WorkOn(i), ~Fetch(i), ~Evicted(i)
  PROVE  victim' = victim
BY Zenon DEF WorkOn, FlushGpu, Dequeue, Check, Verdict, Invalidate, MarkBlock, FlushBlock,
             Clean, Read, ReadVictim, Write, Compute, ComputeOnCpu, Release, Commit, Destroy, cache

LEMMA MemoryChange ==
  ASSUME NEW i \in Worker, WorkOn(i)
  PROVE  /\ ~Write(i) /\ ~Compute(i) => device' = device
         /\ ~Read(i) /\ ~ReadVictim(i) /\ ~ComputeOnCpu(i) => main' = main
         /\ ~Compute(i) /\ ~ComputeOnCpu(i) => written' = written
BY Zenon DEF WorkOn, FlushGpu, Dequeue, Check, Verdict, Fetch, Evicted, Invalidate, MarkBlock,
             FlushBlock, Clean, Read, ReadVictim, Write, Compute, ComputeOnCpu, Release, Commit,
             Destroy, memory

(* A GPU gets blocks by fetching them for its task only.                   *)
LEMMA HoldsGrow ==
  ASSUME ShapeInv, NEW i \in Worker, WorkOn(i), NEW k \in Worker, NEW b \in Block, Holds(k, b)'
  PROVE  Holds(k, b) \/ (Fetch(i) /\ k = i /\ b \in Blocks(t[i]))
<1> USE DEF ShapeInv
<1>1. CASE Fetch(i)
  <2>1. PICK s \in todo[i], l \in Buffer : FetchedTo(i, s, l)
    BY <1>1, FetchEffect
  <2>2. CASE k # i
    <3>1. SameSlots(k)
      BY <1>1, <2>2, FetchEffect, SlotsUnchanged
    <3>2. QED
      BY <3>1 DEF SameSlots
  <2>3. CASE k = i
    BY <1>1, <2>1, <2>3 DEF FetchedTo, FetchHit, FetchMiss, SameSlots
  <2>4. QED
    BY <2>2, <2>3
<1>2. CASE Invalidate(i)
  <2>1. PICK s \in todo[i] :
          /\ s.at \in Worker
          /\ \A j \in Worker \ {s.at} : gpu'[j] = gpu[j]
          /\ \A c \in Block : Holds(s.at, c)' <=> Holds(s.at, c) /\ c # s.block
    BY <1>2, InvalidateEffect
  <2>2. CASE k # s.at
    <3>1. SameSlots(k)
      BY <2>1, <2>2, SlotsUnchanged
    <3>2. QED
      BY <3>1 DEF SameSlots
  <2>3. CASE k = s.at
    <3>1. PICK m \in Worker : m = s.at
      BY <2>1
    <3>2. Holds(m, b)' => Holds(m, b)
      BY <2>1, <3>1
    <3>3. QED
      BY <2>3, <3>1, <3>2
  <2>4. QED
    BY <2>2, <2>3
<1>3. CASE MarkBlock(i) \/ Clean(i)
  <2>1. /\ \A j \in Worker \ {i} : gpu'[j] = gpu[j]
        /\ Holds(i, b)' <=> Holds(i, b)
    BY <1>3, MarkEffect, CleanEffect
  <2>2. CASE k # i
    <3>1. SameSlots(k)
      BY <2>1, <2>2, SlotsUnchanged
    <3>2. QED
      BY <3>1 DEF SameSlots
  <2>3. QED
    BY <2>1, <2>2
<1>4. CASE ~Fetch(i) /\ ~Invalidate(i) /\ ~MarkBlock(i) /\ ~Clean(i)
  BY <1>4, SlotsChange DEF SameSlots
<1>5. QED
  BY <1>1, <1>2, <1>3, <1>4

LEMMA DirtyGrow ==
  ASSUME ShapeInv, NEW i \in Worker, WorkOn(i), NEW k \in Worker, NEW b \in Block,
         HoldsDirty(k, b)'
  PROVE  HoldsDirty(k, b) \/ (MarkBlock(i) /\ k = i /\ Unmarked(i, b))
<1> USE DEF ShapeInv
<1>1. CASE Fetch(i)
  <2>1. PICK s \in todo[i], l \in Buffer : FetchedTo(i, s, l)
    BY <1>1, FetchEffect
  <2>2. CASE k # i
    <3>1. SameSlots(k)
      BY <1>1, <2>2, FetchEffect, SlotsUnchanged
    <3>2. QED
      BY <3>1 DEF SameSlots
  <2>3. CASE k = i
    BY <1>1, <2>1, <2>3 DEF FetchedTo, FetchHit, FetchMiss, SameSlots
  <2>4. QED
    BY <2>2, <2>3
<1>2. CASE Invalidate(i)
  <2>1. PICK s \in todo[i] :
          /\ s.at \in Worker
          /\ \A j \in Worker \ {s.at} : gpu'[j] = gpu[j]
          /\ \A c \in Block : HoldsDirty(s.at, c)' <=> HoldsDirty(s.at, c) /\ c # s.block
    BY <1>2, InvalidateEffect
  <2>2. CASE k # s.at
    <3>1. SameSlots(k)
      BY <2>1, <2>2, SlotsUnchanged
    <3>2. QED
      BY <3>1 DEF SameSlots
  <2>3. CASE k = s.at
    <3>1. PICK m \in Worker : m = s.at
      BY <2>1
    <3>2. HoldsDirty(m, b)' => HoldsDirty(m, b)
      BY <2>1, <3>1
    <3>3. QED
      BY <2>3, <3>1, <3>2
  <2>4. QED
    BY <2>2, <2>3
<1>3. CASE Clean(i)
  <2>1. /\ \A j \in Worker \ {i} : gpu'[j] = gpu[j]
        /\ HoldsDirty(i, b)' => HoldsDirty(i, b)
    BY <1>3, CleanEffect
  <2>2. CASE k # i
    <3>1. SameSlots(k)
      BY <2>1, <2>2, SlotsUnchanged
    <3>2. QED
      BY <3>1 DEF SameSlots
  <2>3. QED
    BY <2>1, <2>2
<1>4. CASE MarkBlock(i)
  <2>1. PICK s \in todo[i] : HoldsDirty(i, b)' <=> HoldsDirty(i, b) \/ (b = s.block /\ Holds(i, b))
    BY <1>4, MarkEffect
  <2>2. CASE k # i
    <3>1. SameSlots(k)
      BY <1>4, <2>2, MarkEffect, SlotsUnchanged
    <3>2. QED
      BY <3>1 DEF SameSlots
  <2>3. CASE k = i
    <3>1. place[i] = "mark"
      BY <1>4 DEF MarkBlock
    <3>2. s.what = "mark" /\ s.at = i
      BY <3>1, MarkSteps DEF TodoInv, TodoOf
    <3>3. b = s.block => Unmarked(i, b)
      BY <3>1, <3>2 DEF Unmarked, ToDo
    <3>4. QED
      BY <1>4, <2>1, <2>3, <3>3
  <2>4. QED
    BY <2>2, <2>3
<1>5. CASE ~Fetch(i) /\ ~Invalidate(i) /\ ~MarkBlock(i) /\ ~Clean(i)
  BY <1>5, SlotsChange DEF SameSlots
<1>6. QED
  BY <1>1, <1>2, <1>3, <1>4, <1>5

(* The outputs of a task are not marked between the task and its marking.  *)
LEMMA UnmarkedGrow ==
  ASSUME ShapeInv, NEW i \in Worker, WorkOn(i), NEW k \in Worker, NEW b \in Block, Unmarked(k, b)'
  PROVE  \/ Unmarked(k, b)
         \/ Compute(i) /\ k = i /\ b \in Outputs(t[i])
<1> USE DEF ShapeInv
<1>1. op' = op /\ \A j \in Worker \ {i} : Untouched(j)
  BY Frame
<1>2. CASE k # i
  BY <1>1, <1>2, StageSame
<1>3. CASE k = i
  <2>1. place'[i] = "mark" /\ ToDo(i, "mark", b, i)'
    BY <1>3 DEF Unmarked
  <2>2. CASE Transfers(i)
    <3>1. place[i] = "mark"
      BY <2>1, <2>2, TransfersKeep
    <3>2. MarkBlock(i)
      BY <2>2, <3>1, Zenon
      DEF Transfers, FlushGpu, Check, Fetch, Evicted, Invalidate, FlushBlock, Clean, Read,
          ReadVictim, Write, Destroy
    <3>3. PICK s \in todo[i] : Continue(i, s)
      BY <3>2, Zenon DEF MarkBlock
    <3>4. todo'[i] \subseteq todo[i]
      BY <3>3 DEF Continue, GpuTypeOK
    <3>5. QED
      BY <1>3, <2>1, <3>1, <3>4 DEF Unmarked, ToDo
  <2>3. CASE Compute(i)
    <3>1. todo'[i] = MarkPlan(i, t[i])
      BY <2>3 DEF Compute, GpuTypeOK
    <3>2. b \in Outputs(t[i])
      BY <2>1, <3>1, MarkSteps DEF ToDo
    <3>3. QED
      BY <1>3, <2>3, <3>2
  <2>4. CASE ComputeOnCpu(i)
    BY <2>1, <2>4 DEF ComputeOnCpu, ComputingOnCpu, ToDo
  <2>5. CASE Dequeue(i) \/ Verdict(i) \/ Release(i) \/ Commit(i)
    BY <2>1, <2>5 DEF Dequeue, Verdict, Release, Commit, Enter, GpuTypeOK
  <2>6. QED
    BY <2>2, <2>3, <2>4, <2>5 DEF WorkOn, Transfers
<1>4. QED
  BY <1>2, <1>3

(* A block becomes up to date on a GPU only by a task that writes it there. *)
LEMMA OwnsGrow ==
  ASSUME ShapeInv, NEW i \in Worker, WorkOn(i), NEW k \in Worker, NEW b \in Block, Owns(k, b)'
  PROVE  Owns(k, b) \/ (Compute(i) /\ k = i /\ b \in Outputs(t[i]))
<1> USE DEF ShapeInv
<1>1. CASE HoldsDirty(k, b)'
  BY <1>1, DirtyGrow DEF Owns
<1>2. CASE Unmarked(k, b)'
  BY <1>2, UnmarkedGrow DEF Owns
<1>3. CASE victim'[k] = b
  <2>1. CASE Fetch(i)
    <3>1. PICK s \in todo[i], l \in Buffer : FetchedTo(i, s, l)
      BY <2>1, FetchEffect
    <3>2. CASE victim' = victim
      BY <1>3, <3>2 DEF Owns
    <3>3. CASE victim' = [victim EXCEPT ![i] = gpu[i][l].block] /\ Dirty(gpu[i][l])
      <4>1. CASE k = i
        <5>1. gpu[i][l].block = b /\ ~gpu[i][l].clean
          BY <1>3, <3>3, <4>1 DEF GpuTypeOK, Dirty
        <5>2. HoldsDirty(i, b)
          BY <3>1, <5>1 DEF HoldsDirty
        <5>3. QED
          BY <4>1, <5>2 DEF Owns
      <4>2. CASE k # i
        BY <1>3, <3>3, <4>2 DEF Owns, GpuTypeOK
      <4>3. QED
        BY <4>1, <4>2
    <3>4. QED
      BY <3>1, <3>2, <3>3 DEF FetchedTo, FetchHit, FetchMiss
  <2>2. CASE Evicted(i)
    BY <1>3, <2>2, GpuAssumption DEF Evicted, GpuTypeOK, Owns
  <2>3. CASE victim' = victim
    BY <1>3, <2>3 DEF Owns
  <2>4. QED
    BY <2>1, <2>2, <2>3, VictimChange
<1>4. QED
  BY <1>1, <1>2, <1>3 DEF Owns

(* A block leaves a GPU when it is the last one there and another comes,   *)
(* or when it is invalidated.                                              *)
LEMMA StoredShrink ==
  ASSUME ShapeInv, NEW i \in Worker, WorkOn(i), NEW k \in Worker, NEW b \in Block, NEW f \in Buffer,
         Stored(k, b, f), ~Stored(k, b, f)'
  PROVE  \/ /\ k = i
            /\ \E s \in todo[i], l \in Buffer :
                 FetchedTo(i, s, l) /\ gpu[i][l].block = b /\ s.block # b
         \/ /\ Invalidate(i)
            /\ \E s \in todo[i] : s.what = "invalidate" /\ s.at = k /\ s.block = b /\ Due(i, s)
<1> USE DEF ShapeInv
<1>1. CASE Fetch(i)
  <2>1. PICK s \in todo[i], l \in Buffer : FetchedTo(i, s, l)
    BY <1>1, FetchEffect
  <2>2. CASE k # i
    <3>1. SameSlots(k)
      BY <1>1, <2>2, FetchEffect, SlotsUnchanged
    <3>2. QED
      BY <3>1 DEF SameSlots
  <2>3. CASE k = i
    <3>1. CASE FetchHit(i, s.block, gpu[i][l])
      BY <2>3, <3>1 DEF FetchHit, SameSlots
    <3>2. CASE FetchMiss(i, s.block, gpu[i][l])
      BY <2>1, <2>3, <3>2 DEF FetchMiss
    <3>3. QED
      BY <2>1, <3>1, <3>2 DEF FetchedTo
  <2>4. QED
    BY <2>2, <2>3
<1>2. CASE Invalidate(i)
  <2>1. PICK s \in todo[i] :
          /\ s.what = "invalidate" /\ Due(i, s) /\ s.at \in Worker
          /\ \A j \in Worker \ {s.at} : gpu'[j] = gpu[j]
          /\ \A c \in Block : \A g \in Buffer :
               Stored(s.at, c, g)' <=> Stored(s.at, c, g) /\ c # s.block
    BY <1>2, InvalidateEffect
  <2>2. CASE k # s.at
    <3>1. SameSlots(k)
      BY <2>1, <2>2, SlotsUnchanged
    <3>2. QED
      BY <3>1 DEF SameSlots
  <2>3. CASE k = s.at
    <3>1. PICK m \in Worker : m = s.at
      BY <2>1
    <3>2. Stored(m, b, f)' <=> Stored(m, b, f) /\ b # s.block
      BY <2>1, <3>1
    <3>3. QED
      BY <1>2, <2>1, <2>3, <3>1, <3>2
  <2>4. QED
    BY <2>2, <2>3
<1>3. CASE MarkBlock(i) \/ Clean(i)
  <2>1. /\ \A j \in Worker \ {i} : gpu'[j] = gpu[j]
        /\ Stored(i, b, f)' <=> Stored(i, b, f)
    BY <1>3, MarkEffect, CleanEffect
  <2>2. CASE k # i
    <3>1. SameSlots(k)
      BY <2>1, <2>2, SlotsUnchanged
    <3>2. QED
      BY <3>1 DEF SameSlots
  <2>3. QED
    BY <2>1, <2>2
<1>4. CASE ~Fetch(i) /\ ~Invalidate(i) /\ ~MarkBlock(i) /\ ~Clean(i)
  BY <1>4, SlotsChange DEF SameSlots
<1>5. QED
  BY <1>1, <1>2, <1>3, <1>4

LEMMA HoldsStored ==
  ASSUME GpuTypeOK, NEW k \in Worker, NEW b \in Block
  PROVE  /\ Holds(k, b) <=> \E f \in Buffer : Stored(k, b, f)
         /\ HoldsDirty(k, b) => Holds(k, b)
<1>1. \A n \in Buffer : gpu[k][n].buf \in Buffer
  BY DEF GpuTypeOK, Slot
<1>2. QED
  BY <1>1 DEF Holds, HoldsDirty, Stored

(* A dirty block goes to the victim, is invalidated or has been flushed.   *)
LEMMA DirtyShrink ==
  ASSUME ShapeInv, NEW i \in Worker, WorkOn(i), NEW k \in Worker, NEW b \in Block,
         HoldsDirty(k, b), ~HoldsDirty(k, b)'
  PROVE  \/ Fetch(i) /\ k = i /\ victim'[i] = b
         \/ /\ Invalidate(i)
            /\ \E s \in todo[i] : s.what = "invalidate" /\ s.at = k /\ s.block = b /\ Due(i, s)
         \/ Clean(i) /\ k = i /\ b \in Logged(i)
<1> USE DEF ShapeInv
<1>1. CASE Fetch(i)
  <2>1. PICK s \in todo[i], l \in Buffer : FetchedTo(i, s, l)
    BY <1>1, FetchEffect
  <2>2. CASE k # i
    <3>1. SameSlots(k)
      BY <1>1, <2>2, FetchEffect, SlotsUnchanged
    <3>2. QED
      BY <3>1 DEF SameSlots
  <2>3. CASE k = i
    <3>1. FetchMiss(i, s.block, gpu[i][l]) /\ gpu[i][l].block = b
      BY <2>1, <2>3 DEF FetchedTo, FetchHit, FetchMiss, SameSlots
    <3>2. PICK n \in Buffer : gpu[i][n].block = b /\ ~gpu[i][n].clean
      BY <2>3 DEF HoldsDirty
    <3>3. n = l
      BY <2>1, <3>1, <3>2, GpuAssumption DEF SlotInv
    <3>4. Dirty(gpu[i][l])
      BY <3>2, <3>3, GpuAssumption DEF Dirty
    <3>5. victim'[i] = b
      BY <3>1, <3>4 DEF FetchMiss, GpuTypeOK
    <3>6. QED
      BY <1>1, <2>3, <3>5
  <2>4. QED
    BY <2>2, <2>3
<1>2. CASE Invalidate(i)
  <2>1. PICK s \in todo[i] :
          /\ s.what = "invalidate" /\ Due(i, s) /\ s.at \in Worker
          /\ \A j \in Worker \ {s.at} : gpu'[j] = gpu[j]
          /\ \A c \in Block : HoldsDirty(s.at, c)' <=> HoldsDirty(s.at, c) /\ c # s.block
    BY <1>2, InvalidateEffect
  <2>2. CASE k # s.at
    <3>1. SameSlots(k)
      BY <2>1, <2>2, SlotsUnchanged
    <3>2. QED
      BY <3>1 DEF SameSlots
  <2>3. CASE k = s.at
    <3>1. PICK m \in Worker : m = s.at
      BY <2>1
    <3>2. HoldsDirty(m, b)' <=> HoldsDirty(m, b) /\ b # s.block
      BY <2>1, <3>1
    <3>3. QED
      BY <1>2, <2>1, <2>3, <3>1, <3>2
  <2>4. QED
    BY <2>2, <2>3
<1>3. CASE MarkBlock(i)
  <2>1. /\ \A j \in Worker \ {i} : gpu'[j] = gpu[j]
        /\ HoldsDirty(i, b) => HoldsDirty(i, b)'
    BY <1>3, MarkEffect
  <2>2. CASE k # i
    <3>1. SameSlots(k)
      BY <2>1, <2>2, SlotsUnchanged
    <3>2. QED
      BY <3>1 DEF SameSlots
  <2>3. QED
    BY <2>1, <2>2
<1>4. CASE Clean(i)
  <2>1. /\ \A j \in Worker \ {i} : gpu'[j] = gpu[j]
        /\ HoldsDirty(i, b)' <=> HoldsDirty(i, b) /\ b \notin Logged(i)
    BY <1>4, CleanEffect
  <2>2. CASE k # i
    <3>1. SameSlots(k)
      BY <2>1, <2>2, SlotsUnchanged
    <3>2. QED
      BY <3>1 DEF SameSlots
  <2>3. QED
    BY <1>4, <2>1, <2>2
<1>5. CASE ~Fetch(i) /\ ~Invalidate(i) /\ ~MarkBlock(i) /\ ~Clean(i)
  BY <1>5, SlotsChange DEF SameSlots
<1>6. QED
  BY <1>1, <1>2, <1>3, <1>4, <1>5

(* How a thread comes to a stage of its task.                              *)
LEMMA OwnStage ==
  ASSUME ShapeInv, NEW i \in Worker, WorkOn(i)
  PROVE  /\ Updating(i)' => /\ t'[i] = t[i]
                            /\ \/ Updating(i)
                               \/ Verdict(i) /\ todo'[i] = UpdatePlan(i, t[i])
         /\ Clearing(i)' => /\ t'[i] = t[i]
                            /\ \/ Clearing(i)
                               \/ Verdict(i) /\ todo'[i] = ClearPlan(i, t[i])
         /\ place'[i] = "mark" => /\ t'[i] = t[i]
                                  /\ MarkBlock(i) \/ Compute(i) \/ ComputeOnCpu(i)
         /\ place'[i] = "check" => Check(i) \/ Dequeue(i)
<1> USE DEF ShapeInv
<1>1. ControlOf(i)
  BY DEF ControlInv
<1> USE DEF Updating, Clearing
<1>2. CASE Transfers(i)
  <2>1. t' = t /\ (place'[i] = "mark" <=> place[i] = "mark")
    BY <1>2, TransfersKeep
  <2>2. CASE FlushGpu(i) \/ Evicted(i) \/ FlushBlock(i) \/ ReadVictim(i) \/ Write(i) \/ Destroy(i)
    <3>1. CASE FlushGpu(i)
      BY <1>1, <2>1, <3>1 DEF FlushGpu, Enter, ControlOf, GpuTypeOK
    <3>2. CASE Evicted(i) \/ FlushBlock(i) \/ ReadVictim(i) \/ Write(i) \/ Destroy(i)
      BY <2>1, <3>2 DEF Evicted, FlushBlock, ReadVictim, Write, Destroy, Enter, GpuTypeOK
    <3>3. QED
      BY <2>2, <3>1, <3>2
  <2>3. CASE Check(i) \/ Invalidate(i) \/ MarkBlock(i) \/ Read(i)
    <3>1. place' = place /\ (~Check(i) => place[i] # "check")
          /\ (~MarkBlock(i) => place[i] # "mark")
      BY <2>3, Zenon DEF Check, Invalidate, MarkBlock, Read
    <3>2. QED
      BY <2>1, <2>3, <3>1
  <2>4. CASE Clean(i)
    <3>1. place[i] = "flush" /\ Enter(i, IF t[i] = 0 THEN "dequeue" ELSE "clear")
      BY <2>4, Zenon DEF Clean
    <3>2. QED
      BY <2>1, <3>1 DEF Enter, GpuTypeOK
  <2>5. CASE Fetch(i)
    <3>1. PICK s \in todo[i], k \in Buffer : FetchedTo(i, s, k)
      BY <2>5, FetchEffect
    <3>2. place[i] = "update" /\ place'[i] \in {"evict", "write", "update"}
      BY <2>5, <3>1 DEF Fetch, FetchedTo, FetchHit, FetchMiss, Enter, GpuTypeOK
    <3>3. QED
      BY <2>1, <3>2
  <2>6. QED
    BY <1>2, <2>2, <2>3, <2>4, <2>5 DEF Transfers
<1>3. CASE Compute(i) \/ ComputeOnCpu(i)
  <2>1. t' = t /\ Enter(i, "mark")
    BY <1>3, Zenon DEF Compute, ComputeOnCpu, tasks
  <2>2. QED
    BY <1>3, <2>1 DEF Enter, GpuTypeOK
<1>4. CASE Dequeue(i)
  BY <1>4 DEF Dequeue, Enter, GpuTypeOK
<1>5. CASE Verdict(i)
  BY <1>5 DEF Verdict, Enter, GpuTypeOK
<1>6. CASE Release(i) \/ Commit(i)
  BY <1>6 DEF Release, Commit, Enter, GpuTypeOK
<1>7. QED
  BY <1>2, <1>3, <1>4, <1>5, <1>6 DEF WorkOn, Transfers

(* The steps of a loop disappear as they are taken.                        *)
LEMMA TodoShrink ==
  ASSUME ShapeInv, NEW i \in Worker, WorkOn(i), Updating(i) \/ Clearing(i),
         NEW what \in {"fetch", "invalidate", "flush"}, NEW b, NEW k,
         ToDo(i, what, b, k), ~ToDo(i, what, b, k)'
  PROVE  \E s \in todo[i] :
           /\ s.what = what /\ s.block = b /\ s.at = k /\ Continue(i, s)
           /\ what = "fetch" => \E l \in Buffer : FetchedTo(i, s, l)
           /\ what = "invalidate" => Invalidate(i)
           /\ what = "flush" => FlushBlock(i)
<1> USE DEF ShapeInv
<1>1. place[i] \in {"update", "evict", "evicted", "write", "clear", "flush"}
  BY DEF Updating, Clearing
<1>2. todo' # todo /\ todo[i] # {}
  BY DEF ToDo
<1>3. Fetch(i) \/ Invalidate(i) \/ FlushBlock(i)
  BY <1>1, <1>2, Zenon
  DEF WorkOn, FlushGpu, Dequeue, Check, Verdict, Evicted, MarkBlock, Clean, Read, ReadVictim,
      Write, Compute, Computing, ComputeOnCpu, Release, Commit, Destroy
<1>4. Apart(todo[i])
  BY TodoApart
<1>5. ASSUME NEW s \in todo[i], Continue(i, s)
      PROVE  s.what = what /\ s.block = b /\ s.at = k
  BY <1>4, <1>5, StepTaken
<1>6. CASE Fetch(i)
  <2>1. PICK s \in todo[i], l \in Buffer : FetchedTo(i, s, l)
    BY <1>6, FetchEffect
  <2>2. s.what = "fetch" /\ Continue(i, s)
    BY <2>1 DEF FetchedTo
  <2>3. QED
    BY <1>5, <2>1, <2>2
<1>7. CASE Invalidate(i)
  <2>1. PICK s \in todo[i] : s.what = "invalidate" /\ Continue(i, s)
    BY <1>7, Zenon DEF Invalidate
  <2>2. QED
    BY <1>5, <1>7, <2>1
<1>8. CASE FlushBlock(i)
  <2>1. PICK s \in todo[i] : s.what = "flush" /\ Continue(i, s)
    BY <1>8, Zenon DEF FlushBlock
  <2>2. QED
    BY <1>5, <1>8, <2>1
<1>9. QED
  BY <1>3, <1>6, <1>7, <1>8


-----------------------------------------------------------------------------
(* Each part of the invariant about the blocks holds after a step.         *)

LEMMA Stages ==
  ASSUME NEW i
  PROVE  /\ Updating(i) \/ Clearing(i) \/ place[i] = "mark" => Ready(i)
         /\ Ready(i) => Running(i) /\ place[i] # "check"
         /\ Updating(i) => ~Clearing(i)
BY DEF Ready, Running, Updating, Clearing

LEMMA InvalidateStep ==
  ASSUME ShapeInv, NEW i \in Worker, Invalidate(i), NEW s \in todo[i], s.what = "invalidate"
  PROVE  /\ Ready(i) /\ s.block \in Outputs(t[i]) /\ s.block \in Blocks(t[i]) /\ s.block \in Block
         /\ s.at \in Worker /\ t[i] \in DOMAIN op
         /\ \/ place[i] = "update" /\ Updating(i) /\ s.at # i
            \/ place[i] = "clear" /\ Clearing(i) /\ todo[i] \subseteq ClearPlan(i, t[i])
<1> USE DEF ShapeInv
<1>1. \/ place[i] = "update" /\ Updating(i) /\ Ready(i)
      \/ place[i] = "clear" /\ Clearing(i) /\ Ready(i)
  BY DEF Invalidate, Updating, Clearing, Ready
<1>2. t[i] \in DOMAIN op /\ Outputs(t[i]) \subseteq Blocks(t[i]) /\ Blocks(t[i]) \subseteq Block
  BY <1>1, RunningTask, Stages
<1>3. CASE place[i] = "update" /\ Updating(i) /\ Ready(i)
  <2>1. s \in UpdatePlan(i, t[i])
    BY <1>3 DEF TodoInv, TodoOf
  <2>2. s.block \in Outputs(t[i]) /\ s.at \in Worker \ {i}
    BY <2>1, UpdateSteps
  <2>3. QED
    BY <1>2, <1>3, <2>2
<1>4. CASE place[i] = "clear" /\ Clearing(i) /\ Ready(i)
  <2>1. todo[i] \subseteq ClearPlan(i, t[i])
    BY <1>4 DEF TodoInv, TodoOf
  <2>2. s.block \in Outputs(t[i]) /\ s.at \in Worker
    BY <2>1, ClearSteps
  <2>3. QED
    BY <1>2, <1>4, <2>1, <2>2
<1>5. QED
  BY <1>1, <1>3, <1>4

(* No block that is dirty is invalidated.                                  *)
LEMMA InvalidateClean ==
  ASSUME GpuInv, NEW i \in Worker, Invalidate(i), NEW s \in todo[i], s.what = "invalidate",
         Due(i, s), NEW k \in Worker, s.at = k, NEW b \in Block, s.block = b
  PROVE  ~HoldsDirty(k, b) /\ (k # i => ~Owns(k, b))
<1> USE DEF GpuInv, ShapeInv, DataInv
<1>1. /\ Ready(i) /\ b \in Blocks(t[i]) /\ t[i] \in DOMAIN op
      /\ k # i \/ (place[i] = "clear" /\ Clearing(i) /\ todo[i] \subseteq ClearPlan(i, t[i]))
  BY InvalidateStep
<1>2. CASE k # i
  BY <1>1, <1>2, NotOwned DEF Owns
<1>3. CASE k = i /\ place[i] = "clear" /\ Clearing(i) /\ todo[i] \subseteq ClearPlan(i, t[i])
  <2>1. ~ToDo(i, "flush", b, i)
    BY <1>1, <1>3, FlushedFirst
  <2>2. QED
    BY <1>1, <1>3, <2>1 DEF ClearInv
<1>4. QED
  BY <1>1, <1>2, <1>3

(* A block ceases to be up to date only on a GPU when main memory has it.  *)
LEMMA OwnsShrink ==
  ASSUME GpuInv, NEW i \in Worker, WorkOn(i), NEW k \in Worker, NEW b \in Block,
         Owns(k, b), ~Owns(k, b)'
  PROVE  k = i /\ (\/ Clean(i) /\ b \in Logged(i)
                   \/ Evicted(i) /\ victim[i] = b)
<1> USE DEF GpuInv, ShapeInv, DataInv
<1>1. op' = op /\ \A j \in Worker \ {i} : Untouched(j)
  BY Frame
<1>2. /\ ~HoldsDirty(k, b)' /\ ~Unmarked(k, b)' /\ victim'[k] # b
  BY DEF Owns
<1>3. CASE HoldsDirty(k, b)
  <2>1. CASE Fetch(i) /\ k = i /\ victim'[i] = b
    BY <1>2, <2>1
  <2>2. CASE Invalidate(i) /\ \E s \in todo[i] : /\ s.what = "invalidate" /\ s.at = k
                                                 /\ s.block = b /\ Due(i, s)
    BY <1>3, <2>2, InvalidateClean
  <2>3. QED
    BY <1>2, <1>3, <2>1, <2>2, DirtyShrink
<1>4. CASE victim[k] = b
  <2>1. k = i
    BY <1>1, <1>2, <1>4 DEF Untouched
  <2>2. ~Fetch(i)
    BY <1>4, <2>1, GpuAssumption DEF ControlInv, ControlOf, Fetch
  <2>3. QED
    BY <1>2, <1>4, <2>1, <2>2, VictimChange
<1>5. CASE Unmarked(k, b)
  <2>1. k = i
    BY <1>1, <1>2, <1>5, StageSame
  <2>2. place[i] = "mark" /\ ToDo(i, "mark", b, i)
    BY <1>5, <2>1 DEF Unmarked
  <2>3. MarkBlock(i)
    BY <2>2, Zenon
    DEF WorkOn, FlushGpu, Dequeue, Check, Verdict, Fetch, Evicted, Invalidate, FlushBlock, Clean,
        Read, ReadVictim, Write, Compute, Computing, ComputeOnCpu, ComputingOnCpu, Release,
        Commit, Destroy, ToDo
  <2>4. PICK s \in todo[i] :
          /\ Continue(i, s)
          /\ HoldsDirty(i, b)' <=> HoldsDirty(i, b) \/ (b = s.block /\ Holds(i, b))
    BY <2>3, MarkEffect
  <2>5. place' = place
    BY <2>3, Zenon DEF MarkBlock
  <2>6. ~ToDo(i, "mark", b, i)'
    BY <1>2, <2>1, <2>2, <2>5 DEF Unmarked
  <2>7. b = s.block
    BY <2>2, <2>4, <2>6, StepTaken, TodoApart
  <2>8. Holds(i, b)
    BY <1>5, <2>1 DEF OwnerInv
  <2>9. QED
    BY <1>2, <2>1, <2>4, <2>7, <2>8
<1>6. QED
  BY <1>3, <1>4, <1>5 DEF Owns

LEMMA HoldsShrink ==
  ASSUME ShapeInv, NEW i \in Worker, WorkOn(i), NEW k \in Worker, NEW b \in Block,
         Holds(k, b), ~Holds(k, b)'
  PROVE  \/ /\ k = i
            /\ \E s \in todo[i], l \in Buffer :
                 FetchedTo(i, s, l) /\ gpu[i][l].block = b /\ s.block # b
         \/ /\ Invalidate(i)
            /\ \E s \in todo[i] : s.what = "invalidate" /\ s.at = k /\ s.block = b /\ Due(i, s)
<1>1. PICK f \in Buffer : Stored(k, b, f)
  BY HoldsStored DEF ShapeInv
<1>2. ~Stored(k, b, f)'
  BY DEF Holds, Stored
<1>3. QED
  BY <1>1, <1>2, StoredShrink

LEMMA OwnerStep ==
  ASSUME GpuInv, NEW i \in Worker, WorkOn(i)
  PROVE  OwnerInv'
<1> USE DEF GpuInv, ShapeInv, DataInv
<1>1. op' = op /\ \A j \in Worker \ {i} : Untouched(j)
  BY Frame
<1>2. ASSUME Fetch(i) \/ Compute(i)
      PROVE  Ready(i) /\ Updating(i) /\ t[i] \in DOMAIN op /\ Outputs(t[i]) \subseteq Blocks(t[i])
  <2>1. Updating(i)
    BY <1>2 DEF Fetch, Compute, Computing, Updating
  <2>2. QED
    BY <2>1, Stages, RunningTask
<1> SUFFICES ASSUME NEW b \in Block, NEW j \in Worker
             PROVE  /\ Owns(j, b)' => \A k \in Worker \ {j} : ~Owns(k, b)' /\ ~Holds(k, b)'
                    /\ victim'[j] = b => ~Holds(j, b)'
                    /\ Unmarked(j, b)' => Holds(j, b)'
  BY DEF OwnerInv
<1>3. ASSUME Owns(j, b)', NEW k \in Worker \ {j}
      PROVE  ~Owns(k, b)' /\ ~Holds(k, b)'
  <2>1. CASE Owns(j, b)
    <3>1. ~Owns(k, b) /\ ~Holds(k, b)
      BY <2>1 DEF OwnerInv
    <3>2. ASSUME k = i, b \in Blocks(t[i]), Ready(i) PROVE FALSE
      BY <2>1, <3>2, NotOwned
    <3>3. ~Owns(k, b)'
      BY <3>1, <3>2, <1>2, OwnsGrow
    <3>4. ~Holds(k, b)'
      BY <3>1, <3>2, <1>2, HoldsGrow
    <3>5. QED
      BY <3>3, <3>4
  <2>2. CASE Compute(i) /\ j = i /\ b \in Outputs(t[i])
    <3>1. k # i /\ b \in Blocks(t[i]) /\ Ready(i) /\ Updating(i)
      BY <1>2, <2>2
    <3>2. ~Owns(k, b)
      BY <3>1, NotOwned
    <3>3. todo[i] = {}
      BY <2>2 DEF Compute, Computing
    <3>4. ~Holds(k, b)
      BY <2>2, <3>1, <3>3 DEF AloneInv, ToDo
    <3>5. QED
      BY <3>1, <3>2, <3>4, OwnsGrow, HoldsGrow
  <2>3. QED
    BY <1>3, <2>1, <2>2, OwnsGrow
<1>4. ASSUME victim'[j] = b PROVE ~Holds(j, b)'
  <2>1. CASE victim[j] = b
    <3>1. ~Holds(j, b)
      BY <2>1 DEF OwnerInv
    <3>2. ~(Fetch(i) /\ j = i)
      BY <2>1, GpuAssumption DEF ControlInv, ControlOf, Fetch
    <3>3. QED
      BY <3>1, <3>2, HoldsGrow
  <2>2. CASE victim[j] # b
    <3>1. j = i /\ victim' # victim
      BY <1>1, <1>4, <2>2 DEF Untouched
    <3>2. CASE Evicted(i)
      BY <1>4, <3>1, <3>2, GpuAssumption DEF Evicted, GpuTypeOK
    <3>3. CASE Fetch(i)
      <4>1. PICK s \in todo[i], l \in Buffer : FetchedTo(i, s, l)
        BY <3>3, FetchEffect
      <4>2. FetchMiss(i, s.block, gpu[i][l])
        BY <3>1, <4>1 DEF FetchedTo, FetchHit
      <4>3. b = gpu[i][l].block
        BY <1>4, <3>1, <4>2 DEF FetchMiss, GpuTypeOK
      <4>4. QED
        BY <3>1, <4>2, <4>3 DEF FetchMiss
    <3>4. QED
      BY <3>1, <3>2, <3>3, VictimChange
  <2>3. QED
    BY <2>1, <2>2
<1>5. ASSUME Unmarked(j, b)' PROVE Holds(j, b)'
  <2>1. CASE Unmarked(j, b)
    <3>1. Holds(j, b) /\ Owns(j, b) /\ place[j] = "mark"
      BY <2>1 DEF OwnerInv, Owns, Unmarked
    <3>2. ASSUME j = i, NEW s \in todo[i] PROVE s.what = "mark"
      BY <3>1, <3>2, MarkSteps DEF TodoInv, TodoOf
    <3>3. ~(j = i /\ \E s \in todo[i], l \in Buffer : FetchedTo(i, s, l))
      BY <3>2 DEF FetchedTo
    <3>4. ASSUME Invalidate(i), NEW s \in todo[i], s.what = "invalidate", s.at = j,
                 s.block = b, Due(i, s)
          PROVE  FALSE
      BY <3>1, <3>2, <3>4, InvalidateClean
    <3>5. QED
      BY <3>1, <3>3, <3>4, HoldsShrink
  <2>2. CASE Compute(i) /\ j = i /\ b \in Outputs(t[i])
    <3>1. gpu' = gpu /\ todo[i] = {}
      BY <2>2 DEF Compute, Computing, cache
    <3>2. Fetched(i, b) /\ Updating(i)
      BY <1>2, <2>2, <3>1 DEF Fetched, ToDo
    <3>3. Stored(i, b, arg[i][b])
      BY <3>2 DEF FetchInv, FetchOf, Fetched
    <3>4. QED
      BY <2>2, <3>1, <3>3 DEF Stored, Holds
  <2>3. QED
    BY <1>5, <2>1, <2>2, UnmarkedGrow
<1>6. QED
  BY <1>3, <1>4, <1>5

LEMMA CheckStep ==
  ASSUME GpuInv, NEW i \in Worker, WorkOn(i)
  PROVE  CheckInv'
<1> USE DEF GpuInv, ShapeInv, TaskInv, DataInv
<1>1. op' = op /\ \A j \in Worker \ {i} : Untouched(j)
  BY Frame
<1> SUFFICES ASSUME NEW j \in Worker, Running(j)', ok'[j], NEW k \in Worker \ {j},
                    NEW b \in Blocks(t[j])', Owns(k, b)'
             PROVE  place'[j] = "check" /\ ToDo(j, "check", b, k)'
  BY DEF CheckInv
<1>2. CASE j # i
  <2>1. Running(j) /\ ok[j] /\ b \in Blocks(t[j])
    BY <1>1, <1>2, StageSame DEF Untouched
  <2>2. b \in Block
    BY <2>1, RunningTask
  <2>3. CASE Owns(k, b)
    <3>1. place[j] = "check" /\ ToDo(j, "check", b, k)
      BY <2>1, <2>3 DEF CheckInv
    <3>2. QED
      BY <1>1, <1>2, <3>1, StageSame DEF Untouched
  <2>4. CASE Compute(i) /\ k = i /\ b \in Outputs(t[i])
    <3>1. Running(i)
      BY <2>4, Stages DEF Compute, Computing, Updating
    <3>2. QED
      BY <1>2, <2>1, <2>4, <3>1, NoConflict
  <2>5. QED
    BY <2>2, <2>3, <2>4, OwnsGrow
<1>3. CASE j = i
  <2>1. ASSUME b \in Block PROVE Owns(k, b)
    BY <1>3, <2>1, OwnsGrow
  <2>2. CASE Dequeue(i) /\ place'[i] = "check"
    <3>1. PICK x \in DOMAIN op : t'[i] = x /\ todo'[i] = CheckPlan(i, x)
      BY <2>2 DEF Dequeue, Enter, GpuTypeOK
    <3>2. b \in Blocks(x)
      <4>1. Blocks(t[i])' = Blocks(x)
        BY <1>1, <3>1 DEF Blocks, Inputs, Outputs
      <4>2. QED
        BY <1>3, <4>1
    <3>3. QED
      BY <1>3, <2>2, <3>1, <3>2, CheckSteps DEF ToDo
  <2>3. CASE Check(i)
    <3>1. t' = t /\ place' = place /\ place[i] = "check" /\ Running(i)
      BY <2>3, Zenon DEF Check, tasks, Running
    <3>2. Blocks(t[i])' = Blocks(t[i])
      BY <1>1, <3>1 DEF Blocks, Inputs, Outputs
    <3>3. b \in Blocks(t[i]) /\ b \in Block
      BY <1>3, <3>1, <3>2, RunningTask
    <3>4. PICK s \in todo[i] :
            IF \/ \E n \in Located(s.at, s.block) : Dirty(gpu[s.at][n])
               \/ victim[s.at] = s.block
            THEN ok' = [ok EXCEPT ![i] = FALSE]
            ELSE Continue(i, s) /\ UNCHANGED ok
      BY <2>3, Zenon DEF Check
    <3>5. /\ Continue(i, s) /\ ok[i] /\ victim[s.at] # s.block
          /\ \A n \in Located(s.at, s.block) : ~Dirty(gpu[s.at][n])
      BY <1>3, <3>4 DEF GpuTypeOK
    <3>6. ToDo(i, "check", b, k)
      BY <1>3, <2>1, <3>1, <3>3, <3>5 DEF CheckInv
    <3>7. CASE s.block = b /\ s.at = k
      <4>1. ~HoldsDirty(k, b) /\ victim[k] # b
        BY <3>3, <3>5, <3>7, GpuAssumption DEF HoldsDirty, Located, Dirty
      <4>2. Unmarked(k, b)
        BY <2>1, <3>3, <4>1 DEF Owns
      <4>3. Running(k) /\ b \in Outputs(t[k])
        <5>1. place[k] = "mark" /\ ToDo(k, "mark", b, k)
          BY <4>2 DEF Unmarked
        <5>2. QED
          BY <5>1, Stages, MarkSteps DEF TodoInv, TodoOf, ToDo
      <4>4. QED
        BY <1>3, <3>1, <3>3, <4>3, NoConflict
    <3>8. CASE ~(s.block = b /\ s.at = k)
      <4>1. ToDo(i, "check", b, k)'
        BY <3>5, <3>6, <3>8, StepTaken, TodoApart
      <4>2. QED
        BY <1>3, <3>1, <4>1
    <3>9. QED
      BY <3>7, <3>8
  <2>4. CASE place'[i] # "check"
    <3>1. t'[i] = t[i] /\ (Ready(i) \/ Verdict(i))
      <4>1. Updating(i)' \/ Clearing(i)' \/ place'[i] = "mark"
        BY <1>3, <2>4 DEF Running, Ready
      <4>2. MarkBlock(i) \/ Compute(i) \/ ComputeOnCpu(i) => Ready(i)
        BY DEF MarkBlock, Compute, ComputeOnCpu, Computing, ComputingOnCpu, Ready, Updating,
               Clearing
      <4>3. QED
        BY <4>1, <4>2, OwnStage, Stages
    <3>2. Running(i)
      BY <3>1, Stages DEF Verdict, Running
    <3>3. b \in Blocks(t[i]) /\ b \in Block
      <4>1. Blocks(t[i])' = Blocks(t[i])
        BY <1>1, <3>1 DEF Blocks, Inputs, Outputs
      <4>2. QED
        BY <1>3, <3>2, <4>1, RunningTask
    <3>4. CASE Ready(i)
      BY <1>3, <2>1, <3>3, <3>4, NotOwned
    <3>5. CASE Verdict(i)
      <4>1. ok[i] /\ todo[i] = {}
        BY <1>3, <3>5 DEF Verdict
      <4>2. QED
        BY <1>3, <2>1, <3>2, <3>3, <4>1 DEF CheckInv, ToDo
    <3>6. QED
      BY <3>1, <3>4, <3>5
  <2>5. QED
    BY <2>2, <2>3, <2>4, OwnStage
<1>4. QED
  BY <1>2, <1>3

LEMMA InvalidateGone ==
  ASSUME ShapeInv, NEW i \in Worker, Invalidate(i), NEW k \in Worker, NEW b \in Block,
         ToDo(i, "invalidate", b, k), ~ToDo(i, "invalidate", b, k)'
  PROVE  ~Holds(k, b)'
<1>1. PICK s \in todo[i] :
        /\ s.what = "invalidate" /\ Continue(i, s) /\ s.at \in Worker
        /\ \A c \in Block : Holds(s.at, c)' <=> Holds(s.at, c) /\ c # s.block
  BY InvalidateEffect DEF ShapeInv
<1>2. s.at = k /\ s.block = b
  BY <1>1, StepTaken, TodoApart DEF ShapeInv
<1>3. PICK m \in Worker : m = s.at
  BY <1>1
<1>4. Holds(m, b)' <=> Holds(m, b) /\ b # s.block
  BY <1>1, <1>3
<1>5. QED
  BY <1>2, <1>3, <1>4

LEMMA AloneStep ==
  ASSUME GpuInv, NEW i \in Worker, WorkOn(i)
  PROVE  AloneInv'
<1> USE DEF GpuInv, ShapeInv, TaskInv, DataInv
<1>1. op' = op /\ \A j \in Worker \ {i} : Untouched(j)
  BY Frame
<1> SUFFICES ASSUME NEW j \in Worker, NEW k \in Worker, (Updating(j)' /\ j # k) \/ Clearing(j)',
                    NEW b \in Outputs(t[j])', Holds(k, b)'
             PROVE  ToDo(j, "invalidate", b, k)'
  BY DEF AloneInv
<1>2. ASSUME Fetch(i)
      PROVE  Updating(i) /\ ~Clearing(i) /\ Running(i)
  BY <1>2, Stages DEF Fetch, Updating
<1>3. CASE j # i
  <2>1. (Updating(j) /\ j # k) \/ Clearing(j)
    BY <1>1, <1>3, StageSame
  <2>2. b \in Outputs(t[j]) /\ b \in Block /\ Running(j)
    BY <1>1, <1>3, <2>1, StageSame, Stages, RunningTask
  <2>3. ~(Fetch(i) /\ k = i /\ b \in Blocks(t[i]))
    BY <1>2, <1>3, <2>2, NoConflict
  <2>4. Holds(k, b)
    BY <2>2, <2>3, HoldsGrow
  <2>5. ToDo(j, "invalidate", b, k)
    BY <2>1, <2>2, <2>4 DEF AloneInv
  <2>6. QED
    BY <1>1, <1>3, <2>5, StageSame
<1>4. CASE j = i
  <2>1. t'[i] = t[i]
    BY <1>4, OwnStage
  <2>2. b \in Outputs(t[i])
    BY <1>1, <1>4, <2>1 DEF Outputs
  <2>3. CASE Verdict(i) /\ todo'[i] = UpdatePlan(i, t[i]) /\ k # i
    BY <1>4, <2>2, <2>3, UpdateSteps DEF ToDo
  <2>4. CASE Verdict(i) /\ todo'[i] = ClearPlan(i, t[i])
    BY <1>4, <2>2, <2>4, ClearSteps DEF ToDo
  <2>5. CASE (Updating(i) /\ i # k) \/ Clearing(i)
    <3>1. b \in Block
      BY <2>2, <2>5, Stages, RunningTask
    <3>2. Holds(k, b)
      BY <1>2, <2>5, <3>1, HoldsGrow
    <3>3. ToDo(i, "invalidate", b, k)
      BY <2>2, <2>5, <3>2 DEF AloneInv
    <3>4. CASE ~ToDo(i, "invalidate", b, k)'
      <4>1. Invalidate(i)
        BY <2>5, <3>3, <3>4, TodoShrink
      <4>2. QED
        BY <3>1, <3>3, <3>4, <4>1, InvalidateGone
    <3>5. QED
      BY <1>4, <3>4
  <2>6. QED
    BY <1>4, <2>3, <2>4, <2>5, OwnStage, Stages
<1>5. QED
  BY <1>3, <1>4

LEMMA ClearStep ==
  ASSUME GpuInv, NEW i \in Worker, WorkOn(i)
  PROVE  ClearInv'
<1> USE DEF GpuInv, ShapeInv, TaskInv, DataInv
<1>1. op' = op /\ \A j \in Worker \ {i} : Untouched(j)
  BY Frame
<1> SUFFICES ASSUME NEW j \in Worker, Clearing(j)', NEW b \in Blocks(t[j])', HoldsDirty(j, b)'
             PROVE  \/ ToDo(j, "flush", b, j)'
                    \/ place'[j] = "flush" /\ b \in Logged(j)'
  BY DEF ClearInv
<1>2. CASE j # i
  <2>1. Clearing(j) /\ b \in Blocks(t[j]) /\ b \in Block
    BY <1>1, <1>2, StageSame, Stages, RunningTask
  <2>2. HoldsDirty(j, b)
    BY <1>2, <2>1, DirtyGrow
  <2>3. ToDo(j, "flush", b, j) \/ (place[j] = "flush" /\ b \in Logged(j))
    BY <2>1, <2>2 DEF ClearInv
  <2>4. QED
    BY <1>1, <1>2, <2>3, StageSame DEF Untouched
<1>3. CASE j = i
  <2>1. t'[i] = t[i]
    BY <1>3, OwnStage
  <2>2. b \in Blocks(t[i])
    <3>1. Blocks(t[i])' = Blocks(t[i])
      BY <1>1, <2>1 DEF Blocks, Inputs, Outputs
    <3>2. QED
      BY <1>3, <3>1
  <2>3. CASE Verdict(i) /\ todo'[i] = ClearPlan(i, t[i])
    BY <1>3, <2>2, <2>3, ClearSteps DEF ToDo
  <2>4. CASE Clearing(i)
    <3>1. b \in Block /\ b # NULL
      BY <2>2, <2>4, Stages, RunningTask, GpuAssumption
    <3>2. HoldsDirty(i, b)
      <4>1. ~MarkBlock(i)
        BY <2>4 DEF MarkBlock, Clearing
      <4>2. QED
        BY <1>3, <3>1, <4>1, DirtyGrow
    <3>3. CASE ToDo(i, "flush", b, i) /\ ~ToDo(i, "flush", b, i)'
      <4>1. PICK s \in todo[i] : s.what = "flush" /\ s.block = b /\ Continue(i, s) /\ FlushBlock(i)
        BY <2>4, <3>3, TodoShrink
      <4>2. PICK r \in todo[i] :
              /\ Continue(i, r)
              /\ LogSlots(i, {n \in Located(i, r.block) : Dirty(gpu[i][n])})
              /\ Enter(i, IF {n \in Located(i, r.block) : Dirty(gpu[i][n])} = {}
                          THEN "clear" ELSE "flush")
        BY <4>1, Zenon DEF FlushBlock
      <4>3. r.block = b
        BY <3>3, <4>2, StepTaken, TodoApart
      <4>4. PICK D : D = {n \in Located(i, b) : Dirty(gpu[i][n])}
        OBVIOUS
      <4>5. PICK n \in D : gpu[i][n].block = b
        BY <3>1, <3>2, <4>4 DEF HoldsDirty, Located, Dirty
      <4>6. gpu_log'[i] = [m \in D |-> gpu[i][m]] /\ place'[i] = "flush"
        BY <4>2, <4>3, <4>4, <4>5 DEF LogSlots, Enter, GpuTypeOK
      <4>7. n \in DOMAIN gpu_log'[i] /\ gpu_log'[i][n].block = b
        BY <4>5, <4>6
      <4>8. QED
        BY <1>3, <4>6, <4>7 DEF Logged
    <3>4. CASE place[i] = "flush" /\ b \in Logged(i)
      <4>1. Read(i) \/ Clean(i)
        BY <3>4, Zenon
        DEF WorkOn, FlushGpu, Dequeue, Check, Verdict, Fetch, Evicted, Invalidate, MarkBlock,
            FlushBlock, ReadVictim, Write, Compute, Computing, ComputeOnCpu, ComputingOnCpu,
            Release, Commit, Destroy
      <4>2. CASE Read(i)
        BY <1>3, <3>4, <4>2 DEF Read, Logged
      <4>3. CASE Clean(i)
        BY <1>3, <3>1, <3>4, <4>3, CleanEffect
      <4>4. QED
        BY <4>1, <4>2, <4>3
    <3>5. QED
      BY <1>3, <2>2, <2>4, <3>2, <3>3, <3>4 DEF ClearInv
  <2>5. QED
    BY <1>3, <2>3, <2>4, OwnStage
<1>4. QED
  BY <1>2, <1>3

(* The last slot does not hold a block fetched for the task, as long as    *)
(* another one is to be fetched.                                           *)
LEMMA LastIsOther ==
  ASSUME ShapeInv, FetchInv, NEW i \in Worker, Updating(i), NEW c \in Blocks(t[i]), ~Holds(i, c),
         NBlocks \in Buffer
  PROVE  ~Fetched(i, gpu[i][NBlocks].block)
<1> SUFFICES ASSUME Fetched(i, gpu[i][NBlocks].block) PROVE FALSE
  OBVIOUS
<1> USE DEF ShapeInv
<1>1. NBlocks \in Nat /\ IsFiniteSet(Buffer) /\ Cardinality(Buffer) = NBlocks
  BY GpuAssumption, FS_Interval DEF Buffer
<1>2. /\ t[i] \in DOMAIN op /\ op[t[i]].gpu /\ Blocks(t[i]) \subseteq Block
  BY Stages, RunningTask DEF ControlInv, ControlOf
<1>3. /\ IsFiniteSet(Blocks(t[i])) /\ Cardinality(Blocks(t[i])) \in Nat
      /\ Cardinality(Blocks(t[i])) <= NBlocks
  BY <1>2, SlotsEnough
<1> DEFINE T == Blocks(t[i]) \ {c}
           F == [n \in Buffer |-> gpu[i][n].block]
<1>4. IsFiniteSet(T) /\ Cardinality(T) = Cardinality(Blocks(t[i])) - 1
  BY <1>3, FS_RemoveElement
<1>5. ASSUME NEW n \in Buffer PROVE F[n] \in T
  <2>1. n = NBlocks \/ n < NBlocks
    BY <1>1 DEF Buffer
  <2>2. Fetched(i, gpu[i][n].block)
    BY <2>1 DEF FetchInv, FetchOf
  <2>3. gpu[i][n].block \in Blocks(t[i])
    BY <2>2 DEF Fetched
  <2>4. QED
    BY <2>3 DEF Holds
<1>6. F \in [Buffer -> T]
  BY <1>5
<1>7. \A n, m \in Buffer : n # m => F[n] # F[m]
  <2>1. ASSUME NEW n \in Buffer, NEW m \in Buffer, n # m PROVE F[n] # F[m]
    <3>1. gpu[i][n].block \in Block
      BY <1>2, <1>5
    <3>2. gpu[i][n].block # gpu[i][m].block
      BY <2>1, <3>1, GpuAssumption DEF SlotInv
    <3>3. QED
      BY <3>2
  <2>2. QED
    BY <2>1
<1> HIDE DEF F, T
<1>8. \E n, m \in Buffer : n # m /\ F[n] = F[m]
  <2>1. Cardinality(T) < Cardinality(Buffer)
    BY <1>1, <1>3, <1>4
  <2>2. QED
    BY <1>1, <1>4, <1>6, <2>1, FS_PigeonHole
<1>9. QED
  BY <1>7, <1>8

(* Without a fetch nothing changes for the blocks fetched.                 *)
LEMMA FetchesKept ==
  ASSUME ShapeInv, NEW i \in Worker, WorkOn(i), Updating(i), Updating(i)', ~Fetch(i)
  PROVE  /\ gpu'[i] = gpu[i] /\ arg' = arg /\ (obj' = obj \/ obj'[i] = NULL)
         /\ \A b : Fetched(i, b)' <=> Fetched(i, b)
<1> USE DEF ShapeInv
<1>1. /\ op' = op /\ t'[i] = t[i]
      /\ Blocks(t[i])' = Blocks(t[i])
  <2>1. op' = op /\ t'[i] = t[i]
    BY Frame, OwnStage
  <2>2. QED
    BY <2>1 DEF Blocks, Inputs, Outputs
<1>2. Invalidate(i) \/ Evicted(i) \/ ReadVictim(i) \/ Write(i)
  <2>1. ~Compute(i)
    BY DEF Compute, Enter, Updating, GpuTypeOK
  <2>2. place[i] \in {"update", "evict", "evicted", "write"}
    BY DEF Updating
  <2>3. QED
    BY <2>1, <2>2, Zenon
    DEF WorkOn, FlushGpu, Dequeue, Check, Verdict, Fetch, MarkBlock, FlushBlock, Clean, Read,
        Compute, Computing, ComputeOnCpu, ComputingOnCpu, Release, Commit, Destroy
<1>3. arg' = arg /\ (obj' = obj \/ obj'[i] = NULL)
  BY <1>2 DEF Invalidate, Evicted, ReadVictim, Write, GpuTypeOK
<1>4. CASE Invalidate(i)
  <2>1. PICK s \in todo[i] : /\ s.what = "invalidate" /\ Continue(i, s)
                             /\ \A k \in Worker \ {s.at} : gpu'[k] = gpu[k]
    BY <1>4, InvalidateEffect
  <2>2. s.at # i
    BY <1>4, <2>1, InvalidateStep, Stages
  <2>3. \A b : ToDo(i, "fetch", b, i)' <=> ToDo(i, "fetch", b, i)
    BY <2>1, StepTaken, TodoApart
  <2>4. QED
    BY <1>1, <1>3, <2>1, <2>2, <2>3 DEF Fetched
<1>5. CASE Evicted(i) \/ ReadVictim(i) \/ Write(i)
  <2>1. todo' = todo /\ gpu' = gpu
    BY <1>5 DEF Evicted, ReadVictim, Write, cache
  <2>2. QED
    BY <1>1, <1>3, <2>1 DEF Fetched, ToDo
<1>6. QED
  BY <1>2, <1>4, <1>5

(* The fetched blocks stay first when another one comes before them.       *)
LEMMA OwnFetch ==
  ASSUME GpuInv, NEW i \in Worker, Fetch(i)
  PROVE  FetchOf(i)'
<1> USE DEF GpuInv, ShapeInv, DataInv
<1>1. PICK s \in todo[i], k \in Buffer : FetchedTo(i, s, k)
  BY FetchEffect
<1>2. PICK b \in Block : b = s.block
  BY <1>1 DEF FetchedTo
<1>3. PICK old \in Slot : old = gpu[i][k]
  BY <1>1 DEF FetchedTo
<1>4. /\ Updating(i) /\ place[i] = "update" /\ WorkOn(i) /\ Running(i)
  BY Stages DEF Fetch, Updating, WorkOn
<1>5. /\ op' = op /\ t' = t /\ Blocks(t[i])' = Blocks(t[i]) /\ Blocks(t[i]) \subseteq Block
  <2>1. op' = op /\ t' = t
    BY Zenon DEF Fetch, tasks
  <2>2. QED
    BY <1>4, <2>1, RunningTask DEF Blocks, Inputs, Outputs
<1>6. /\ s.what = "fetch" /\ s.at = i /\ b \in Blocks(t[i]) /\ Continue(i, s)
      /\ arg' = [arg EXCEPT ![i][b] = old.buf]
      /\ gpu'[i][1].block = b /\ gpu'[i][1].buf = old.buf
      /\ \A n \in Buffer : n # 1 => gpu'[i][n] = IF n <= k THEN gpu[i][n - 1] ELSE gpu[i][n]
      /\ old.block # b => k = NBlocks /\ \A n \in Buffer : gpu[i][n].block # b
      /\ FetchHit(i, b, old) \/ FetchMiss(i, b, old)
  BY <1>1, <1>2, <1>3 DEF FetchedTo
<1>7. 1 \in Buffer /\ NBlocks \in Nat
  BY GpuAssumption DEF Buffer
<1>8. \A c : Fetched(i, c)' <=> Fetched(i, c) \/ c = b
  <2>1. \A c : ToDo(i, "fetch", c, i)' <=> ToDo(i, "fetch", c, i) /\ c # b
    BY <1>2, <1>6, StepTaken, TodoApart
  <2>2. QED
    BY <1>5, <1>6, <2>1 DEF Fetched
<1>9. old.block # b => ~Holds(i, b) /\ ~Fetched(i, old.block)
  <2>1. ASSUME old.block # b PROVE ~Holds(i, b) /\ ~Fetched(i, old.block)
    <3>1. ~Holds(i, b) /\ old = gpu[i][NBlocks] /\ NBlocks \in Buffer
      BY <1>3, <1>6, <2>1 DEF Holds
    <3>2. ~Fetched(i, gpu[i][NBlocks].block)
      BY <1>4, <1>6, <3>1, LastIsOther
    <3>3. QED
      BY <3>1, <3>2
  <2>2. QED
    BY <2>1
<1>10. ASSUME NEW c \in Blocks(t[i])', Fetched(i, c)'
       PROVE  Stored(i, c, arg[i][c])'
  <2>1. c \in Block
    BY <1>5
  <2>2. CASE c = b
    <3>1. arg'[i][c] = old.buf
      BY <1>6, <2>2 DEF GpuTypeOK
    <3>2. QED
      BY <1>6, <1>7, <2>2, <3>1 DEF Stored
  <2>3. CASE c # b
    <3>1. Fetched(i, c) /\ c \in Blocks(t[i])
      BY <1>5, <1>8, <1>10, <2>3
    <3>2. Stored(i, c, arg[i][c])
      BY <1>4, <3>1 DEF FetchInv, FetchOf
    <3>3. arg'[i][c] = arg[i][c]
      BY <1>6, <2>3 DEF GpuTypeOK
    <3>4. PICK f \in Buffer : f = arg[i][c]
      BY <3>2 DEF Stored, GpuTypeOK, Slot
    <3>5. Stored(i, c, f)'
      <4>1. CASE FetchHit(i, b, old)
        BY <2>1, <3>2, <3>4, <4>1 DEF FetchHit, SameSlots
      <4>2. CASE FetchMiss(i, b, old)
        <5>1. c # old.block
          BY <1>9, <3>1, <4>2 DEF FetchMiss
        <5>2. QED
          BY <2>1, <3>2, <3>4, <4>2, <5>1 DEF FetchMiss
      <4>3. QED
        BY <1>6, <4>1, <4>2
    <3>6. arg'[i][c] = f
      BY <3>3, <3>4
    <3>7. QED
      BY <3>5, <3>6 DEF Stored
  <2>4. QED
    BY <2>2, <2>3
<1>11. ASSUME NEW n \in Buffer, NEW m \in Buffer, n < m, Fetched(i, gpu[i][m].block)'
       PROVE  Fetched(i, gpu[i][n].block)'
  <2>1. CASE n = 1
    BY <1>6, <1>8, <2>1
  <2>2. CASE n # 1
    <3> DEFINE From(l) == IF l <= k THEN l - 1 ELSE l
    <3>1. m # 1 /\ From(n) \in Buffer /\ From(m) \in Buffer /\ From(n) < From(m) /\ From(m) # k
      <4>1. n \in 1..NBlocks /\ m \in 1..NBlocks /\ k \in 1..NBlocks /\ NBlocks \in Nat
        BY <1>7 DEF Buffer
      <4>2. n > 1 /\ m > 1 /\ n < m
        BY <1>11, <2>2, <4>1
      <4>3. From(n) \in 1..NBlocks /\ From(m) \in 1..NBlocks
        BY <4>1, <4>2
      <4>4. From(n) < From(m) /\ From(m) # k
        BY <4>1, <4>2
      <4>5. QED
        BY <4>2, <4>3, <4>4 DEF Buffer
    <3>2. gpu'[i][n] = gpu[i][From(n)] /\ gpu'[i][m] = gpu[i][From(m)]
      BY <1>6, <2>2, <3>1
    <3> HIDE DEF From
    <3>3. gpu[i][From(m)].block # b
      BY <1>3, <1>6, <3>1, GpuAssumption DEF SlotInv
    <3>4. PICK d : d = gpu[i][From(m)].block
      OBVIOUS
    <3>5. Fetched(i, d)
      <4>1. Fetched(i, d)'
        BY <1>11, <3>2, <3>4
      <4>2. QED
        BY <1>8, <3>3, <3>4, <4>1
    <3>6. Fetched(i, gpu[i][From(n)].block)
      BY <1>4, <3>1, <3>4, <3>5 DEF FetchInv, FetchOf
    <3>7. PICK e : e = gpu[i][From(n)].block
      OBVIOUS
    <3>8. Fetched(i, e)'
      BY <1>8, <3>6, <3>7
    <3>9. QED
      BY <3>2, <3>7, <3>8
  <2>3. QED
    BY <2>1, <2>2
<1>12. ASSUME obj'[i] # NULL PROVE Fetched(i, obj[i])' /\ ~HoldsDirty(i, obj[i])'
  <2>1. obj[i] = NULL
    BY <1>4 DEF ControlInv, ControlOf
  <2>2. FetchMiss(i, b, old)
    BY <1>6, <1>12, <2>1 DEF FetchHit
  <2>3. obj'[i] = b
    BY <2>2 DEF FetchMiss, GpuTypeOK
  <2>4. ~HoldsDirty(i, b)'
    <3>1. ~HoldsDirty(i, b)
      BY <2>2, HoldsStored DEF FetchMiss
    <3>2. QED
      BY <2>2, <3>1 DEF FetchMiss
  <2>5. Fetched(i, b)'
    BY <1>8
  <2>6. QED
    BY <2>3, <2>4, <2>5
<1>13. QED
  BY <1>10, <1>11, <1>12 DEF FetchOf

LEMMA FreedPlaces ==
  ASSUME GpuTypeOK, NEW j \in Worker, NEW p \in Buffer
  PROVE  /\ \A m \in Buffer : LET e == Freed(gpu[j], p)[m]
                              IN  \/ e.block = NULL
                                  \/ m < p /\ e = gpu[j][m]
                                  \/ m >= p /\ m + 1 \in Buffer /\ e = gpu[j][m + 1]
         /\ \A m \in Buffer : m < p => Freed(gpu[j], p)[m] = gpu[j][m]
<1>1. PICK S \in [Buffer -> Slot] : S = gpu[j]
  BY DEF GpuTypeOK
<1>2. /\ Freed(S, p) \in [Buffer -> Slot]
      /\ NBlocks \in Buffer /\ Freed(S, p)[NBlocks] = Empty(S[p])
      /\ Empty(S[p]).block = NULL /\ Empty(S[p]).clean = TRUE /\ Empty(S[p]).buf = S[p].buf
      /\ \A m \in Buffer : m # NBlocks =>
           IF m < p THEN Freed(S, p)[m] = S[m]
                    ELSE m + 1 \in Buffer /\ Freed(S, p)[m] = S[m + 1]
      /\ \A m \in Buffer : m # p =>
           IF m < p THEN Freed(S, p)[m] = S[m] /\ m # NBlocks
                    ELSE m - 1 \in Buffer /\ m - 1 # NBlocks /\ Freed(S, p)[m - 1] = S[m]
  BY FreedSlots
<1>3. \A m \in Buffer : (m < p => m # NBlocks) /\ (~(m < p) => m >= p)
  BY GpuAssumption DEF Buffer
<1>4. QED
  BY <1>1, <1>2, <1>3

(* A slot that is freed holds none of the fetched blocks.                  *)
LEMMA OtherFetch ==
  ASSUME GpuInv, NEW i \in Worker, WorkOn(i), NEW j \in Worker \ {i}
  PROVE  FetchOf(j)'
<1> USE DEF GpuInv, ShapeInv, TaskInv, DataInv
<1>1. op' = op /\ Untouched(j)
  BY Frame
<1>2. /\ Updating(j)' = Updating(j) /\ Blocks(t[j])' = Blocks(t[j])
      /\ \A b : Fetched(j, b)' = Fetched(j, b)
  BY <1>1, StageSame
<1>3. obj'[j] = obj[j] /\ arg'[j] = arg[j]
  BY <1>1 DEF Untouched
<1>4. ASSUME Updating(j)
      PROVE  Running(j) /\ Blocks(t[j]) \subseteq Block
  BY <1>4, Stages, RunningTask
<1>5. ASSUME Updating(j), Invalidate(i), NEW s \in todo[i], s.what = "invalidate"
      PROVE  s.block \notin Blocks(t[j])
  <2>1. Running(i) /\ s.block \in Outputs(t[i])
    BY <1>5, InvalidateStep, Stages
  <2>2. QED
    BY <1>4, <1>5, <2>1, NoConflict
<1>6. ASSUME Updating(j), NEW b \in Blocks(t[j]), Fetched(j, b)
      PROVE  Stored(j, b, arg[j][b])'
  <2>1. Stored(j, b, arg[j][b])
    BY <1>6 DEF FetchInv, FetchOf
  <2>2. PICK f \in Buffer : f = arg[j][b]
    BY <2>1 DEF Stored, GpuTypeOK, Slot
  <2>3. Stored(j, b, f)'
    BY <1>4, <1>5, <1>6, <2>1, <2>2, StoredShrink
  <2>4. arg'[j][b] = f
    BY <1>3, <2>2
  <2>5. QED
    BY <2>3, <2>4 DEF Stored
<1>7. ASSUME Updating(j), NEW n \in Buffer, NEW m \in Buffer, n < m,
             Fetched(j, gpu[j][m].block)'
      PROVE  Fetched(j, gpu[j][n].block)'
  <2>1. Fetched(j, gpu'[j][m].block)
    <3>1. PICK d : d = gpu'[j][m].block
      OBVIOUS
    <3>2. Fetched(j, d)'
      BY <1>7, <3>1
    <3>3. QED
      BY <1>2, <3>1, <3>2
  <2>2. ASSUME Fetched(j, gpu'[j][n].block) PROVE Fetched(j, gpu[j][n].block)'
    <3>1. PICK d : d = gpu'[j][n].block
      OBVIOUS
    <3>2. Fetched(j, d)'
      BY <1>2, <2>2, <3>1
    <3>3. QED
      BY <3>1, <3>2
  <2>3. CASE \A l \in Buffer : gpu'[j][l].block = gpu[j][l].block
    <3>1. Fetched(j, gpu[j][m].block)
      BY <2>1, <2>3
    <3>2. Fetched(j, gpu[j][n].block)
      BY <1>7, <3>1 DEF FetchInv, FetchOf
    <3>3. QED
      BY <2>2, <2>3, <3>2
  <2>4. ASSUME Invalidate(i), NEW p \in Buffer, gpu'[j] = Freed(gpu[j], p),
               gpu[j][p].block \notin Blocks(t[j])
        PROVE  Fetched(j, gpu'[j][n].block)
    <3>1. PICK S, G : S = gpu[j] /\ G = gpu'[j]
      OBVIOUS
    <3>2. \A l \in Buffer : \/ G[l].block = NULL
                            \/ l < p /\ G[l] = S[l]
                            \/ l >= p /\ l + 1 \in Buffer /\ G[l] = S[l + 1]
      BY <2>4, <3>1, FreedPlaces
    <3>3. ASSUME NEW l \in Buffer, p < l PROVE ~Fetched(j, S[l].block)
      <4>1. ~Fetched(j, S[p].block)
        BY <2>4, <3>1 DEF Fetched
      <4>2. FetchOf(j) /\ Updating(j)
        BY <1>7 DEF FetchInv
      <4>3. Fetched(j, gpu[j][l].block) => Fetched(j, gpu[j][p].block)
        BY <3>3, <4>2 DEF FetchOf
      <4>4. QED
        BY <3>1, <4>1, <4>3
    <3>4. \A c : Fetched(j, c) => c # NULL
      BY <1>4, <1>7, GpuAssumption DEF Fetched
    <3>5. Fetched(j, G[m].block)
      BY <2>1, <3>1
    <3>6. m < p /\ G[m] = S[m]
      <4>1. ASSUME m >= p, m + 1 \in Buffer, G[m] = S[m + 1] PROVE FALSE
        <5>1. p < m + 1
          BY <4>1 DEF Buffer
        <5>2. ~Fetched(j, S[m + 1].block)
          BY <3>3, <4>1, <5>1
        <5>3. QED
          BY <3>5, <4>1, <5>2
      <4>2. G[m].block # NULL
        BY <3>4, <3>5
      <4>3. QED
        BY <3>2, <4>1, <4>2
    <3>7. n < p
      BY <1>7, <3>6 DEF Buffer
    <3>8. G[n] = S[n]
      BY <2>4, <3>1, <3>7, FreedPlaces
    <3>9. Fetched(j, S[n].block)
      BY <1>7, <3>1, <3>5, <3>6 DEF FetchInv, FetchOf
    <3>10. QED
      BY <3>1, <3>8, <3>9
  <2>5. CASE Invalidate(i) /\ gpu'[j] # gpu[j]
    <3>1. PICK s \in todo[i] :
            /\ s.what = "invalidate" /\ s.at \in Worker
            /\ \A k \in Worker \ {s.at} : gpu'[k] = gpu[k]
            /\ \/ gpu' = gpu
               \/ \E p \in Buffer : /\ gpu[s.at][p].block = s.block
                                    /\ gpu'[s.at] = Freed(gpu[s.at], p)
      BY <2>5, InvalidateEffect
    <3>2. s.at = j
      BY <2>5, <3>1
    <3>3. PICK p \in Buffer : gpu[j][p].block = s.block /\ gpu'[j] = Freed(gpu[j], p)
      BY <2>5, <3>1, <3>2
    <3>4. QED
      BY <1>5, <1>7, <2>2, <2>4, <2>5, <3>1, <3>3
  <2>6. CASE Check(i)
    <3>1. \A l \in Buffer : gpu'[j][l].block = gpu[j][l].block
      BY <2>6, CheckEffect
    <3>2. QED
      BY <2>3, <3>1
  <2>7. CASE gpu'[j] = gpu[j]
    BY <2>3, <2>7
  <2>8. Invalidate(i) \/ Check(i) \/ gpu'[j] = gpu[j]
    <3>1. Fetch(i) \/ MarkBlock(i) \/ Clean(i) => gpu'[j] = gpu[j]
      BY FetchEffect, MarkEffect, CleanEffect
    <3>2. Invalidate(i) \/ Check(i) \/ Fetch(i) \/ MarkBlock(i) \/ Clean(i) \/ gpu' = gpu
      BY Zenon DEF WorkOn, FlushGpu, Dequeue, Verdict, Evicted, FlushBlock, Read, ReadVictim, Write,
                   Compute, ComputeOnCpu, Release, Commit, Destroy, cache
    <3>3. QED
      BY <3>1, <3>2
  <2>9. QED
    BY <2>5, <2>6, <2>7, <2>8
<1>8. ASSUME obj[j] # NULL
      PROVE  Fetched(j, obj[j]) /\ ~HoldsDirty(j, obj[j])'
  <2>1. PICK b \in Block : b = obj[j]
    BY <1>8 DEF GpuTypeOK
  <2>2. Fetched(j, b) /\ ~HoldsDirty(j, b)
    BY <1>8, <2>1 DEF FetchInv, FetchOf
  <2>3. ~HoldsDirty(j, b)'
    BY <2>2, DirtyGrow
  <2>4. obj'[j] = b
    BY <1>3, <2>1
  <2>5. HoldsDirty(j, b)' <=> HoldsDirty(j, obj[j])'
    BY <2>4 DEF HoldsDirty
  <2>6. QED
    BY <2>1, <2>2, <2>3, <2>5
<1>9. ASSUME NEW b \in Blocks(t[j])', Updating(j)', Fetched(j, b)'
      PROVE  Stored(j, b, arg[j][b])'
  BY <1>2, <1>6, <1>9
<1>10. obj'[j] # NULL => Fetched(j, obj[j])' /\ ~HoldsDirty(j, obj[j])'
  <2>1. PICK b : b = obj[j] /\ b = obj'[j]
    BY <1>3
  <2>2. Fetched(j, b)' <=> Fetched(j, obj[j])'
    BY <2>1 DEF Fetched
  <2>3. QED
    BY <1>2, <1>8, <2>1, <2>2
<1>11. QED
  BY <1>2, <1>7, <1>9, <1>10 DEF FetchOf

LEMMA FetchStep ==
  ASSUME GpuInv, NEW i \in Worker, WorkOn(i)
  PROVE  FetchInv'
<1> USE DEF GpuInv, ShapeInv, TaskInv, DataInv
<1>1. FetchOf(i)'
  <2>1. CASE Fetch(i)
    BY <2>1, OwnFetch
  <2>2. CASE Updating(i)' /\ Updating(i) /\ ~Fetch(i)
    <3>1. /\ gpu'[i] = gpu[i] /\ arg' = arg /\ (obj' = obj \/ obj'[i] = NULL)
          /\ \A b : Fetched(i, b)' <=> Fetched(i, b)
      BY <2>2, FetchesKept
    <3>2. op' = op /\ t'[i] = t[i]
      BY <2>2, Frame, OwnStage
    <3>3. Blocks(t[i])' = Blocks(t[i])
      BY <3>2 DEF Blocks, Inputs, Outputs
    <3>4. ASSUME NEW b \in Blocks(t[i]), Fetched(i, b)
          PROVE  Stored(i, b, arg[i][b])'
      <4>1. Stored(i, b, arg[i][b])
        BY <2>2, <3>4 DEF FetchInv, FetchOf
      <4>2. QED
        BY <3>1, <4>1 DEF Stored
    <3>5. ASSUME NEW n \in Buffer, NEW m \in Buffer, n < m, Fetched(i, gpu[i][m].block)'
          PROVE  Fetched(i, gpu[i][n].block)'
      <4>1. PICK d : d = gpu[i][m].block /\ d = gpu'[i][m].block
        BY <3>1
      <4>2. Fetched(i, d)'
        BY <3>5, <4>1
      <4>3. PICK e : e = gpu[i][n].block /\ e = gpu'[i][n].block
        BY <3>1
      <4>4. Fetched(i, e)
        BY <2>2, <3>1, <3>5, <4>1, <4>2, <4>3 DEF FetchInv, FetchOf
      <4>5. Fetched(i, e)'
        BY <3>1, <4>4
      <4>6. QED
        BY <4>3, <4>5
    <3>6. ASSUME obj'[i] # NULL PROVE Fetched(i, obj[i])' /\ ~HoldsDirty(i, obj[i])'
      <4>1. PICK b : b = obj[i] /\ b = obj'[i] /\ b # NULL
        BY <3>1, <3>6
      <4>2. Fetched(i, b) /\ ~HoldsDirty(i, b)
        BY <4>1 DEF FetchInv, FetchOf
      <4>3. Fetched(i, b)' /\ ~HoldsDirty(i, b)'
        BY <3>1, <4>2 DEF HoldsDirty
      <4>4. QED
        BY <4>1, <4>3
    <3>7. QED
      BY <3>1, <3>3, <3>4, <3>5, <3>6 DEF FetchOf
  <2>3. CASE Verdict(i) /\ todo'[i] = UpdatePlan(i, t[i])
    <3>1. obj'[i] = NULL
      BY <2>3 DEF Verdict, ControlInv, ControlOf
    <3>2. t'[i] = t[i] \/ ~Updating(i)'
      BY OwnStage
    <3>3. ASSUME t'[i] = t[i] PROVE \A b : ~Fetched(i, b)'
      <4>1. op' = op
        BY Frame
      <4>2. Blocks(t[i])' = Blocks(t[i])
        BY <3>3, <4>1 DEF Blocks, Inputs, Outputs
      <4>3. \A b \in Blocks(t[i]) : ToDo(i, "fetch", b, i)'
        BY <2>3, UpdateSteps DEF ToDo
      <4>4. QED
        BY <4>2, <4>3 DEF Fetched
    <3>4. QED
      BY <3>1, <3>2, <3>3 DEF FetchOf
  <2>4. CASE ~Updating(i)'
    <3>1. ControlOf(i)'
      BY ControlStep DEF ControlInv
    <3>2. obj'[i] = NULL
      BY <2>4, <3>1 DEF ControlOf, Updating
    <3>3. QED
      BY <2>4, <3>2 DEF FetchOf
  <2>5. QED
    BY <2>1, <2>2, <2>3, <2>4, OwnStage
<1>2. \A j \in Worker \ {i} : FetchOf(j)'
  BY OtherFetch
<1>3. \A j \in Worker : FetchOf(j)'
  BY <1>1, <1>2
<1>4. QED
  BY <1>3 DEF FetchInv

(* While another thread has a block, nobody writes it in main memory.      *)
LEMMA LoggedBlock ==
  ASSUME GpuInv, NEW i \in Worker, place[i] \in {"flush", "exit"}, NEW n \in DOMAIN gpu_log[i]
  PROVE  /\ gpu_log[i][n].block \in Block /\ gpu_log[i][n].buf \in Buffer
         /\ HoldsDirty(i, gpu_log[i][n].block) /\ Owns(i, gpu_log[i][n].block)
         /\ Stored(i, gpu_log[i][n].block, gpu_log[i][n].buf)
         /\ n \in reads[i] \/ main[gpu_log[i][n].block] = Current(gpu_log[i][n].block)
         /\ device[i][gpu_log[i][n].buf] = Current(gpu_log[i][n].block)
<1> USE DEF GpuInv, ShapeInv, DataInv
<1>1. PICK b, f : b = gpu_log[i][n].block /\ f = gpu_log[i][n].buf
  OBVIOUS
<1>2. /\ b \in Block /\ Stored(i, b, f) /\ HoldsDirty(i, b)
      /\ n \in reads[i] \/ main[b] = Current(b)
  BY <1>1 DEF LogInv, LogOf, LogAt
<1>3. f \in Buffer
  BY <1>2 DEF Stored, GpuTypeOK, Slot
<1>4. obj[i] # b
  BY <1>2, GpuAssumption DEF ControlInv, ControlOf
<1>5. device[i][f] = Current(b)
  BY <1>2, <1>3, <1>4 DEF CopyInv
<1>6. QED
  BY <1>1, <1>2, <1>3, <1>5 DEF Owns

LEMMA WrittenBlock ==
  ASSUME ShapeInv, NEW i \in Worker, WorkOn(i), NEW b \in Block,
         b \notin Outputs(t[i]) \/ ~(Compute(i) \/ ComputeOnCpu(i))
  PROVE  written'[b] = written[b] /\ Current(b)' = Current(b)
<1>1. CASE Compute(i) \/ ComputeOnCpu(i)
  <2>1. Overwrite(t[i])
    BY <1>1, Zenon DEF Compute, ComputeOnCpu
  <2>2. QED
    BY <1>1, <2>1 DEF Overwrite, Current
<1>2. CASE ~(Compute(i) \/ ComputeOnCpu(i))
  BY <1>2, MemoryChange DEF Current
<1>3. QED
  BY <1>1, <1>2

LEMMA MainBlock ==
  ASSUME GpuInv, NEW i \in Worker, WorkOn(i), NEW b \in Block, NEW j \in Worker, j # i, Owns(j, b)
  PROVE  main'[b] = main[b] /\ Current(b)' = Current(b)
<1> USE DEF GpuInv, ShapeInv, DataInv
<1>1. ASSUME Ready(i), b \in Outputs(t[i]) PROVE FALSE
  BY <1>1, NotOwned, BlocksSame, Stages, RunningTask
<1>2. ComputeOnCpu(i) \/ Compute(i) => Ready(i)
  BY Stages DEF ComputeOnCpu, Compute, Computing, ComputingOnCpu, Updating, Clearing
<1>3. Current(b)' = Current(b)
  BY <1>1, <1>2, WrittenBlock
<1>4. CASE Read(i)
  <2>1. PICK n \in reads[i] :
          main' = [main EXCEPT ![gpu_log[i][n].block] = device[i][gpu_log[i][n].buf]]
    BY <1>4, Zenon DEF Read
  <2>2. n \in DOMAIN gpu_log[i] /\ place[i] \in {"flush", "exit"}
    BY <1>4 DEF Read, ControlInv, ControlOf
  <2>3. Owns(i, gpu_log[i][n].block)
    BY <2>2, LoggedBlock
  <2>4. gpu_log[i][n].block # b
    BY <2>3 DEF OwnerInv
  <2>5. QED
    BY <1>3, <2>1, <2>4 DEF GpuTypeOK
<1>5. CASE ReadVictim(i)
  <2>1. Owns(i, victim[i])
    BY DEF Owns
  <2>2. victim[i] # b
    BY <2>1 DEF OwnerInv
  <2>3. QED
    BY <1>3, <1>5, <2>2 DEF ReadVictim, GpuTypeOK
<1>6. CASE ComputeOnCpu(i)
  <2>1. main'[b] = IF b \in Outputs(t[i]) THEN <<b, written[b] + 1>> ELSE main[b]
    BY <1>6, Zenon DEF ComputeOnCpu
  <2>2. QED
    BY <1>1, <1>2, <1>3, <1>6, <2>1
<1>7. CASE ~Read(i) /\ ~ReadVictim(i) /\ ~ComputeOnCpu(i)
  BY <1>3, <1>7, MemoryChange
<1>8. QED
  BY <1>4, <1>5, <1>6, <1>7

(* The slots logged are dirty and still to be read.                        *)
LEMMA SlotsLogged ==
  ASSUME GpuTypeOK, NEW i \in Worker, NEW S \in SUBSET Buffer, LogSlots(i, S), gpu' = gpu,
         \A n \in S : Dirty(gpu[i][n])
  PROVE  /\ \A n \in DOMAIN gpu_log'[i] :
              /\ gpu_log'[i][n].block \in Block /\ n \in reads'[i]
              /\ Stored(i, gpu_log[i][n].block, gpu_log[i][n].buf)'
              /\ HoldsDirty(i, gpu_log[i][n].block)'
         /\ \A n \in S : gpu[i][n].block \in Logged(i)'
<1>1. gpu_log'[i] = [n \in S |-> gpu[i][n]] /\ reads'[i] = S
  BY DEF LogSlots, GpuTypeOK
<1>2. ASSUME NEW n \in S
      PROVE  /\ gpu_log'[i][n].block \in Block /\ n \in reads'[i]
             /\ Stored(i, gpu_log[i][n].block, gpu_log[i][n].buf)'
             /\ HoldsDirty(i, gpu_log[i][n].block)'
  <2>1. PICK e \in Slot : e = gpu[i][n] /\ e = gpu_log'[i][n] /\ e = gpu'[i][n]
    BY <1>1 DEF GpuTypeOK
  <2>2. e.block \in Block /\ ~e.clean
    BY <2>1 DEF Dirty, Slot
  <2>3. Stored(i, e.block, e.buf)' /\ HoldsDirty(i, e.block)'
    BY <2>1, <2>2 DEF Stored, HoldsDirty
  <2>4. QED
    BY <1>1, <2>1, <2>2, <2>3 DEF Stored, HoldsDirty
<1>3. \A n \in S : gpu[i][n].block \in Logged(i)'
  BY <1>1 DEF Logged
<1>4. QED
  BY <1>1, <1>2, <1>3

LEMMA LogStep ==
  ASSUME GpuInv, NEW i \in Worker, WorkOn(i)
  PROVE  LogInv'
<1> USE DEF GpuInv, ShapeInv, DataInv
<1>1. op' = op /\ \A j \in Worker \ {i} : Untouched(j)
  BY Frame
<1>2. ASSUME NEW j \in Worker, j # i
      PROVE  LogOf(j)'
  <2>1. Untouched(j) /\ Logged(j)' = Logged(j)
    BY <1>1, <1>2, StageSame
  <2>2. place'[j] = place[j] /\ gpu_log'[j] = gpu_log[j] /\ reads'[j] = reads[j]
    BY <2>1 DEF Untouched
  <2>3. ASSUME place[j] \in {"flush", "exit"}, NEW n \in DOMAIN gpu_log[j]
        PROVE  LogAt(j, n)'
    <3>1. PICK b, f : b = gpu_log[j][n].block /\ f = gpu_log[j][n].buf
      OBVIOUS
    <3>2. /\ b \in Block /\ f \in Buffer /\ HoldsDirty(j, b) /\ Owns(j, b) /\ Stored(j, b, f)
          /\ n \in reads[j] \/ main[b] = Current(b)
      BY <2>3, <3>1, LoggedBlock
    <3>3. HoldsDirty(j, b)'
      BY <1>2, <3>2, DirtyShrink, InvalidateClean
    <3>4. Stored(j, b, f)'
      BY <1>2, <3>2, StoredShrink, InvalidateClean
    <3>5. main'[b] = main[b] /\ Current(b)' = Current(b)
      BY <1>2, <3>2, MainBlock
    <3>6. n \in reads[j] \/ (main[b] = Current(b))'
      BY <3>2, <3>5
    <3>7. gpu_log'[j][n].block = b /\ gpu_log'[j][n].buf = f /\ reads'[j] = reads[j]
      BY <2>2, <3>1
    <3>8. QED
      BY <3>2, <3>3, <3>4, <3>6, <3>7 DEF LogAt
  <2>4. ASSUME place[j] = "exit", NEW b \in Block, HoldsDirty(j, b)'
        PROVE  b \in Logged(j)
    <3>1. HoldsDirty(j, b)
      BY <1>2, <2>4, DirtyGrow
    <3>2. QED
      BY <2>4, <3>1 DEF LogInv, LogOf
  <2>5. place'[j] \in {"flush", "exit"} => \A n \in DOMAIN gpu_log'[j] : LogAt(j, n)'
    BY <2>2, <2>3
  <2>6. place'[j] = "exit" => \A b \in Block : HoldsDirty(j, b)' => b \in Logged(j)'
    BY <2>1, <2>2, <2>4
  <2>7. QED
    BY <2>5, <2>6 DEF LogOf
<1>3. ASSUME NEW S \in SUBSET Buffer, LogSlots(i, S), gpu' = gpu, \A n \in S : Dirty(gpu[i][n]),
             place'[i] = "exit" => S = {n \in Buffer : Dirty(gpu[i][n])}
      PROVE  LogOf(i)'
  <2>1. /\ \A n \in DOMAIN gpu_log'[i] :
             /\ gpu_log'[i][n].block \in Block /\ n \in reads'[i]
             /\ Stored(i, gpu_log[i][n].block, gpu_log[i][n].buf)'
             /\ HoldsDirty(i, gpu_log[i][n].block)'
        /\ \A n \in S : gpu[i][n].block \in Logged(i)'
    BY <1>3, SlotsLogged
  <2>2. ASSUME place'[i] = "exit", NEW b \in Block, HoldsDirty(i, b)'
        PROVE  b \in Logged(i)'
    <3>1. PICK n \in Buffer : gpu[i][n].block = b /\ ~gpu[i][n].clean
      BY <1>3, <2>2 DEF HoldsDirty
    <3>2. n \in S
      BY <1>3, <2>2, <3>1, GpuAssumption DEF Dirty
    <3>3. QED
      BY <2>1, <3>1, <3>2
  <2>3. \A n \in DOMAIN gpu_log'[i] : LogAt(i, n)'
    BY <2>1 DEF LogAt
  <2>4. QED
    BY <2>2, <2>3 DEF LogOf
<1>4. ASSUME FlushGpu(i) PROVE LogOf(i)'
  <2>1. PICK S \in SUBSET Buffer : S = {n \in Buffer : Requested(gpu[i][n])}
    OBVIOUS
  <2>2. LogSlots(i, S) /\ gpu' = gpu
    BY <1>4, <2>1, Zenon DEF FlushGpu, cache
  <2>3. place'[i] # "exit"
    BY <1>4 DEF FlushGpu, Enter, GpuTypeOK
  <2>4. \A n \in S : Dirty(gpu[i][n])
    BY <2>1 DEF Requested
  <2>5. QED
    BY <1>3, <2>2, <2>3, <2>4
<1>5. ASSUME FlushBlock(i) PROVE LogOf(i)'
  <2>1. PICK s \in todo[i] : LogSlots(i, {n \in Located(i, s.block) : Dirty(gpu[i][n])})
    BY <1>5, Zenon DEF FlushBlock
  <2>2. PICK S \in SUBSET Buffer : S = {n \in Located(i, s.block) : Dirty(gpu[i][n])}
    BY DEF Located
  <2>3. place'[i] # "exit" /\ gpu' = gpu /\ LogSlots(i, S)
    BY <1>5, <2>1, <2>2 DEF FlushBlock, Enter, GpuTypeOK, cache
  <2>4. \A n \in S : Dirty(gpu[i][n])
    BY <2>2
  <2>5. QED
    BY <1>3, <2>3, <2>4
<1>6. ASSUME Destroy(i) PROVE LogOf(i)'
  <2>1. PICK S \in SUBSET Buffer : S = {n \in Buffer : Dirty(gpu[i][n])}
    OBVIOUS
  <2>2. LogSlots(i, S) /\ gpu' = gpu
    BY <1>6, <2>1, Zenon DEF Destroy, cache
  <2>3. \A n \in S : Dirty(gpu[i][n])
    BY <2>1
  <2>4. QED
    BY <1>3, <2>1, <2>2, <2>3
<1>7. ASSUME Read(i) PROVE LogOf(i)'
  <2>1. PICK l \in reads[i] :
          /\ main' = [main EXCEPT ![gpu_log[i][l].block] = device[i][gpu_log[i][l].buf]]
          /\ reads' = [reads EXCEPT ![i] = @ \ {l}]
    BY <1>7, Zenon DEF Read
  <2>2. /\ gpu' = gpu /\ gpu_log' = gpu_log /\ place' = place /\ written' = written
        /\ place[i] \in {"flush", "exit"} /\ l \in DOMAIN gpu_log[i]
        /\ reads'[i] = reads[i] \ {l}
    BY <1>7, <2>1 DEF Read, cache, ControlInv, ControlOf, GpuTypeOK
  <2>3. PICK c \in Block : c = gpu_log[i][l].block /\ device[i][gpu_log[i][l].buf] = Current(c)
    BY <2>2, LoggedBlock
  <2>4. \A b \in Block : main'[b] = IF b = c THEN Current(c) ELSE main[b]
    BY <2>1, <2>3 DEF GpuTypeOK
  <2>5. \A b : Current(b)' = Current(b)
    BY <2>2 DEF Current
  <2>6. ASSUME NEW n \in DOMAIN gpu_log[i]
        PROVE  LogAt(i, n)'
    <3>1. PICK b, f : b = gpu_log[i][n].block /\ f = gpu_log[i][n].buf
      OBVIOUS
    <3>2. /\ b \in Block /\ HoldsDirty(i, b) /\ Stored(i, b, f)
          /\ n \in reads[i] \/ main[b] = Current(b)
      BY <2>2, <3>1, LoggedBlock
    <3>3. Stored(i, b, f)' /\ HoldsDirty(i, b)'
      BY <2>2, <3>2 DEF Stored, HoldsDirty
    <3>4. n \in reads'[i] \/ (main[b] = Current(b))'
      BY <2>2, <2>3, <2>4, <2>5, <3>1, <3>2
    <3>5. gpu_log'[i][n].block = b /\ gpu_log'[i][n].buf = f
      BY <2>2, <3>1
    <3>6. QED
      BY <3>1, <3>2, <3>3, <3>4, <3>5 DEF LogAt
  <2>7. \A n \in DOMAIN gpu_log'[i] : LogAt(i, n)'
    BY <2>2, <2>6
  <2>8. place[i] = "exit" => \A b \in Block : HoldsDirty(i, b)' => b \in Logged(i)'
    BY <2>2 DEF LogInv, LogOf, HoldsDirty, Logged
  <2>9. QED
    BY <2>2, <2>7, <2>8 DEF LogOf
<1>8. ASSUME ~FlushGpu(i) /\ ~FlushBlock(i) /\ ~Destroy(i) /\ ~Read(i) PROVE LogOf(i)'
  <2>1. place'[i] \notin {"flush", "exit"}
    <3>1. CASE Clean(i)
      <4>1. Enter(i, IF t[i] = 0 THEN "dequeue" ELSE "clear")
        BY <3>1, Zenon DEF Clean
      <4>2. QED
        BY <4>1 DEF Enter, GpuTypeOK
    <3>2. CASE Check(i) \/ Invalidate(i) \/ MarkBlock(i)
      <4>1. place' = place /\ place[i] \in {"check", "update", "clear", "mark"}
        BY <3>2, Zenon DEF Check, Invalidate, MarkBlock
      <4>2. QED
        BY <4>1
    <3>3. CASE Fetch(i)
      <4>1. PICK s \in todo[i], k \in Buffer : FetchedTo(i, s, k)
        BY <3>3, FetchEffect
      <4>2. QED
        BY <4>1 DEF FetchedTo, FetchHit, FetchMiss, Enter, GpuTypeOK
    <3>4. CASE Dequeue(i) \/ Verdict(i) \/ Evicted(i) \/ ReadVictim(i) \/ Write(i)
      BY <3>4 DEF Dequeue, Verdict, Evicted, ReadVictim, Write, Enter, GpuTypeOK
    <3>5. CASE Compute(i) \/ ComputeOnCpu(i)
      <4>1. Enter(i, "mark")
        BY <3>5, Zenon DEF Compute, ComputeOnCpu
      <4>2. QED
        BY <4>1 DEF Enter, GpuTypeOK
    <3>6. CASE Release(i) \/ Commit(i)
      BY <3>6 DEF Release, Commit, Enter, GpuTypeOK
    <3>7. QED
      BY <1>8, <3>1, <3>2, <3>3, <3>4, <3>5, <3>6 DEF WorkOn
  <2>2. QED
    BY <2>1 DEF LogOf
<1>9. LogOf(i)'
  BY <1>4, <1>5, <1>6, <1>7, <1>8
<1>10. \A j \in Worker : LogOf(j)'
  BY <1>2, <1>9
<1>11. QED
  BY <1>10 DEF LogInv

LEMMA StoredGrow ==
  ASSUME ShapeInv, NEW i \in Worker, WorkOn(i), NEW k \in Worker, NEW b \in Block, NEW f \in Buffer,
         Stored(k, b, f)', ~(Fetch(i) /\ k = i)
  PROVE  Stored(k, b, f)
<1> USE DEF ShapeInv
<1>1. CASE Fetch(i)
  BY <1>1, FetchEffect, SlotsUnchanged DEF SameSlots
<1>2. CASE Invalidate(i)
  <2>1. PICK s \in todo[i] :
          /\ s.at \in Worker
          /\ \A j \in Worker \ {s.at} : gpu'[j] = gpu[j]
          /\ \A c \in Block : \A g \in Buffer :
               Stored(s.at, c, g)' <=> Stored(s.at, c, g) /\ c # s.block
    BY <1>2, InvalidateEffect
  <2>2. CASE k # s.at
    <3>1. SameSlots(k)
      BY <2>1, <2>2, SlotsUnchanged
    <3>2. QED
      BY <3>1 DEF SameSlots
  <2>3. CASE k = s.at
    <3>1. PICK m \in Worker : m = s.at
      BY <2>1
    <3>2. Stored(m, b, f)' => Stored(m, b, f)
      BY <2>1, <3>1
    <3>3. QED
      BY <2>3, <3>1, <3>2
  <2>4. QED
    BY <2>2, <2>3
<1>3. CASE MarkBlock(i) \/ Clean(i)
  <2>1. /\ \A j \in Worker \ {i} : gpu'[j] = gpu[j]
        /\ Stored(i, b, f)' <=> Stored(i, b, f)
    BY <1>3, MarkEffect, CleanEffect
  <2>2. CASE k # i
    <3>1. SameSlots(k)
      BY <2>1, <2>2, SlotsUnchanged
    <3>2. QED
      BY <3>1 DEF SameSlots
  <2>3. QED
    BY <2>1, <2>2
<1>4. CASE ~Fetch(i) /\ ~Invalidate(i) /\ ~MarkBlock(i) /\ ~Clean(i)
  BY <1>4, SlotsChange DEF SameSlots
<1>5. QED
  BY <1>1, <1>2, <1>3, <1>4

LEMMA SlotUnique ==
  ASSUME SlotInv, NEW k \in Worker, NEW b \in Block, NEW c, NEW f, NEW g,
         Stored(k, b, f), Stored(k, c, g)
  PROVE  b = c <=> f = g
<1>1. PICK n \in Buffer : gpu[k][n].block = b /\ gpu[k][n].buf = f
  BY DEF Stored
<1>2. PICK m \in Buffer : gpu[k][m].block = c /\ gpu[k][m].buf = g
  BY DEF Stored
<1>3. b # NULL
  BY GpuAssumption
<1>4. QED
  BY <1>1, <1>2, <1>3 DEF SlotInv

LEMMA ObjChange ==
  ASSUME NEW i \in Worker, WorkOn(i), ~Fetch(i), ~Write(i)
  PROVE  obj' = obj
BY Zenon DEF WorkOn, FlushGpu, Dequeue, Check, Verdict, Evicted, Invalidate, MarkBlock,
             FlushBlock, Clean, Read, ReadVictim, Compute, ComputeOnCpu, Release, Commit, Destroy

(* A thread that computes has fetched all blocks, and the others have no   *)
(* copy of what it writes.                                                 *)
LEMMA ComputeAlone ==
  ASSUME GpuInv, NEW i \in Worker, Compute(i) \/ ComputeOnCpu(i), NEW b \in Outputs(t[i]),
         NEW k \in Worker, k # i \/ ComputeOnCpu(i)
  PROVE  ~Holds(k, b)
<1>1. todo[i] = {} /\ ((Updating(i) /\ i # k) \/ Clearing(i))
  BY DEF Compute, ComputeOnCpu, Computing, ComputingOnCpu, Updating, Clearing
<1>2. QED
  BY <1>1 DEF GpuInv, DataInv, AloneInv, ToDo

LEMMA ComputeFetched ==
  ASSUME GpuInv, NEW i \in Worker, Computing(i)
  PROVE  /\ Updating(i) /\ Ready(i) /\ Running(i) /\ obj[i] = NULL
         /\ \A b \in Blocks(t[i]) : b \in Block /\ Stored(i, b, arg[i][b])
<1>1. Updating(i) /\ Ready(i) /\ Running(i) /\ todo[i] = {}
  BY Stages DEF Computing, Updating
<1>2. \A b \in Blocks(t[i]) : Fetched(i, b)
  BY <1>1 DEF Fetched, ToDo
<1>3. obj[i] = NULL
  BY DEF Computing, GpuInv, ShapeInv, ControlInv, ControlOf
<1>4. QED
  BY <1>1, <1>2, <1>3, RunningTask DEF GpuInv, ShapeInv, DataInv, FetchInv, FetchOf

LEMMA WriteCurrent ==
  ASSUME GpuInv, NEW i \in Worker, place[i] = "write"
  PROVE  /\ obj[i] \in Block /\ obj[i] \in Blocks(t[i])
         /\ Stored(i, obj[i], arg[i][obj[i]])
         /\ main[obj[i]] = Current(obj[i])
<1> USE DEF GpuInv, ShapeInv, DataInv
<1>1. Updating(i) /\ Ready(i) /\ obj[i] # NULL /\ victim[i] = NULL
  BY Stages DEF Updating, ControlInv, ControlOf
<1>2. PICK b \in Block : b = obj[i]
  BY <1>1 DEF GpuTypeOK
<1>3. Fetched(i, b) /\ ~HoldsDirty(i, b) /\ b \in Blocks(t[i])
  BY <1>1, <1>2 DEF FetchInv, FetchOf, Fetched
<1>4. Stored(i, b, arg[i][b])
  BY <1>1, <1>3 DEF FetchInv, FetchOf
<1>5. ~Owns(i, b)
  BY <1>1, <1>3, GpuAssumption DEF Owns, Unmarked
<1>6. \A k \in Worker : ~Owns(k, b)
  BY <1>1, <1>3, <1>5, NotOwned
<1>7. main[b] = Current(b)
  BY <1>6 DEF MainInv
<1>8. QED
  BY <1>2, <1>3, <1>4, <1>7

LEMMA CopyStep ==
  ASSUME GpuInv, NEW i \in Worker, WorkOn(i)
  PROVE  CopyInv'
<1> USE DEF GpuInv, ShapeInv, DataInv
<1>1. op' = op /\ \A j \in Worker \ {i} : Untouched(j)
  BY Frame
<1> SUFFICES ASSUME NEW j \in Worker, NEW b \in Block, NEW f \in Buffer, Stored(j, b, f)'
             PROVE  device'[j][f] = Current(b)' \/ obj'[j] = b
  BY DEF CopyInv
<1>2. ASSUME Stored(j, b, f), j # i \/ ~Compute(i) PROVE Current(b)' = Current(b)
  <2>1. Holds(j, b)
    BY <1>2 DEF Stored, Holds
  <2>2. QED
    BY <1>2, <2>1, ComputeAlone, WrittenBlock
<1>3. CASE j # i
  <2>1. Stored(j, b, f)
    BY <1>3, StoredGrow
  <2>2. device'[j] = device[j] /\ obj'[j] = obj[j]
    BY <1>1, <1>3 DEF Untouched
  <2>3. QED
    BY <1>2, <1>3, <2>1, <2>2 DEF CopyInv
<1>4. CASE j = i /\ Fetch(i)
  <2>1. PICK s \in todo[i], k \in Buffer : FetchedTo(i, s, k)
    BY <1>4, FetchEffect
  <2>2. device' = device /\ ~Compute(i) /\ obj[i] = NULL
    <3>1. ~Compute(i)
      BY <1>4, <2>1 DEF Compute, Computing
    <3>2. QED
      BY <1>4, <3>1 DEF Fetch, memory, ControlInv, ControlOf
  <2>3. CASE Stored(i, b, f)
    <3>1. device[i][f] = Current(b)
      BY <2>2, <2>3, GpuAssumption DEF CopyInv
    <3>2. QED
      BY <1>2, <1>4, <2>2, <2>3, <3>1
  <2>4. CASE ~Stored(i, b, f)
    <3>1. FetchMiss(i, s.block, gpu[i][k]) /\ b = s.block
      BY <1>4, <2>1, <2>4 DEF FetchedTo, FetchHit, FetchMiss, SameSlots
    <3>2. obj'[i] = b
      BY <3>1 DEF FetchMiss, GpuTypeOK
    <3>3. QED
      BY <1>4, <3>2
  <2>5. QED
    BY <2>3, <2>4
<1>5. CASE j = i /\ Write(i)
  <2>1. Stored(i, b, f)
    <3>1. ~Fetch(i)
      BY <1>5 DEF Write, Fetch
    <3>2. QED
      BY <1>5, <3>1, StoredGrow
  <2>2. PICK c, g : /\ c \in Block /\ c = obj[i]
                    /\ g = arg[i][c] /\ Stored(i, c, g)
                    /\ main[c] = Current(c)
    BY <1>5, WriteCurrent DEF Write
  <2>3. device' = [device EXCEPT ![i][g] = main[c]] /\ written' = written
    BY <1>5, <2>2 DEF Write
  <2>4. Current(b)' = Current(b)
    BY <2>3 DEF Current
  <2>5. g \in Buffer
    BY <2>2 DEF Stored, GpuTypeOK, Slot
  <2>6. CASE b = c
    <3>1. f = g
      BY <2>1, <2>2, <2>6, SlotUnique
    <3>2. device'[i][f] = main[c]
      BY <2>3, <3>1 DEF GpuTypeOK
    <3>3. QED
      BY <1>5, <2>2, <2>4, <2>6, <3>2
  <2>7. CASE b # c
    <3>1. f # g
      BY <2>1, <2>2, <2>7, SlotUnique
    <3>2. device'[i][f] = device[i][f]
      BY <2>3, <3>1 DEF GpuTypeOK
    <3>3. device[i][f] = Current(b)
      BY <2>1, <2>2, <2>7 DEF CopyInv
    <3>4. QED
      BY <1>5, <2>4, <3>2, <3>3
  <2>8. QED
    BY <2>6, <2>7
<1>6. CASE j = i /\ Compute(i)
  <2>1. Computing(i) /\ ~Fetch(i) /\ ~Write(i) /\ obj' = obj
    BY <1>6 DEF Compute, Computing, Fetch, Write
  <2>2. Stored(i, b, f)
    BY <1>6, <2>1, StoredGrow
  <2>3. /\ obj[i] = NULL
        /\ \A c \in Outputs(t[i]) : c \in Block /\ Stored(i, c, arg[i][c])
    BY <2>1, ComputeFetched, BlocksSame DEF Blocks
  <2>4. device[i][f] = Current(b)
    BY <2>2, <2>3, GpuAssumption DEF CopyInv
  <2>5. PICK B : B = {c \in Outputs(t[i]) : arg[i][c] = f}
    OBVIOUS
  <2>6. B = IF b \in Outputs(t[i]) THEN {b} ELSE {}
    <3>1. ASSUME NEW c \in Outputs(t[i]) PROVE c = b <=> arg[i][c] = f
      BY <2>2, <2>3, SlotUnique
    <3>2. QED
      BY <2>5, <3>1
  <2>7. device'[i][f] = IF B = {} THEN device[i][f]
                        ELSE LET c == CHOOSE c \in B : TRUE IN <<c, written[c] + 1>>
    <3>1. device' = [device EXCEPT ![i] = [k \in Buffer |->
            LET C == {c \in Outputs(t[i]) : arg[i][c] = k}
            IN  IF C = {} THEN device[i][k]
                          ELSE LET c == CHOOSE c \in C : TRUE IN <<c, written[c] + 1>>]]
      BY <1>6, Zenon DEF Compute
    <3>2. device'[i] = [k \in Buffer |->
            LET C == {c \in Outputs(t[i]) : arg[i][c] = k}
            IN  IF C = {} THEN device[i][k]
                          ELSE LET c == CHOOSE c \in C : TRUE IN <<c, written[c] + 1>>]
      BY <3>1, Zenon DEF GpuTypeOK
    <3>3. device'[i][f] =
            LET C == {c \in Outputs(t[i]) : arg[i][c] = f}
            IN  IF C = {} THEN device[i][f]
                          ELSE LET c == CHOOSE c \in C : TRUE IN <<c, written[c] + 1>>
      BY <3>2, Zenon
    <3>4. QED
      BY <2>5, <3>3
  <2>8. written'[b] = IF b \in Outputs(t[i]) THEN written[b] + 1 ELSE written[b]
    BY <1>6, Zenon DEF Compute, Overwrite
  <2>9. CASE b \in Outputs(t[i])
    <3>1. (CHOOSE c \in B : TRUE) = b /\ B # {}
      BY <2>6, <2>9
    <3>2. device'[i][f] = <<b, written[b] + 1>>
      BY <2>7, <3>1
    <3>3. QED
      BY <1>6, <2>8, <2>9, <3>2 DEF Current
  <2>10. CASE b \notin Outputs(t[i])
    BY <1>6, <2>4, <2>6, <2>7, <2>8, <2>10 DEF Current
  <2>11. QED
    BY <2>9, <2>10
<1>7. CASE j = i /\ ~Fetch(i) /\ ~Write(i) /\ ~Compute(i)
  <2>1. Stored(i, b, f)
    BY <1>7, StoredGrow
  <2>2. device' = device /\ obj' = obj
    BY <1>7, MemoryChange, ObjChange
  <2>3. QED
    BY <1>2, <1>7, <2>1, <2>2 DEF CopyInv
<1>8. QED
  BY <1>3, <1>4, <1>5, <1>6, <1>7

LEMMA VictimStep ==
  ASSUME GpuInv, NEW i \in Worker, WorkOn(i), NEW j \in Worker
  PROVE  /\ place'[j] = "evict" => (device[j][arg[j][obj[j]]] = Current(victim[j]))'
         /\ place'[j] = "evicted" => (main[victim[j]] = Current(victim[j]))'
<1> USE DEF GpuInv, ShapeInv, DataInv
<1>1. op' = op /\ \A k \in Worker \ {i} : Untouched(k)
  BY Frame
<1>2. CASE j # i
  <2>1. /\ place'[j] = place[j] /\ device'[j] = device[j] /\ arg'[j] = arg[j]
        /\ obj'[j] = obj[j] /\ victim'[j] = victim[j]
    BY <1>1, <1>2 DEF Untouched
  <2>2. CASE place[j] \in {"evict", "evicted"}
    <3>1. PICK b \in Block : b = victim[j]
      BY <2>2 DEF ControlInv, ControlOf, GpuTypeOK
    <3>2. main'[b] = main[b] /\ Current(b)' = Current(b)
      BY <1>2, <3>1, MainBlock DEF Owns
    <3>3. Current(victim[j])' = Current(b)'
      BY <2>1, <3>1 DEF Current
    <3>4. /\ place[j] = "evict" => device[j][arg[j][obj[j]]] = Current(b)
          /\ place[j] = "evicted" => main[b] = Current(b)
      BY <3>1 DEF MainInv
    <3>5. QED
      BY <2>1, <3>1, <3>2, <3>3, <3>4
  <2>3. QED
    BY <2>1, <2>2
<1>3. CASE j = i
  <2>1. ASSUME place'[i] = "evict" PROVE Fetch(i)
    <3>1. CASE Clean(i)
      <4>1. Enter(i, IF t[i] = 0 THEN "dequeue" ELSE "clear")
        BY <3>1, Zenon DEF Clean
      <4>2. QED
        BY <2>1, <4>1 DEF Enter, GpuTypeOK
    <3>2. CASE Check(i) \/ Invalidate(i) \/ MarkBlock(i) \/ Read(i)
      <4>1. place' = place /\ place[i] \in {"check", "update", "clear", "mark", "flush", "exit"}
        BY <3>2, Zenon DEF Check, Invalidate, MarkBlock, Read
      <4>2. QED
        BY <2>1, <4>1
    <3>3. CASE FlushGpu(i) \/ Destroy(i) \/ FlushBlock(i)
      BY <2>1, <3>3 DEF FlushGpu, Destroy, FlushBlock, Enter, GpuTypeOK
    <3>4. CASE Dequeue(i) \/ Verdict(i) \/ Evicted(i) \/ ReadVictim(i) \/ Write(i)
      BY <2>1, <3>4 DEF Dequeue, Verdict, Evicted, ReadVictim, Write, Enter, GpuTypeOK
    <3>5. CASE Compute(i) \/ ComputeOnCpu(i)
      <4>1. Enter(i, "mark")
        BY <3>5, Zenon DEF Compute, ComputeOnCpu
      <4>2. QED
        BY <2>1, <4>1 DEF Enter, GpuTypeOK
    <3>6. CASE Release(i) \/ Commit(i)
      BY <2>1, <3>6 DEF Release, Commit, Enter, GpuTypeOK
    <3>7. QED
      BY <3>1, <3>2, <3>3, <3>4, <3>5, <3>6 DEF WorkOn
  <2>2. ASSUME place'[i] = "evicted" PROVE ReadVictim(i)
    <3>1. Updating(i)' /\ (Updating(i) \/ Verdict(i))
      <4>1. Updating(i)'
        BY <2>2 DEF Updating
      <4>2. QED
        BY <4>1, OwnStage
    <3>2. CASE Verdict(i)
      BY <2>2, <3>2 DEF Verdict, Enter, GpuTypeOK
    <3>3. CASE Fetch(i)
      <4>1. PICK s \in todo[i], k \in Buffer : FetchedTo(i, s, k)
        BY <3>3, FetchEffect
      <4>2. QED
        BY <2>2, <4>1 DEF FetchedTo, FetchHit, FetchMiss, Enter, GpuTypeOK
    <3>4. CASE Invalidate(i)
      <4>1. place' = place /\ place[i] \in {"update", "clear"}
        BY <3>4, Zenon DEF Invalidate
      <4>2. QED
        BY <2>2, <4>1
    <3>5. CASE Compute(i) \/ Evicted(i) \/ Write(i)
      <4>1. Enter(i, "mark") \/ Enter(i, "write") \/ Enter(i, "update")
        BY <3>5, Zenon DEF Compute, Evicted, Write
      <4>2. QED
        BY <2>2, <4>1 DEF Enter, GpuTypeOK
    <3>6. CASE Updating(i) /\ ~Verdict(i)
      <4>1. place[i] \in {"update", "evict", "evicted", "write"}
        BY <3>6 DEF Updating
      <4>2. Fetch(i) \/ Invalidate(i) \/ Compute(i) \/ Evicted(i) \/ Write(i) \/ ReadVictim(i)
        BY <3>6, <4>1, Zenon
        DEF WorkOn, FlushGpu, Dequeue, Check, MarkBlock, FlushBlock, Clean, Read, ComputeOnCpu,
            ComputingOnCpu, Release, Commit, Destroy
      <4>3. QED
        BY <3>3, <3>4, <3>5, <4>2
    <3>7. QED
      BY <3>1, <3>2, <3>6
  <2>3. ASSUME Fetch(i), place'[i] = "evict"
        PROVE  (device[i][arg[i][obj[i]]] = Current(victim[i]))'
    <3>1. PICK s \in todo[i], k \in Buffer : FetchedTo(i, s, k)
      BY <2>3, FetchEffect
    <3>2. PICK b \in Block, old \in Slot : b = s.block /\ old = gpu[i][k]
      BY <3>1 DEF FetchedTo
    <3>3. FetchMiss(i, b, old) /\ Dirty(old) /\ arg' = [arg EXCEPT ![i][b] = old.buf]
      BY <2>3, <3>1, <3>2 DEF FetchedTo, FetchHit, FetchMiss, Enter, GpuTypeOK
    <3>4. obj'[i] = b /\ victim'[i] = old.block /\ arg'[i][b] = old.buf
      BY <3>3 DEF FetchMiss, GpuTypeOK
    <3>5. device' = device /\ written' = written /\ obj[i] = NULL
      BY <2>3 DEF Fetch, memory, ControlInv, ControlOf
    <3>6. old.block \in Block /\ old.buf \in Buffer
      BY <3>3 DEF Dirty, Slot
    <3>7. Stored(i, old.block, old.buf)
      BY <3>2 DEF Stored
    <3>8. device[i][old.buf] = Current(old.block)
      BY <3>5, <3>6, <3>7, GpuAssumption DEF CopyInv
    <3>9. QED
      BY <3>4, <3>5, <3>8 DEF Current
  <2>4. ASSUME ReadVictim(i)
        PROVE  (main[victim[i]] = Current(victim[i]))'
    <3>1. PICK b \in Block : b = victim[i] /\ place[i] = "evict"
      BY <2>4 DEF ReadVictim, ControlInv, ControlOf, GpuTypeOK
    <3>2. device[i][arg[i][obj[i]]] = Current(b)
      BY <3>1 DEF MainInv
    <3>3. victim' = victim /\ written' = written /\ main'[b] = Current(b)
      BY <2>4, <3>1, <3>2 DEF ReadVictim, cache, GpuTypeOK
    <3>4. QED
      BY <3>1, <3>3 DEF Current
  <2>5. QED
    BY <1>3, <2>1, <2>2, <2>3, <2>4
<1>4. QED
  BY <1>2, <1>3

LEMMA MainStep ==
  ASSUME GpuInv, NEW i \in Worker, WorkOn(i)
  PROVE  MainInv'
<1> USE DEF GpuInv, ShapeInv, DataInv
<1>1. ASSUME NEW b \in Block
      PROVE  main'[b] = Current(b)' \/ \E k \in Worker : Owns(k, b)'
  <2>1. CASE \E k \in Worker : Owns(k, b)
    <3>1. PICK k \in Worker : Owns(k, b)
      BY <2>1
    <3>2. CASE Clean(i) /\ b \in Logged(i)
      <4>1. PICK n \in DOMAIN gpu_log[i] : b = gpu_log[i][n].block
        BY <3>2 DEF Logged
      <4>2. main[b] = Current(b)
        BY <3>2, <4>1, LoggedBlock DEF Clean
      <4>3. main' = main /\ written' = written
        BY <3>2, Zenon DEF Clean, memory
      <4>4. QED
        BY <4>2, <4>3 DEF Current
    <3>3. CASE Evicted(i) /\ victim[i] = b
      <4>1. main[b] = Current(b)
        BY <3>3 DEF MainInv, Evicted
      <4>2. main' = main /\ written' = written
        BY <3>3 DEF Evicted, memory
      <4>3. QED
        BY <4>1, <4>2 DEF Current
    <3>4. QED
      BY <3>1, <3>2, <3>3, OwnsShrink
  <2>2. CASE ~\E k \in Worker : Owns(k, b)
    <3>1. main[b] = Current(b)
      BY <2>2 DEF MainInv
    <3>2. CASE Compute(i) /\ b \in Outputs(t[i])
      <4>1. place'[i] = "mark" /\ todo'[i] = MarkPlan(i, t[i])
        BY <3>2 DEF Compute, Enter, GpuTypeOK
      <4>2. ToDo(i, "mark", b, i)'
        BY <3>2, <4>1, MarkSteps DEF ToDo
      <4>3. Owns(i, b)'
        BY <4>1, <4>2 DEF Owns, Unmarked
      <4>4. QED
        BY <4>3
    <3>3. CASE ComputeOnCpu(i)
      <4>1. /\ main'[b] = IF b \in Outputs(t[i]) THEN <<b, written[b] + 1>> ELSE main[b]
            /\ written'[b] = IF b \in Outputs(t[i]) THEN written[b] + 1 ELSE written[b]
        BY <3>3, Zenon DEF ComputeOnCpu, Overwrite
      <4>2. QED
        BY <3>1, <4>1 DEF Current
    <3>4. CASE ~ComputeOnCpu(i) /\ ~(Compute(i) /\ b \in Outputs(t[i]))
      <4>1. Current(b)' = Current(b)
        BY <3>4, WrittenBlock
      <4>2. CASE Read(i)
        <5>1. PICK n \in reads[i] :
                main' = [main EXCEPT ![gpu_log[i][n].block] = device[i][gpu_log[i][n].buf]]
          BY <4>2, Zenon DEF Read
        <5>2. n \in DOMAIN gpu_log[i] /\ place[i] \in {"flush", "exit"}
          BY <4>2 DEF Read, ControlInv, ControlOf
        <5>3. device[i][gpu_log[i][n].buf] = Current(gpu_log[i][n].block)
          BY <5>2, LoggedBlock
        <5>4. QED
          BY <3>1, <4>1, <5>1, <5>3 DEF GpuTypeOK
      <4>3. CASE ReadVictim(i)
        <5>1. victim[i] # b
          BY <2>2 DEF Owns
        <5>2. QED
          BY <3>1, <4>1, <4>3, <5>1 DEF ReadVictim, GpuTypeOK
      <4>4. QED
        BY <3>1, <3>4, <4>1, <4>2, <4>3, MemoryChange
    <3>5. QED
      BY <3>2, <3>3, <3>4
  <2>3. QED
    BY <2>1, <2>2
<1>2. QED
  BY <1>1, VictimStep DEF MainInv

-----------------------------------------------------------------------------
(* The invariant.                                                          *)

LEMMA GpuInitially ==
  ASSUME GpuInit
  PROVE  GpuInv
<1> USE DEF GpuInit
<1>1. GpuTypeOK
  <2>1. \A n \in Buffer : [block |-> NULL, clean |-> TRUE, request |-> FALSE, buf |-> n] \in Slot
    BY DEF Slot
  <2>2. gpu \in [Worker -> [Buffer -> Slot]]
    BY <2>1
  <2>3. device \in [Worker -> [Buffer -> Value]] /\ main \in [Block -> Value]
    BY DEF Value
  <2>4. op \in Seq(OpType) /\ 0 \in 0..Len(op)
    BY GpuAssumption
  <2>5. \A i \in Worker : gpu_log[i] = <<>> /\ DOMAIN gpu_log[i] \subseteq Buffer
                          /\ gpu_log[i] \in [DOMAIN gpu_log[i] -> Slot]
    OBVIOUS
  <2>6. place \in [Worker -> Label]
    BY DEF Label
  <2>7. QED
    BY <2>2, <2>3, <2>4, <2>5, <2>6 DEF GpuTypeOK
<1>2. /\ \A i \in Worker : /\ ~Updating(i) /\ ~Clearing(i) /\ ~Ready(i) /\ ~Running(i)
                           /\ \A b \in Block : ~HoldsDirty(i, b) /\ ~Holds(i, b) /\ ~Owns(i, b)
                                               /\ \A f \in Buffer : ~Stored(i, b, f)
  BY GpuAssumption
  DEF Updating, Clearing, Ready, Running, HoldsDirty, Holds, Owns, Stored, Unmarked
<1>3. ControlInv /\ TodoInv /\ SlotInv
  BY <1>2 DEF ControlInv, ControlOf, TodoInv, TodoOf, SlotInv
<1>4. OrderInv /\ CountInv /\ WrittenInv
  <2>1. CommittedTasks = {} /\ \A b \in Block : {x \in DOMAIN op : b \in Outputs(x) /\ Ran(x)} = {}
    BY DEF CommittedTasks, Ran
  <2>2. QED
    BY <2>1, FS_EmptySet DEF OrderInv, CountInv, WrittenInv
<1>5. OwnerInv /\ CheckInv /\ AloneInv /\ ClearInv
  BY <1>2, GpuAssumption DEF OwnerInv, CheckInv, AloneInv, ClearInv, Unmarked
<1>6. FetchInv /\ LogInv /\ CopyInv /\ MainInv
  BY <1>2 DEF FetchInv, FetchOf, LogInv, LogOf, CopyInv, MainInv, Current
<1>7. QED
  BY <1>1, <1>3, <1>4, <1>5, <1>6 DEF GpuInv, ShapeInv, TaskInv, DataInv

LEMMA GpuStutters ==
  ASSUME GpuInv, UNCHANGED gpuVars
  PROVE  GpuInv'
<1> USE DEF gpuVars
<1>1. /\ \A i : /\ Updating(i)' = Updating(i) /\ Clearing(i)' = Clearing(i)
                /\ Ready(i)' = Ready(i) /\ Running(i)' = Running(i) /\ Logged(i)' = Logged(i)
      /\ \A i, b : /\ HoldsDirty(i, b)' = HoldsDirty(i, b) /\ Holds(i, b)' = Holds(i, b)
                   /\ Unmarked(i, b)' = Unmarked(i, b) /\ Owns(i, b)' = Owns(i, b)
                   /\ \A f : Stored(i, b, f)' = Stored(i, b, f)
                   /\ \A what, k : ToDo(i, what, b, k)' = ToDo(i, what, b, k)
  BY DEF Updating, Clearing, Ready, Running, Logged, HoldsDirty, Holds, Unmarked, Owns, Stored,
         ToDo
<1>2. /\ \A x : Blocks(x)' = Blocks(x) /\ Outputs(x)' = Outputs(x) /\ Ran(x)' = Ran(x)
      /\ \A x, y : Conflict(x, y)' = Conflict(x, y)
      /\ \A b : Current(b)' = Current(b)
      /\ CommittedTasks' = CommittedTasks
  BY DEF Blocks, Inputs, Outputs, Ran, Conflict, Current, CommittedTasks
<1>3. \A i, b : Fetched(i, b)' = Fetched(i, b)
  BY <1>1, <1>2 DEF Fetched
<1>4. \A i, x : /\ CheckPlan(i, x)' = CheckPlan(i, x) /\ UpdatePlan(i, x)' = UpdatePlan(i, x)
                /\ MarkPlan(i, x)' = MarkPlan(i, x) /\ ClearPlan(i, x)' = ClearPlan(i, x)
  BY PlansSame
<1> USE DEF GpuInv
<1>5. ShapeInv'
  <2> USE DEF ShapeInv
  <2>1. GpuTypeOK'
    BY DEF GpuTypeOK
  <2>2. ControlInv'
    BY <1>1 DEF ControlInv, ControlOf
  <2>3. TodoInv'
    BY <1>1, <1>4 DEF TodoInv, TodoOf
  <2>4. SlotInv'
    BY DEF SlotInv
  <2>5. QED
    BY <2>1, <2>2, <2>3, <2>4
<1>6. TaskInv'
  BY <1>2 DEF TaskInv, OrderInv, CountInv, WrittenInv
<1>7. DataInv'
  <2> USE DEF DataInv
  <2>1. OwnerInv' /\ CheckInv' /\ AloneInv' /\ ClearInv'
    <3>1. OwnerInv'
      BY <1>1 DEF OwnerInv
    <3>2. CheckInv'
      BY <1>1, <1>2 DEF CheckInv
    <3>3. AloneInv'
      BY <1>1, <1>2 DEF AloneInv
    <3>4. ClearInv'
      BY <1>1, <1>2 DEF ClearInv
    <3>5. QED
      BY <3>1, <3>2, <3>3, <3>4
  <2>2. FetchInv'
    <3>1. FetchInv
      OBVIOUS
    <3>2. QED
      BY <1>1, <1>2, <1>3, <3>1 DEF FetchInv, FetchOf
  <2>3. LogInv'
    <3>1. LogInv
      OBVIOUS
    <3>2. QED
      BY <1>1, <1>2, <3>1 DEF LogInv, LogOf, LogAt
  <2>4. CopyInv' /\ MainInv'
    BY <1>1, <1>2 DEF CopyInv, MainInv
  <2>5. QED
    BY <2>1, <2>2, <2>3, <2>4
<1>8. QED
  BY <1>5, <1>6, <1>7

LEMMA GpuInductive ==
  ASSUME GpuInv, [GpuNext]_gpuVars
  PROVE  GpuInv'
<1>1. CASE UNCHANGED gpuVars
  BY <1>1, GpuStutters
<1>2. ASSUME NEW i \in Worker, WorkOn(i)
      PROVE  GpuInv'
  <2>1. ShapeInv /\ TaskInv /\ FetchInv
    BY DEF GpuInv, DataInv
  <2>2. ShapeInv'
    BY <1>2, <2>1, TypeStep, ControlStep, TodoStep, SlotStep DEF ShapeInv, TaskInv
  <2>3. TaskInv'
    BY <1>2, <2>1, OrderStep, CountStep, WrittenStep DEF TaskInv
  <2>4. DataInv'
    BY <1>2, OwnerStep, CheckStep, AloneStep, ClearStep, FetchStep, LogStep, CopyStep, MainStep
    DEF DataInv
  <2>5. QED
    BY <2>2, <2>3, <2>4 DEF GpuInv
<1>3. QED
  BY <1>1, <1>2 DEF GpuNext

LEMMA GpuSafe == GpuSpec => []GpuInv
<1>1. GpuInit => GpuInv
  BY GpuInitially
<1>2. GpuInv /\ [GpuNext]_gpuVars => GpuInv'
  BY GpuInductive
<1>3. QED
  BY <1>1, <1>2, PTL DEF GpuSpec

(* The variables keep their types, and the tasks committed are those done. *)
THEOREM GpuTypeCorrect == GpuSpec => []GpuTypeOK
<1>1. GpuInv => GpuTypeOK
  BY DEF GpuInv, ShapeInv
<1>2. QED
  BY <1>1, GpuSafe, PTL

LEMMA GpuOperands ==
  ASSUME GpuInv
  PROVE  OperandsCurrent
<1> USE DEF GpuInv, ShapeInv, DataInv
<1>1. ASSUME NEW i \in Worker, Computing(i), NEW b \in Blocks(t[i])
      PROVE  device[i][arg[i][b]] = <<b, written[b]>>
  <2>1. b \in Block /\ Stored(i, b, arg[i][b]) /\ obj[i] = NULL
    BY <1>1, ComputeFetched
  <2>2. PICK f \in Buffer : f = arg[i][b]
    BY <2>1 DEF Stored, GpuTypeOK, Slot
  <2>3. QED
    BY <2>1, <2>2, GpuAssumption DEF CopyInv, Current
<1>2. ASSUME NEW i \in Worker, ComputingOnCpu(i), NEW b \in Blocks(t[i])
      PROVE  main[b] = <<b, written[b]>>
  <2>1. place[i] = "clear" /\ todo[i] = {} /\ Clearing(i) /\ Ready(i) /\ Running(i)
    BY <1>2, Stages DEF ComputingOnCpu, Clearing
  <2>2. b \in Block /\ victim[i] # b
    BY <2>1, RunningTask, GpuAssumption DEF ControlInv, ControlOf
  <2>3. ~HoldsDirty(i, b)
    BY <2>1 DEF ClearInv, ToDo
  <2>4. ~Owns(i, b)
    BY <2>1, <2>2, <2>3 DEF Owns, Unmarked
  <2>5. \A k \in Worker : ~Owns(k, b)
    BY <2>1, <2>4, NotOwned
  <2>6. QED
    BY <2>2, <2>5 DEF MainInv, Current
<1>3. QED
  BY <1>1, <1>2 DEF OperandsCurrent

(* A task computes with what the tasks before it have written: its blocks  *)
(* are checked, flushed and fetched in steps of their own, and nothing     *)
(* that the other threads do between these steps makes a block stale.      *)
THEOREM OperandsAreCurrent == GpuSpec => []OperandsCurrent
<1>1. GpuInv => OperandsCurrent
  BY GpuOperands
<1>2. QED
  BY <1>1, GpuSafe, PTL

(* What a thread writes in main memory it has for itself.                  *)
LEMMA MainUse ==
  ASSUME GpuInv, NEW i \in Worker, NEW b
  PROVE  /\ b \in MainWrites(i) =>
              b \in Block /\ (Owns(i, b) \/ (Ready(i) /\ b \in Outputs(t[i])))
         /\ b \in MainReads(i) => Ready(i) /\ b \in Blocks(t[i])
<1> USE DEF GpuInv, ShapeInv, DataInv
<1>1. CASE place[i] \in {"flush", "exit"}
  <2>1. MainReads(i) = {} /\ MainWrites(i) \subseteq {gpu_log[i][n].block : n \in reads[i]}
    BY <1>1 DEF MainReads, MainWrites, ComputingOnCpu
  <2>2. \A n \in reads[i] : gpu_log[i][n].block \in Block /\ Owns(i, gpu_log[i][n].block)
    BY <1>1, LoggedBlock DEF ControlInv, ControlOf
  <2>3. QED
    BY <2>1, <2>2
<1>2. CASE place[i] = "evict"
  <2>1. MainReads(i) = {} /\ MainWrites(i) = {victim[i]}
    BY <1>2 DEF MainReads, MainWrites, ComputingOnCpu
  <2>2. victim[i] \in Block /\ Owns(i, victim[i])
    BY <1>2 DEF ControlInv, ControlOf, GpuTypeOK, Owns
  <2>3. QED
    BY <2>1, <2>2
<1>3. CASE ComputingOnCpu(i)
  <2>1. place[i] = "clear" /\ Ready(i)
    BY <1>3, Stages DEF ComputingOnCpu, Clearing
  <2>2. MainReads(i) = Blocks(t[i]) /\ MainWrites(i) = Outputs(t[i])
    BY <1>3, <2>1 DEF MainReads, MainWrites
  <2>3. QED
    BY <2>1, <2>2, Stages, RunningTask
<1>4. CASE place[i] = "write"
  <2>1. MainReads(i) = {obj[i]} /\ MainWrites(i) = {}
    BY <1>4 DEF MainReads, MainWrites, ComputingOnCpu
  <2>2. QED
    BY <1>4, <2>1, WriteCurrent, Stages DEF Updating
<1>5. CASE place[i] \notin {"flush", "exit", "evict", "write"} /\ ~ComputingOnCpu(i)
  BY <1>5 DEF MainReads, MainWrites
<1>6. QED
  BY <1>1, <1>2, <1>3, <1>4, <1>5

LEMMA GpuTransfers ==
  ASSUME GpuInv
  PROVE  TransfersApart
<1> SUFFICES ASSUME NEW i \in Worker, NEW k \in Worker, i # k, NEW b \in MainWrites(i),
                    b \in MainReads(k) \cup MainWrites(k)
             PROVE  FALSE
  BY DEF TransfersApart
<1> USE DEF GpuInv, ShapeInv, TaskInv, DataInv
<1>1. b \in Block /\ (Owns(i, b) \/ (Ready(i) /\ b \in Outputs(t[i])))
  BY MainUse
<1>2. Owns(k, b) \/ (Ready(k) /\ b \in Blocks(t[k]))
  BY MainUse, BlocksSame DEF Blocks
<1>3. CASE Owns(i, b)
  BY <1>1, <1>2, <1>3, NotOwned DEF OwnerInv
<1>4. CASE Ready(i) /\ b \in Outputs(t[i])
  <2>1. b \in Blocks(t[i])
    BY <1>4 DEF Blocks
  <2>2. ~Owns(k, b)
    BY <1>4, <2>1, NotOwned
  <2>3. QED
    BY <1>2, <1>4, <2>2, NoConflict, Stages
<1>5. QED
  BY <1>1, <1>3, <1>4

(* A block that is being transferred from a GPU to main memory, without a  *)
(* lock, is not used there by another thread.                              *)
THEOREM TransfersStayApart == GpuSpec => []TransfersApart
<1>1. GpuInv => TransfersApart
  BY GpuTransfers
<1>2. QED
  BY <1>1, GpuSafe, PTL

LEMMA GpuResults ==
  ASSUME GpuInv
  PROVE  ResultsInMain
<1> SUFFICES ASSUME Terminated, NEW b \in Block
             PROVE  /\ main[b] = <<b, written[b]>>
                    /\ written[b] = Cardinality({x \in DOMAIN op : b \in Outputs(x)})
  BY DEF ResultsInMain
<1> USE DEF GpuInv, ShapeInv, TaskInv, DataInv
<1>1. \A i \in Worker : place[i] = "exit" /\ reads[i] = {}
  BY DEF Terminated
<1>2. \A x \in DOMAIN op : state[x] = "done"
  <2>1. 0 \in Worker
    BY GpuAssumption DEF Worker
  <2>2. n_committed >= Len(op)
    BY <1>1, <2>1 DEF ControlInv, ControlOf
  <2>3. /\ IsFiniteSet(DOMAIN op) /\ Cardinality(DOMAIN op) = Len(op) /\ Len(op) \in Nat
        /\ CommittedTasks \subseteq DOMAIN op
    BY TaskFacts, FS_Interval DEF CommittedTasks
  <2>4. Cardinality(CommittedTasks) = Cardinality(DOMAIN op)
    BY <2>2, <2>3 DEF CountInv, GpuTypeOK
  <2>5. CommittedTasks = DOMAIN op
    BY <2>3, <2>4, FS_Subset
  <2>6. QED
    BY <2>5 DEF CommittedTasks
<1>3. written[b] = Cardinality({x \in DOMAIN op : b \in Outputs(x)})
  <2>1. {x \in DOMAIN op : b \in Outputs(x) /\ Ran(x)} = {x \in DOMAIN op : b \in Outputs(x)}
    BY <1>2 DEF Ran
  <2>2. QED
    BY <2>1 DEF WrittenInv
<1>4. main[b] = Current(b)
  <2>1. CASE \E k \in Worker : Owns(k, b)
    <3>1. PICK k \in Worker : Owns(k, b)
      BY <2>1
    <3>2. HoldsDirty(k, b)
      BY <1>1, <3>1, GpuAssumption DEF Owns, Unmarked, ControlInv, ControlOf
    <3>3. b \in Logged(k)
      BY <1>1, <3>2 DEF LogInv, LogOf
    <3>4. PICK n \in DOMAIN gpu_log[k] : b = gpu_log[k][n].block
      BY <3>3 DEF Logged
    <3>5. QED
      BY <1>1, <3>4, LoggedBlock
  <2>2. QED
    BY <2>1 DEF MainInv
<1>5. QED
  BY <1>3, <1>4 DEF Current

(* When all threads have left the region main memory holds the last        *)
(* contents of every block, and every task has written its blocks once.    *)
THEOREM ResultsReachMain == GpuSpec => []ResultsInMain
<1>1. GpuInv => ResultsInMain
  BY GpuResults
<1>2. QED
  BY <1>1, GpuSafe, PTL

=============================================================================
