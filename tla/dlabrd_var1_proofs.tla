------------------------- MODULE dlabrd_var1_proofs -------------------------
(***************************************************************************)
(* The spin barrier is safe, and the multithreaded LABRD that uses it is   *)
(* free of data races, finds in its row buffer what it expects and writes  *)
(* what one thread would, for every number of threads, of rounds and every *)
(* size of the matrix.                                                     *)
(*                                                                         *)
(* Between two releases every thread either still looks at the gate of the *)
(* round before, or belongs to the round of release_flag.  wait_count      *)
(* counts the arrivals of that round, until the last thread resets it; and *)
(* while a thread acts as the last one, all others wait at the gate.       *)
(*                                                                         *)
(* The team uses the barrier as FLA_Barrier says, so that two threads that *)
(* make calls have passed it equally often and are in the same section.    *)
(* The parts that the threads have of one range are disjoint, and what a   *)
(* section writes outside them no other thread reads or writes there.      *)
(*                                                                         *)
(* A cell of the row buffer keeps what a call has put there until some     *)
(* thread comes to the next section that fills it; within a column a       *)
(* reader never comes after such a section.                                *)
(*                                                                         *)
(* The calls of the threads at one place of a section are together one     *)
(* call of the serial reduction, and the places have the order of those    *)
(* calls: what an element holds grows by one mark at a time, in order.     *)
(***************************************************************************)
EXTENDS dlabrd_var1, FLA_Threads_proofs, FiniteSetTheorems

-----------------------------------------------------------------------------
(* The barrier.                                                            *)

Gatekeeper(i) == pc[i] \in {"reset", "publish", "release"}

Types ==
  /\ wait_count \in Nat /\ release_flag \in Nat /\ sense \in Nat
  /\ pc \in [Thread -> Label]
  /\ local_sense \in [Thread -> Nat] /\ passed \in [Thread -> Nat]

Leaving(i) ==
  pc[i] = "wait" /\ local_sense[i] + 1 = release_flag /\ passed[i] + 1 = release_flag

Present(i) ==
  passed[i] = release_flag /\ (pc[i] # "outside" => local_sense[i] = release_flag)

Rounds == \A i \in Thread : Leaving(i) \/ Present(i)

Alone ==
  \A i \in Thread : Gatekeeper(i) =>
    \A j \in Thread \ {i} : pc[j] = "wait" /\ Present(j)

Announced ==
  sense = IF \E i \in Thread : pc[i] = "release" THEN release_flag + 1 ELSE release_flag

Arrived == {i \in Thread : pc[i] \in {"wait", "reset"} /\ local_sense[i] = release_flag}

Counted ==
  wait_count = IF \E i \in Thread : pc[i] \in {"publish", "release"}
               THEN 0 ELSE Cardinality(Arrived)

IInv == Types /\ Rounds /\ Alone /\ Announced /\ Counted

-----------------------------------------------------------------------------
(* The team is a finite set of NThreads threads.                           *)
LEMMA TeamIsFinite == IsFiniteSet(Thread) /\ Cardinality(Thread) = NThreads
<1>1. NThreads \in Int /\ NThreads > 0
  BY NThreadsAssumption
<1>2. QED
  BY <1>1, FS_Interval DEF Thread

(* Those who have arrived are threads of the team.                         *)
LEMMA ArrivedFinite ==
  /\ IsFiniteSet(Arrived) /\ Cardinality(Arrived) \in Nat
  /\ Cardinality(Arrived) <= NThreads
<1>1. Arrived \subseteq Thread
  BY DEF Arrived
<1>2. QED
  BY <1>1, TeamIsFinite, FS_Subset, FS_CardinalityType

(* When all but one have arrived, the missing one is the only one.         *)
LEMMA LastToArrive ==
  ASSUME NEW i \in Thread, i \notin Arrived, Cardinality(Arrived) = NThreads - 1
  PROVE  Arrived = Thread \ {i}
<1>1. Arrived \subseteq Thread \ {i}
  BY DEF Arrived
<1>2. IsFiniteSet(Thread \ {i}) /\ Cardinality(Thread \ {i}) = NThreads - 1
  BY TeamIsFinite, FS_RemoveElement
<1>3. QED
  BY <1>1, <1>2, FS_Subset

-----------------------------------------------------------------------------
LEMMA StartsRight == Init => IInv
<1> SUFFICES ASSUME Init PROVE IInv
  OBVIOUS
<1>1. Arrived = {} /\ Types /\ Rounds /\ Alone /\ Announced
  BY DEF Init, Arrived, Types, Rounds, Alone, Announced, Label, Leaving, Present, Gatekeeper
<1>2. Cardinality(Arrived) = 0
  BY <1>1, FS_EmptySet
<1>3. \A i \in Thread : pc[i] = "outside"
  BY DEF Init
<1>4. Counted
  BY <1>2, <1>3 DEF Init, Counted
<1>5. QED
  BY <1>1, <1>4 DEF IInv

(* Every step keeps the types.                                             *)
LEMMA TypesKept == ASSUME Types, NEW i \in Thread, Step(i) PROVE Types'
<1> USE DEF Types, Label, Goto, Leave
<1>1. CASE Enter(i) BY <1>1 DEF Enter
<1>2. CASE Sync(i) BY <1>2 DEF Sync
<1>3. CASE Arrive(i) BY <1>3 DEF Arrive
<1>4. CASE Reset(i) BY <1>4 DEF Reset
<1>5. CASE Publish(i) BY <1>5 DEF Publish
<1>6. CASE Release(i) BY <1>6 DEF Release
<1>7. CASE Wait(i) BY <1>7 DEF Wait
<1>8. QED BY <1>1, <1>2, <1>3, <1>4, <1>5, <1>6, <1>7 DEF Step

(* A thread that enters joins the present round.                           *)
LEMMA EnterKeeps == ASSUME IInv, NEW i \in Thread, Enter(i) PROVE IInv'
<1>1. Types /\ Types'
  BY TypesKept DEF IInv, Step
<1>2. \A j \in Thread : ~Gatekeeper(j)
  BY DEF IInv, Alone, Enter, Gatekeeper
<1>3. sense = release_flag
  BY <1>2 DEF IInv, Announced, Gatekeeper
<1>4. passed[i] = release_flag
  BY DEF IInv, Rounds, Leaving, Present, Enter
<1>5. \A j \in Thread : pc'[j] = (IF j = i THEN "sync" ELSE pc[j])
                     /\ local_sense'[j] = (IF j = i THEN sense ELSE local_sense[j])
  BY <1>1 DEF Enter, Goto, Types
<1>6. Rounds'
  BY <1>3, <1>4, <1>5 DEF IInv, Rounds, Leaving, Present, Enter
<1>7. Alone' /\ Announced'
  BY <1>2, <1>3, <1>5 DEF Alone, Announced, Gatekeeper, Enter
<1>8. Arrived' = Arrived
  BY <1>5 DEF Arrived, Enter
<1>9. Counted'
  BY <1>2, <1>5, <1>8 DEF IInv, Counted, Enter, Gatekeeper
<1>10. QED
  BY <1>1, <1>6, <1>7, <1>9 DEF IInv

LEMMA SyncKeeps == ASSUME IInv, NEW i \in Thread, Sync(i) PROVE IInv'
<1>1. Types /\ Types'
  BY TypesKept DEF IInv, Step
<1>2. \A j \in Thread : ~Gatekeeper(j)
  BY DEF IInv, Alone, Sync, Gatekeeper
<1>3. \A j \in Thread : pc'[j] = (IF j = i THEN "arrive" ELSE pc[j])
  BY <1>1 DEF Sync, Goto, Types
<1>4. Rounds'
  BY <1>3 DEF IInv, Rounds, Leaving, Present, Sync
<1>5. Alone' /\ Announced'
  BY <1>2, <1>3 DEF IInv, Alone, Announced, Gatekeeper, Sync
<1>6. Arrived' = Arrived
  BY <1>3 DEF Arrived, Sync
<1>7. Counted'
  BY <1>2, <1>3, <1>6 DEF IInv, Counted, Sync, Gatekeeper
<1>8. QED
  BY <1>1, <1>4, <1>5, <1>7 DEF IInv

(* The counter tells the last thread from the others.                      *)
LEMMA ArriveKeeps == ASSUME IInv, NEW i \in Thread, Arrive(i) PROVE IInv'
<1>1. Types /\ Types'
  BY TypesKept DEF IInv, Step
<1>2. \A j \in Thread : ~Gatekeeper(j)
  BY DEF IInv, Alone, Arrive, Gatekeeper
<1>3. sense = release_flag /\ wait_count = Cardinality(Arrived)
  BY <1>2 DEF IInv, Announced, Counted, Gatekeeper
<1>4. pc[i] = "arrive" /\ local_sense[i] = release_flag /\ passed[i] = release_flag
  BY DEF IInv, Rounds, Leaving, Present, Arrive
<1>5. i \notin Arrived
  BY <1>4 DEF Arrived
<1>6. \A j \in Thread :
        pc'[j] = (IF j = i THEN (IF IsLast(wait_count) THEN "reset" ELSE "wait") ELSE pc[j])
  BY <1>1 DEF Arrive, Goto, Types
<1>7. UNCHANGED <<release_flag, sense, local_sense, passed>> /\ wait_count' = wait_count + 1
  BY DEF Arrive
<1>8. Arrived' = Arrived \cup {i}
  BY <1>4, <1>6, <1>7 DEF Arrived
<1>9. Cardinality(Arrived') = Cardinality(Arrived) + 1
  BY <1>5, <1>8, ArrivedFinite, FS_AddElement
<1>10. Counted'
  BY <1>2, <1>3, <1>6, <1>7, <1>9 DEF Counted, Gatekeeper
<1>11. Announced'
  BY <1>2, <1>3, <1>6, <1>7 DEF Announced, Gatekeeper
<1>12. Rounds'
  BY <1>4, <1>6, <1>7 DEF IInv, Rounds, Leaving, Present
<1>13. Alone'
  <2>1. CASE ~IsLast(wait_count)
    BY <2>1, <1>2, <1>6 DEF Alone, Gatekeeper
  <2>2. CASE IsLast(wait_count)
    <3>1. Arrived = Thread \ {i}
      BY <2>2, <1>3, <1>5, LastToArrive DEF IsLast
    <3>2. \A j \in Thread \ {i} : pc[j] = "wait" /\ local_sense[j] = release_flag
      BY <3>1, <1>2 DEF Arrived, Gatekeeper
    <3>3. \A j \in Thread \ {i} : Present(j)
      BY <3>2, <1>1 DEF IInv, Rounds, Leaving, Types
    <3>4. \A j \in Thread \ {i} : pc'[j] = "wait" /\ Present(j)'
      BY <3>2, <3>3, <1>6, <1>7 DEF Present
    <3>5. QED
      BY <3>4 DEF Alone, Gatekeeper
  <2>3. QED
    BY <2>1, <2>2
<1>14. QED
  BY <1>1, <1>10, <1>11, <1>12, <1>13 DEF IInv

(* What the gatekeeper does touches no other thread.                       *)
LEMMA ResetKeeps == ASSUME IInv, NEW i \in Thread, Reset(i) PROVE IInv'
<1>1. Types /\ Types'
  BY TypesKept DEF IInv, Step
<1>2. \A j \in Thread : pc'[j] = (IF j = i THEN "publish" ELSE pc[j])
  BY <1>1 DEF Reset, Goto, Types
<1>3. UNCHANGED <<release_flag, sense, local_sense, passed>> /\ wait_count' = 0 /\ pc[i] = "reset"
  BY DEF Reset
<1>4. \A j \in Thread \ {i} : pc[j] = "wait" /\ Present(j)
  BY <1>3 DEF IInv, Alone, Gatekeeper
<1>5. Rounds'
  BY <1>2, <1>3 DEF IInv, Rounds, Leaving, Present
<1>6. \A j \in Thread \ {i} : pc'[j] = "wait" /\ Present(j)'
  BY <1>2, <1>3, <1>4 DEF Present
<1>7. Alone'
  BY <1>6 DEF Alone, Gatekeeper
<1>8. Announced'
  BY <1>2, <1>3, <1>4 DEF IInv, Announced
<1>9. Counted'
  BY <1>2, <1>3 DEF Counted
<1>10. QED
  BY <1>1, <1>5, <1>7, <1>8, <1>9 DEF IInv

LEMMA PublishKeeps == ASSUME IInv, NEW i \in Thread, Publish(i) PROVE IInv'
<1>1. Types /\ Types'
  BY TypesKept DEF IInv, Step
<1>2. \A j \in Thread : pc'[j] = (IF j = i THEN "release" ELSE pc[j])
  BY <1>1 DEF Publish, Goto, Types
<1>3. UNCHANGED <<wait_count, release_flag, local_sense, passed>> /\ pc[i] = "publish"
      /\ sense' = local_sense[i] + 1
  BY DEF Publish
<1>4. \A j \in Thread \ {i} : pc[j] = "wait" /\ Present(j)
  BY <1>3 DEF IInv, Alone, Gatekeeper
<1>5. Rounds' /\ local_sense[i] = release_flag
  BY <1>2, <1>3 DEF IInv, Rounds, Leaving, Present
<1>6. \A j \in Thread \ {i} : pc'[j] = "wait" /\ Present(j)'
  BY <1>2, <1>3, <1>4 DEF Present
<1>7. Alone'
  BY <1>6 DEF Alone, Gatekeeper
<1>8. Announced'
  BY <1>2, <1>3, <1>5 DEF Announced
<1>9. Counted'
  BY <1>2, <1>3 DEF IInv, Counted
<1>10. QED
  BY <1>1, <1>5, <1>7, <1>8, <1>9 DEF IInv

(* The gate opens for all who wait, and the next round has no arrivals.    *)
LEMMA ReleaseKeeps == ASSUME IInv, NEW i \in Thread, Release(i) PROVE IInv'
<1>1. Types /\ Types'
  BY TypesKept DEF IInv, Step
<1>2. \A j \in Thread : pc'[j] = (IF j = i THEN "outside" ELSE pc[j])
                     /\ passed'[j] = (IF j = i THEN passed[j] + 1 ELSE passed[j])
  BY <1>1 DEF Release, Leave, Goto, Types
<1>3. UNCHANGED <<wait_count, sense, local_sense>> /\ pc[i] = "release"
      /\ release_flag' = local_sense[i] + 1
  BY DEF Release
<1>4. \A j \in Thread \ {i} : pc[j] = "wait" /\ Present(j)
  BY <1>3 DEF IInv, Alone, Gatekeeper
<1>5. Present(i) /\ local_sense[i] = release_flag
  BY <1>3 DEF IInv, Rounds, Leaving, Present
<1>6. release_flag' = release_flag + 1
  BY <1>3, <1>5
<1>7. \A j \in Thread \ {i} : Leaving(j)'
  BY <1>1, <1>2, <1>3, <1>4, <1>6 DEF Leaving, Present
<1>8. Present(i)'
  BY <1>1, <1>2, <1>5, <1>6 DEF Present
<1>9. Rounds'
  BY <1>7, <1>8 DEF Rounds
<1>10. \A j \in Thread : pc'[j] \in {"wait", "outside"}
  BY <1>2, <1>4
<1>11. Alone'
  BY <1>10 DEF Alone, Gatekeeper
<1>12. sense = release_flag + 1 /\ wait_count = 0
  BY <1>3 DEF IInv, Announced, Counted
<1>13. Announced'
  BY <1>3, <1>6, <1>10, <1>12 DEF Announced
<1>14. Arrived' = {}
  BY <1>1, <1>2, <1>7, <1>10 DEF Arrived, Leaving, Types
<1>15. Counted'
  BY <1>3, <1>10, <1>12, <1>14, FS_EmptySet DEF Counted
<1>16. QED
  BY <1>1, <1>9, <1>11, <1>13, <1>15 DEF IInv

(* A thread that leaves was not counted in the present round.              *)
LEMMA WaitKeeps == ASSUME IInv, NEW i \in Thread, Wait(i) PROVE IInv'
<1>1. Types /\ Types'
  BY TypesKept DEF IInv, Step
<1>2. \A j \in Thread : pc'[j] = (IF j = i THEN "outside" ELSE pc[j])
                     /\ passed'[j] = (IF j = i THEN passed[j] + 1 ELSE passed[j])
  BY <1>1 DEF Wait, Leave, Goto, Types
<1>3. UNCHANGED <<wait_count, release_flag, sense, local_sense>> /\ pc[i] = "wait"
      /\ release_flag = local_sense[i] + 1
  BY DEF Wait
<1>4. ~Present(i) /\ Leaving(i)
  BY <1>1, <1>3 DEF IInv, Rounds, Present, Types
<1>5. \A j \in Thread : ~Gatekeeper(j)
  BY <1>3, <1>4 DEF IInv, Alone, Gatekeeper
<1>6. Rounds'
  BY <1>1, <1>2, <1>3, <1>4 DEF IInv, Rounds, Leaving, Present
<1>7. Alone' /\ Announced'
  BY <1>2, <1>3, <1>5 DEF IInv, Alone, Announced, Gatekeeper
<1>8. Arrived' = Arrived
  BY <1>1, <1>2, <1>3 DEF Arrived, Types
<1>9. Counted'
  BY <1>2, <1>3, <1>5, <1>8 DEF IInv, Counted, Gatekeeper
<1>10. QED
  BY <1>1, <1>6, <1>7, <1>9 DEF IInv

LEMMA StepKeeps == ASSUME IInv, NEW i \in Thread, Step(i) PROVE IInv'
BY EnterKeeps, SyncKeeps, ArriveKeeps, ResetKeeps, PublishKeeps, ReleaseKeeps, WaitKeeps DEF Step

LEMMA Invariance == Spec => []IInv
<1>1. IInv /\ [Next]_vars => IInv'
  <2> SUFFICES ASSUME IInv, [Next]_vars PROVE IInv'
    OBVIOUS
  <2>1. CASE UNCHANGED vars
    BY <2>1 DEF IInv, Types, Rounds, Alone, Announced, Counted, Arrived, Leaving, Present,
                Gatekeeper, vars
  <2>2. QED
    BY <2>1, StepKeeps DEF Next
<1>2. QED
  BY StartsRight, <1>1, PTL DEF Spec

-----------------------------------------------------------------------------
(* The fields of the barrier keep their ranges: the counter never exceeds  *)
(* the number of threads.                                                  *)
THEOREM TypeCorrect == Spec => []TypeOK
<1>1. IInv => TypeOK
  <2> SUFFICES ASSUME IInv PROVE TypeOK
    OBVIOUS
  <2>1. wait_count = 0 \/ wait_count = Cardinality(Arrived)
    BY DEF IInv, Counted
  <2>2. wait_count \in 0..NThreads
    BY <2>1, ArrivedFinite, NThreadsAssumption
  <2>3. QED
    BY <2>2 DEF IInv, Types, TypeOK
<1>2. QED
  BY <1>1, Invariance, PTL

(* No thread leaves FLA_BARRIER_WAIT before every thread has entered it.   *)
THEOREM BarrierHolds == Spec => []NoneLeavesEarly
<1>1. IInv => NoneLeavesEarly
  BY DEF IInv, Rounds, Types, Leaving, Present, NoneLeavesEarly
<1>2. QED
  BY <1>1, Invariance, PTL

(* The counter is reset only when all threads of the round have arrived    *)
(* and none of them has left, so that no arrival is forgotten.             *)
THEOREM ResetIsSafe == Spec => NoArrivalLost
<1> DEFINE Safe ==
      wait_count' < wait_count =>
        /\ wait_count = NThreads
        /\ \A i \in Thread : pc[i] \in {"wait", "reset"} /\ local_sense[i] = release_flag
<1>1. ASSUME IInv, [Next]_vars PROVE [Safe]_vars
  <2> SUFFICES ASSUME NEW i \in Thread, Step(i), wait_count' < wait_count
               PROVE Safe
    BY <1>1 DEF Next, IInv, Types, vars
  <2>1. Reset(i)
    BY <1>1 DEF Step, Enter, Sync, Arrive, Publish, Release, Wait, IInv, Types
  <2>2. pc[i] = "reset" /\ local_sense[i] = release_flag
    BY <1>1, <2>1 DEF Reset, IInv, Rounds, Leaving, Present
  <2>3. \A j \in Thread \ {i} : pc[j] = "wait" /\ local_sense[j] = release_flag
    BY <1>1, <2>2 DEF IInv, Alone, Gatekeeper, Present
  <2>4. Arrived = Thread
    BY <2>2, <2>3 DEF Arrived
  <2>5. wait_count = NThreads
    BY <1>1, <2>2, <2>3, <2>4, TeamIsFinite DEF IInv, Counted
  <2>6. QED
    BY <2>2, <2>3, <2>5
<1>2. QED
  BY <1>1, Invariance, PTL DEF Spec, NoArrivalLost

-----------------------------------------------------------------------------
(* LABRD: the team and its sizes.                                          *)

(* The sizes of a matrix that the program reduces.                         *)
LEMMA Sizes ==
  ASSUME NEW p \in Problem
  PROVE  /\ p.m \in Nat /\ p.n \in Nat /\ p.nb \in Nat
         /\ 0 < p.nb /\ p.nb < p.m /\ p.nb < p.n
BY ProblemAssumption

LEMMA Teams ==
  /\ NThreads \in Nat /\ NThreads > 0 /\ Optimal \in Nat /\ Optimal > 0 /\ Optimal <= NThreads
<1>1. NThreads \in Nat /\ NThreads > 0 /\ PerGroup \in Nat /\ PerGroup > 0 /\ Few \in Nat
  BY NThreadsAssumption, ProblemAssumption
<1>2. NThreads \div PerGroup \in Nat /\ NThreads \div PerGroup <= NThreads
  <2>1. PICK q \in Nat : q = NThreads \div PerGroup /\ q * PerGroup <= NThreads
    BY <1>1, Quotient
  <2>2. PICK g \in Nat : PerGroup = g + 1
    BY <1>1
  <2>3. q * PerGroup = q * g + q /\ q * g \in Nat
    BY <2>2, Successor
  <2>4. QED
    BY <1>1, <2>1, <2>3
<1>3. QED
  BY <1>1, <1>2 DEF Optimal

-----------------------------------------------------------------------------
(* The parts of a range.                                                   *)

(* A thread beyond the team has no part in whole cache lines.              *)
LEMMA BeyondTeam ==
  ASSUME NEW N \in Nat, N > 0, NEW rg \in Nat, NEW t \in Nat, t >= N
  PROVE  FLA_Thread_get_subrange_chunks(t, N, ElemSize, rg) = Nothing
<1>1. ElemSize \in Nat
  BY ProblemAssumption
<1>2. PICK k \in Nat : k = Threshold(N, ElemSize, rg) /\ k <= N
  <2>1. CASE rg = 0
    BY <2>1 DEF Threshold
  <2>2. CASE rg > 0
    BY <1>1, <2>2, ChunkFacts
  <2>3. QED
    BY <2>1, <2>2
<1>3. QED
  BY <1>2 DEF FLA_Thread_get_subrange_chunks

(* Disjoint parts of first + 1 .. first + rg.                              *)
Apart(s, r, first, rg) ==
  s \cup r \subseteq (first + 1)..(first + rg) /\ s \cap r = {}

LEMMA TilesApart ==
  ASSUME NEW N \in Nat, NEW rg \in Nat, NEW s, Tiles(s, N, rg), NEW first \in Nat,
         NEW t \in 0..(N - 1), NEW u \in 0..(N - 1), t # u
  PROVE  Apart((first + s[t].index + 1)..(first + s[t].index + s[t].sub_range),
               (first + s[u].index + 1)..(first + s[u].index + s[u].sub_range), first, rg)
<1>1. PICK ti \in Nat, tr \in Nat, ui \in Nat, ur \in Nat :
        /\ s[t].index = ti /\ s[t].sub_range = tr /\ s[u].index = ui /\ s[u].sub_range = ur
        /\ ti + tr <= rg /\ ui + ur <= rg
  BY DEF Tiles
<1>2. ur = 0 \/ tr = 0 \/ ti + tr <= ui \/ ui + ur <= ti
  <2>1. CASE t < u
    BY <1>1, <2>1 DEF Tiles
  <2>2. CASE u < t
    BY <1>1, <2>2 DEF Tiles
  <2>3. QED
    BY <2>1, <2>2
<1>3. Apart((first + ti + 1)..(first + ti + tr), (first + ui + 1)..(first + ui + ur), first, rg)
  BY <1>1, <1>2 DEF Apart
<1>4. QED
  BY <1>1, <1>3

LEMMA LinesApart ==
  ASSUME NEW N \in Nat, N > 0, NEW rg \in Nat, NEW first \in Nat,
         NEW t \in Thread, NEW u \in Thread, t # u
  PROVE  Apart(Lines(t, N, first, rg), Lines(u, N, first, rg), first, rg)
<1>1. ElemSize \in Nat /\ t \in Nat /\ u \in Nat
  BY ProblemAssumption, NThreadsAssumption DEF Thread
<1> DEFINE s == [i \in 0..(N - 1) |-> FLA_Thread_get_subrange_chunks(i, N, ElemSize, rg)]
           r == [i \in 0..(N - 1) |-> Share(TRUE, i, N, ElemSize, rg)]
<1>2. s = r
  BY DEF Share
<1>3. Tiles(s, N, rg)
  <2>1. Tiles(r, N, rg)
    BY <1>1, SharesTile
  <2>2. QED
    BY <1>2, <2>1
<1>4. ASSUME NEW v \in Nat, v >= N
      PROVE  Lines(v, N, first, rg) = {}
  <2>1. FLA_Thread_get_subrange_chunks(v, N, ElemSize, rg) = Nothing
    BY <1>4, BeyondTeam
  <2>2. QED
    BY <2>1 DEF Lines, Nothing
<1>5. ASSUME NEW v \in 0..(N - 1)
      PROVE  Lines(v, N, first, rg)
               = (first + s[v].index + 1)..(first + s[v].index + s[v].sub_range)
  BY DEF Lines
<1>6. CASE t < N /\ u < N
  <2>1. t \in 0..(N - 1) /\ u \in 0..(N - 1)
    BY <1>1, <1>6
  <2> HIDE DEF s
  <2>2. QED
    BY <1>3, <1>5, <2>1, TilesApart
<1>7. ASSUME NEW v \in Nat
      PROVE  Lines(v, N, first, rg) \subseteq (first + 1)..(first + rg)
  <2>1. CASE v < N
    <3> HIDE DEF s
    <3>1. v \in 0..(N - 1)
      BY <2>1
    <3>2. PICK a \in Nat, b \in Nat : s[v].index = a /\ s[v].sub_range = b /\ a + b <= rg
      BY <1>3, <3>1 DEF Tiles
    <3>3. Lines(v, N, first, rg) = (first + a + 1)..(first + a + b)
      BY <1>5, <3>1, <3>2
    <3>4. QED
      BY <3>2, <3>3
  <2>2. QED
    BY <1>4, <2>1
<1>8. CASE t >= N \/ u >= N
  BY <1>1, <1>4, <1>7, <1>8 DEF Apart
<1>9. QED
  BY <1>1, <1>6, <1>8

LEMMA SharesApart ==
  ASSUME NEW rg \in Nat, NEW first \in Nat, NEW t \in Thread, NEW u \in Thread, t # u
  PROVE  Apart(Shares(t, first, rg), Shares(u, first, rg), first, rg)
<1>1. ElemSize \in Nat /\ NThreads \in Nat /\ NThreads > 0
  BY ProblemAssumption, NThreadsAssumption
<1> DEFINE s == [i \in 0..(NThreads - 1) |-> FLA_Thread_get_subrange(i, NThreads, rg)]
           r == [i \in 0..(NThreads - 1) |-> Share(FALSE, i, NThreads, ElemSize, rg)]
<1>2. s = r
  BY DEF Share
<1>3. Tiles(s, NThreads, rg)
  <2>1. Tiles(r, NThreads, rg)
    BY <1>1, SharesTile
  <2>2. QED
    BY <1>2, <2>1
<1>4. ASSUME NEW v \in Thread
      PROVE  Shares(v, first, rg)
               = (first + s[v].index + 1)..(first + s[v].index + s[v].sub_range)
  BY DEF Shares, Thread
<1> HIDE DEF s
<1>5. t \in 0..(NThreads - 1) /\ u \in 0..(NThreads - 1)
  BY DEF Thread
<1>6. QED
  BY <1>1, <1>3, <1>4, <1>5, TilesApart
-----------------------------------------------------------------------------
(* The elements of different arrays differ, and those of one array differ  *)
(* by their row or their column.                                           *)
LEMMA Elements ==
  /\ \A x, rows, cols : x \in A(rows, cols) => x[1] = "a" /\ x[2] \in rows /\ x[3] \in cols
  /\ \A x, rows, cols : x \in X(rows, cols) => x[1] = "x" /\ x[2] \in rows /\ x[3] \in cols
  /\ \A x, rows, cols : x \in Y(rows, cols) => x[1] = "y" /\ x[2] \in rows /\ x[3] \in cols
  /\ \A x, which, i : x \in Tau(which, i) => x[1] = which
  /\ \A x, cells : x \in Buffer(cells) => x[1] = "gemv_a_row_buffer" /\ x[2] \in cells
BY DEF A, X, Y, Tau, Buffer

(* Call c writes nothing that call d reads or writes.                      *)
Foreign(c, d) == c.writes \cap (d.reads \cup d.writes) = {}

(* The calls cs of one thread and ds of another in one section: all that   *)
(* they may both be making at once.                                        *)
Independent(cs, ds) ==
  \A a \in 1..Len(cs), b \in 1..Len(ds) :
    \/ cs[a].by = "nobody" \/ ds[b].by = "nobody"
    \/ cs[a].by = "single" /\ ds[b].by = "single"
    \/ Foreign(cs[a], ds[b])

(* Sections of one call and of two, of which the second may be a single    *)
(* section.                                                                *)
LEMMA OneCall ==
  ASSUME NEW c, NEW d, Foreign(c, d)
  PROVE  Independent(<<c>>, <<d>>)
BY DEF Independent

LEMMA TwoCalls ==
  ASSUME NEW c, NEW c2, NEW d, NEW d2,
         Foreign(c, d), Foreign(c, d2), Foreign(c2, d),
         Foreign(c2, d2) \/ (c2.by = "single" /\ d2.by = "single")
  PROVE  Independent(<<c, c2>>, <<d, d2>>)
BY DEF Independent

-----------------------------------------------------------------------------
(* The sections in which the team works together, for m >= n: in each the  *)
(* threads write their own part of an array, and what they read of it lies *)
(* in their own part or in rows or columns that the section leaves alone.  *)
LEMMA FinishXIndependent ==
  ASSUME NEW p \in Problem, NEW i \in 1..p.nb, NEW t \in Thread, NEW u \in Thread, t # u
  PROVE  Independent(FinishX(p, t, i), FinishX(p, u, i))
<1> DEFINE mine   == Lines(t, Optimal, i, p.m - i)
           theirs == Lines(u, Optimal, i, p.m - i)
           c      == FinishX(p, t, i)[1]
           d      == FinishX(p, u, i)[1]
<1>1. mine \cup theirs \subseteq (i + 1)..p.m /\ mine \cap theirs = {}
  <2>1. Apart(mine, theirs, i, p.m - i)
    BY Sizes, Teams, LinesApart
  <2>2. QED
    BY <2>1, Sizes DEF Apart
<1>2. /\ FinishX(p, t, i) = <<c>> /\ FinishX(p, u, i) = <<d>>
      /\ c.writes = X(mine, {i})
      /\ d.reads = X(theirs, 1..i) \cup X(1..(i - 1), {i}) \cup Tau("taup", i)
      /\ d.writes = X(theirs, {i})
  BY DEF FinishX, Team
<1> HIDE DEF mine, theirs, c, d
<1>3. Foreign(c, d)
  BY <1>1, <1>2, Sizes, Elements DEF Foreign
<1>4. QED
  BY <1>2, <1>3, OneCall

LEMMA UpdateColumnIndependent ==
  ASSUME NEW p \in Problem, NEW i \in 1..p.nb, NEW t \in Thread, NEW u \in Thread, t # u
  PROVE  Independent(UpdateColumn(p, t, i), UpdateColumn(p, u, i))
<1> DEFINE mine   == Lines(t, NThreads, i - 1, p.m - i + 1)
           theirs == Lines(u, NThreads, i - 1, p.m - i + 1)
           c      == UpdateColumn(p, t, i)[1]
           d      == UpdateColumn(p, u, i)[1]
<1>1. mine \cup theirs \subseteq i..p.m /\ mine \cap theirs = {}
  <2>1. Apart(mine, theirs, i - 1, p.m - i + 1)
    BY Sizes, Teams, LinesApart
  <2>2. QED
    BY <2>1, Sizes DEF Apart
<1>2. /\ UpdateColumn(p, t, i) = <<c>> /\ UpdateColumn(p, u, i) = <<d>>
      /\ c.writes = A(mine, {i})
      /\ d.reads = A(theirs, 1..i) \cup Y({i}, 1..(i - 1)) \cup X(theirs, 1..(i - 1))
                   \cup A(1..(i - 1), {i})
      /\ d.writes = A(theirs, {i})
  BY DEF UpdateColumn, Team
<1> HIDE DEF mine, theirs, c, d
<1>3. Foreign(c, d)
  BY <1>1, <1>2, Sizes, Elements DEF Foreign
<1>4. QED
  BY <1>2, <1>3, OneCall

LEMMA MultiplyColumnIndependent ==
  ASSUME NEW p \in Problem, NEW i \in 1..p.nb, NEW t \in Thread, NEW u \in Thread, t # u
  PROVE  Independent(MultiplyColumn(p, t, i), MultiplyColumn(p, u, i))
<1> DEFINE mine   == Lines(t, NThreads, i, p.n - i)
           theirs == Lines(u, NThreads, i, p.n - i)
           c      == MultiplyColumn(p, t, i)[1]
           c2     == MultiplyColumn(p, t, i)[2]
           d      == MultiplyColumn(p, u, i)[1]
           d2     == MultiplyColumn(p, u, i)[2]
<1>1. mine \cup theirs \subseteq (i + 1)..p.n /\ mine \cap theirs = {}
  <2>1. Apart(mine, theirs, i, p.n - i)
    BY Sizes, Teams, LinesApart
  <2>2. QED
    BY <2>1, Sizes DEF Apart
<1>2. /\ MultiplyColumn(p, t, i) = <<c, c2>> /\ MultiplyColumn(p, u, i) = <<d, d2>>
      /\ c.writes = Y(mine, {i})
      /\ c2.writes = Buffer(p.nb..(p.nb + i - 2)) \cup Buffer(0..(i - 1))
      /\ d.reads = A(i..p.m, theirs) \cup A(i..p.m, {i})
      /\ d.writes = Y(theirs, {i})
      /\ d2.reads = X(i..p.m, 1..(i - 1)) \cup A(i..p.m, {i}) \cup A({i}, 1..i)
      /\ d2.writes = Buffer(p.nb..(p.nb + i - 2)) \cup Buffer(0..(i - 1))
      /\ c2.by = "single" /\ d2.by = "single"
  BY DEF MultiplyColumn, Team, Single
<1> HIDE DEF mine, theirs, c, c2, d, d2
<1>3. Foreign(c, d)
  BY <1>1, <1>2, Sizes, Elements DEF Foreign
<1>4. Foreign(c, d2)
  BY <1>1, <1>2, Sizes, Elements DEF Foreign
<1>5. Foreign(c2, d)
  BY <1>1, <1>2, Sizes, Elements DEF Foreign
<1>6. QED
  BY <1>2, <1>3, <1>4, <1>5, TwoCalls

LEMMA ExchangeYIndependent ==
  ASSUME NEW p \in Problem, NEW i \in 1..p.nb, NEW t \in Thread, NEW u \in Thread, t # u
  PROVE  Independent(ExchangeY(p, t, i), ExchangeY(p, u, i))
<1> DEFINE mine   == Lines(t, Optimal, 0, i - 1)
           theirs == Lines(u, Optimal, 0, i - 1)
           c      == ExchangeY(p, t, i)[1]
           d      == ExchangeY(p, u, i)[1]
<1>1. mine \cup theirs \subseteq 1..(i - 1) /\ mine \cap theirs = {}
  <2>1. Apart(mine, theirs, 0, i - 1)
    BY Sizes, Teams, LinesApart
  <2>2. QED
    BY <2>1, Sizes DEF Apart
<1>2. /\ ExchangeY(p, t, i) = <<c>> /\ ExchangeY(p, u, i) = <<d>>
      /\ c.writes = Y(mine, {i}) \cup Buffer({2 * p.nb + e - 1 : e \in mine})
      /\ d.reads = A(i..p.m, theirs) \cup A(i..p.m, {i}) \cup Buffer({p.nb + e - 1 : e \in theirs})
      /\ d.writes = Y(theirs, {i}) \cup Buffer({2 * p.nb + e - 1 : e \in theirs})
  BY DEF ExchangeY, Team
<1> HIDE DEF mine, theirs, c, d
<1>3. \A e \in mine, f \in theirs :
        2 * p.nb + e - 1 # 2 * p.nb + f - 1 /\ 2 * p.nb + e - 1 # p.nb + f - 1
  BY <1>1, Sizes
<1>4. Foreign(c, d)
  <2> SUFFICES ASSUME NEW x \in c.writes, x \in d.reads \cup d.writes PROVE FALSE
    BY DEF Foreign
  <2>1. CASE x \in Y(mine, {i})
    BY <1>1, <1>2, <2>1, Elements
  <2>2. CASE x \in Buffer({2 * p.nb + e - 1 : e \in mine})
    <3>1. PICK e \in mine : x[2] = 2 * p.nb + e - 1 /\ x[1] = "gemv_a_row_buffer"
      BY <2>2, Elements
    <3>2. \/ x[2] \in {p.nb + f - 1 : f \in theirs}
          \/ x[2] \in {2 * p.nb + f - 1 : f \in theirs}
      BY <1>2, <3>1, Elements
    <3>3. QED
      BY <1>3, <3>1, <3>2
  <2>3. QED
    BY <1>2, <2>1, <2>2
<1>5. QED
  BY <1>2, <1>4, OneCall

LEMMA UpdateYIndependent ==
  ASSUME NEW p \in Problem, NEW i \in 1..p.nb, NEW t \in Thread, NEW u \in Thread, t # u
  PROVE  Independent(UpdateY(p, t, i), UpdateY(p, u, i))
<1> DEFINE mine   == Lines(t, Optimal, i, p.n - i)
           theirs == Lines(u, Optimal, i, p.n - i)
           c      == UpdateY(p, t, i)[1]
           c2     == UpdateY(p, t, i)[2]
           d      == UpdateY(p, u, i)[1]
           d2     == UpdateY(p, u, i)[2]
<1>1. mine \cup theirs \subseteq (i + 1)..p.n /\ mine \cap theirs = {}
  <2>1. Apart(mine, theirs, i, p.n - i)
    BY Sizes, Teams, LinesApart
  <2>2. QED
    BY <2>1, Sizes DEF Apart
<1>2. /\ UpdateY(p, t, i) = <<c, c2>> /\ UpdateY(p, u, i) = <<d, d2>>
      /\ c.writes = Y(mine, {i})
      /\ c2.writes = Y(mine, {i})
      /\ d.reads = Y(theirs, 1..i) \cup Buffer((2 * p.nb)..(2 * p.nb + i - 2))
      /\ d.writes = Y(theirs, {i})
      /\ d2.reads = A(1..(i - 1), theirs) \cup Buffer(p.nb..(p.nb + i - 2)) \cup Y(theirs, {i})
                    \cup Tau("tauq", i)
      /\ d2.writes = Y(theirs, {i})
  BY DEF UpdateY, Team
<1> HIDE DEF mine, theirs, c, c2, d, d2
<1>3. Foreign(c, d)
  BY <1>1, <1>2, Sizes, Elements DEF Foreign
<1>4. Foreign(c, d2)
  BY <1>1, <1>2, Sizes, Elements DEF Foreign
<1>5. Foreign(c2, d)
  BY <1>1, <1>2, Sizes, Elements DEF Foreign
<1>6. Foreign(c2, d2)
  BY <1>1, <1>2, Sizes, Elements DEF Foreign
<1>7. QED
  BY <1>2, <1>3, <1>4, <1>5, <1>6, TwoCalls

LEMMA UpdateRowIndependent ==
  ASSUME NEW p \in Problem, NEW i \in 1..p.nb, NEW t \in Thread, NEW u \in Thread, t # u
  PROVE  Independent(UpdateRow(p, t, i), UpdateRow(p, u, i))
<1> DEFINE mine   == Lines(t, Optimal, i, p.n - i)
           theirs == Lines(u, Optimal, i, p.n - i)
           c      == UpdateRow(p, t, i)[1]
           d      == UpdateRow(p, u, i)[1]
<1>1. mine \cup theirs \subseteq (i + 1)..p.n /\ mine \cap theirs = {}
  <2>1. Apart(mine, theirs, i, p.n - i)
    BY Sizes, Teams, LinesApart
  <2>2. QED
    BY <2>1, Sizes DEF Apart
<1>2. /\ UpdateRow(p, t, i) = <<c>> /\ UpdateRow(p, u, i) = <<d>>
      /\ c.writes = A({i}, mine)
      /\ d.reads = Y(theirs, 1..i) \cup Buffer(0..(i - 1)) \cup A(1..i, theirs)
                     \cup X({i}, 1..(i - 1))
      /\ d.writes = A({i}, theirs)
  BY DEF UpdateRow, Team
<1> HIDE DEF mine, theirs, c, d
<1>3. Foreign(c, d)
  BY <1>1, <1>2, Sizes, Elements DEF Foreign
<1>4. QED
  BY <1>2, <1>3, OneCall

LEMMA MultiplyRowIndependent ==
  ASSUME NEW p \in Problem, NEW i \in 1..p.nb, NEW t \in Thread, NEW u \in Thread, t # u
  PROVE  Independent(MultiplyRow(p, t, i), MultiplyRow(p, u, i))
<1> DEFINE mine    == Lines(t, NThreads, i, p.m - i)
           theirs  == Lines(u, NThreads, i, p.m - i)
           mine2   == Lines(t, Optimal, 0, i)
           theirs2 == Lines(u, Optimal, 0, i)
           c       == MultiplyRow(p, t, i)[1]
           c2      == MultiplyRow(p, t, i)[2]
           d       == MultiplyRow(p, u, i)[1]
           d2      == MultiplyRow(p, u, i)[2]
<1>1. mine \cup theirs \subseteq (i + 1)..p.m /\ mine \cap theirs = {}
  <2>1. Apart(mine, theirs, i, p.m - i)
    BY Sizes, Teams, LinesApart
  <2>2. QED
    BY <2>1, Sizes DEF Apart
<1>2. mine2 \cup theirs2 \subseteq 1..i /\ mine2 \cap theirs2 = {}
  <2>1. Apart(mine2, theirs2, 0, i)
    BY Sizes, Teams, LinesApart
  <2>2. QED
    BY <2>1, Sizes DEF Apart
<1>3. /\ MultiplyRow(p, t, i) = <<c, c2>> /\ MultiplyRow(p, u, i) = <<d, d2>>
      /\ c.writes = X(mine, {i})
      /\ c2.writes = X(mine2, {i}) \cup Buffer({p.n + e - 1 : e \in mine2})
      /\ d.reads = A(theirs, (i + 1)..p.n) \cup Buffer(0..(p.n - i - 1))
      /\ d.writes = X(theirs, {i})
      /\ d2.reads = Y((i + 1)..p.n, theirs2) \cup A({i}, (i + 1)..p.n)
      /\ d2.writes = X(theirs2, {i}) \cup Buffer({p.n + e - 1 : e \in theirs2})
  BY DEF MultiplyRow, Team
<1> HIDE DEF mine, theirs, mine2, theirs2, c, c2, d, d2
<1>4. Foreign(c, d)
  BY <1>1, <1>2, <1>3, Sizes, Elements DEF Foreign
<1>5. Foreign(c, d2)
  BY <1>1, <1>2, <1>3, Sizes, Elements DEF Foreign
<1>6. Foreign(c2, d)
  BY <1>1, <1>2, <1>3, Sizes, Elements, SMTT(30) DEF Foreign
<1>7. Foreign(c2, d2)
  BY <1>1, <1>2, <1>3, Sizes, Elements DEF Foreign
<1>8. QED
  BY <1>3, <1>4, <1>5, <1>6, <1>7, TwoCalls

LEMMA UpdateXIndependent ==
  ASSUME NEW p \in Problem, NEW i \in 1..p.nb, NEW t \in Thread, NEW u \in Thread, t # u
  PROVE  Independent(UpdateX(p, t, i), UpdateX(p, u, i))
<1> DEFINE mine    == Lines(t, Optimal, i, p.m - i)
           theirs  == Lines(u, Optimal, i, p.m - i)
           mine2   == Lines(t, Optimal, 0, i - 1)
           theirs2 == Lines(u, Optimal, 0, i - 1)
           c       == UpdateX(p, t, i)[1]
           c2      == UpdateX(p, t, i)[2]
           d       == UpdateX(p, u, i)[1]
           d2      == UpdateX(p, u, i)[2]
<1>1. mine \cup theirs \subseteq (i + 1)..p.m /\ mine \cap theirs = {}
  <2>1. Apart(mine, theirs, i, p.m - i)
    BY Sizes, Teams, LinesApart
  <2>2. QED
    BY <2>1, Sizes DEF Apart
<1>2. mine2 \cup theirs2 \subseteq 1..(i - 1) /\ mine2 \cap theirs2 = {}
  <2>1. Apart(mine2, theirs2, 0, i - 1)
    BY Sizes, Teams, LinesApart
  <2>2. QED
    BY <2>1, Sizes DEF Apart
<1>3. /\ UpdateX(p, t, i) = <<c, c2>> /\ UpdateX(p, u, i) = <<d, d2>>
      /\ c.writes = X(mine, {i})
      /\ c2.writes = X(mine2, {i})
      /\ d.reads = A(theirs, 1..i) \cup Buffer(p.n..(p.n + i - 1)) \cup X(theirs, {i})
      /\ d.writes = X(theirs, {i})
      /\ d2.reads = A(theirs2, (i + 1)..p.n) \cup A({i}, (i + 1)..p.n)
      /\ d2.writes = X(theirs2, {i})
  BY DEF UpdateX, Team
<1> HIDE DEF mine, theirs, mine2, theirs2, c, c2, d, d2
<1>4. Foreign(c, d)
  BY <1>1, <1>2, <1>3, Sizes, Elements DEF Foreign
<1>5. Foreign(c, d2)
  BY <1>1, <1>2, <1>3, Sizes, Elements DEF Foreign
<1>6. Foreign(c2, d)
  BY <1>1, <1>2, <1>3, Sizes, Elements DEF Foreign
<1>7. Foreign(c2, d2)
  BY <1>1, <1>2, <1>3, Sizes, Elements DEF Foreign
<1>8. QED
  BY <1>3, <1>4, <1>5, <1>6, <1>7, TwoCalls

-----------------------------------------------------------------------------
(* The same for m < n: the two products with the whole matrix.             *)
LEMMA WideXIndependent ==
  ASSUME NEW p \in Problem, NEW i \in 1..p.nb, NEW t \in Thread, NEW u \in Thread, t # u
  PROVE  Independent(WideX(p, t, i), WideX(p, u, i))
<1> DEFINE mine   == Shares(t, i, p.m - i)
           theirs == Shares(u, i, p.m - i)
           c      == WideX(p, t, i)[1]
           d      == WideX(p, u, i)[1]
<1>1. mine \cup theirs \subseteq (i + 1)..p.m /\ mine \cap theirs = {}
  <2>1. Apart(mine, theirs, i, p.m - i)
    BY Sizes, SharesApart
  <2>2. QED
    BY <2>1, Sizes DEF Apart
<1>2. /\ WideX(p, t, i) = <<c>> /\ WideX(p, u, i) = <<d>>
      /\ c.writes = X(mine, {i})
      /\ d.reads = A(theirs, i..p.n) \cup A({i}, i..p.n)
      /\ d.writes = X(theirs, {i})
  BY DEF WideX, Team
<1> HIDE DEF mine, theirs, c, d
<1>3. Foreign(c, d)
  BY <1>1, <1>2, Sizes, Elements DEF Foreign
<1>4. QED
  BY <1>2, <1>3, OneCall

LEMMA WideYIndependent ==
  ASSUME NEW p \in Problem, NEW i \in 1..p.nb, NEW t \in Thread, NEW u \in Thread, t # u
  PROVE  Independent(WideY(p, t, i), WideY(p, u, i))
<1> DEFINE mine   == Shares(t, i, p.n - i)
           theirs == Shares(u, i, p.n - i)
           c      == WideY(p, t, i)[1]
           d      == WideY(p, u, i)[1]
<1>1. mine \cup theirs \subseteq (i + 1)..p.n /\ mine \cap theirs = {}
  <2>1. Apart(mine, theirs, i, p.n - i)
    BY Sizes, SharesApart
  <2>2. QED
    BY <2>1, Sizes DEF Apart
<1>2. /\ WideY(p, t, i) = <<c>> /\ WideY(p, u, i) = <<d>>
      /\ c.writes = Y(mine, {i})
      /\ d.reads = A((i + 1)..p.m, theirs) \cup A((i + 1)..p.m, {i})
      /\ d.writes = Y(theirs, {i})
  BY DEF WideY, Team
<1> HIDE DEF mine, theirs, c, d
<1>3. Foreign(c, d)
  BY <1>1, <1>2, Sizes, Elements DEF Foreign
<1>4. QED
  BY <1>2, <1>3, OneCall
-----------------------------------------------------------------------------
(* The calls cs of thread t are none unless it is thread 0.                *)
Alone0(cs, t) == t # 0 => \A a \in 1..Len(cs) : cs[a].by = "nobody"

LEMMA OneAlone ==
  ASSUME NEW t \in Thread, NEW u \in Thread, t # u, NEW cs, NEW ds, Alone0(cs, t), Alone0(ds, u)
  PROVE  Independent(cs, ds)
BY DEF Alone0, Independent

LEMMA OnlyThread0 ==
  ASSUME NEW p \in Problem, NEW t \in Thread, NEW i
  PROVE  /\ Alone0(ReflectColumn(p, t, i), t) /\ Alone0(ReflectRow(p, t, i), t)
         /\ Alone0(WideColumn(p, t, i), t) /\ Alone0(WideCalls(p, t, i, 0), t)
<1>1. ASSUME NEW c, t # 0 => c.by = "nobody"
      PROVE  Alone0(<<c>>, t)
  BY <1>1 DEF Alone0
<1>2. Alone0(ReflectColumn(p, t, i), t)
  <2> DEFINE c == ReflectColumn(p, t, i)[1]
  <2>1. ReflectColumn(p, t, i) = <<c>> /\ (t # 0 => c.by = "nobody")
    BY DEF ReflectColumn, Only
  <2> HIDE DEF c
  <2>2. QED
    BY <1>1, <2>1
<1>3. Alone0(ReflectRow(p, t, i), t)
  <2> DEFINE c == ReflectRow(p, t, i)[1]
  <2>1. ReflectRow(p, t, i) = <<c>> /\ (t # 0 => c.by = "nobody")
    BY DEF ReflectRow, Only
  <2> HIDE DEF c
  <2>2. QED
    BY <1>1, <2>1
<1>4. Alone0(WideColumn(p, t, i), t)
  <2> DEFINE c == WideColumn(p, t, i)[1]
  <2>1. WideColumn(p, t, i) = <<c>> /\ (t # 0 => c.by = "nobody")
    BY DEF WideColumn, Only
  <2> HIDE DEF c
  <2>2. QED
    BY <1>1, <2>1
<1>5. Alone0(WideCalls(p, t, i, 0), t)
  <2> DEFINE c == FinishWideY(p, t, i - 1)[1]
             d == WideRow(p, t, i)[1]
  <2>1. /\ FinishWideY(p, t, i - 1) = <<c>> /\ WideRow(p, t, i) = <<d>>
        /\ t # 0 => c.by = "nobody" /\ d.by = "nobody"
    BY DEF FinishWideY, WideRow, Only
  <2>2. WideCalls(p, t, i, 0) = (IF i > 1 THEN FinishWideY(p, t, i - 1) ELSE <<>>)
                                  \o (IF i <= p.nb THEN WideRow(p, t, i) ELSE <<>>)
    <3>1. 0 # 1 /\ 0 # 2 /\ 0 # 3
      OBVIOUS
    <3>2. QED
      BY <3>1, Zenon DEF WideCalls
  <2> HIDE DEF c, d
  <2> DEFINE first == IF i > 1 THEN <<c>> ELSE <<>>
             rest  == IF i <= p.nb THEN <<d>> ELSE <<>>
  <2>3. WideCalls(p, t, i, 0) = first \o rest
    BY <2>1, <2>2
  <2>4. first \in Seq({c, d}) /\ rest \in Seq({c, d})
    <3>1. <<c>> \in Seq({c, d}) /\ <<d>> \in Seq({c, d}) /\ <<>> \in Seq({c, d})
      OBVIOUS
    <3>2. QED
      BY <3>1, Zenon
  <2>5. \A a \in 1..Len(first \o rest) : (first \o rest)[a] \in {c, d}
    <3> HIDE DEF first, rest
    <3>1. first \o rest \in Seq({c, d})
      BY <2>4
    <3>2. QED
      BY <3>1
  <2>6. QED
    BY <2>1, <2>3, <2>5 DEF Alone0
<1>6. QED
  BY <1>2, <1>3, <1>4, <1>5

-----------------------------------------------------------------------------
(* The column and the step that a section belongs to.                      *)
LEMMA Steps ==
  ASSUME NEW p \in Problem, NEW s \in Nat, s <= Barriers(p)
  PROVE  /\ Tall(p) => \E i \in 1..(p.nb + 1), k \in 0..9 :
              i = Column(p, s) /\ k = s % 10 /\ (k > 0 => i <= p.nb)
         /\ ~Tall(p) => \E i \in 1..(p.nb + 1), k \in 0..3 :
              i = Column(p, s) /\ k = s % 4 /\ (k > 0 => i <= p.nb)
<1>1. p.nb \in Nat
  BY Sizes
<1>2. CASE Tall(p)
  <2>1. s <= 10 * p.nb /\ Column(p, s) = s \div 10 + 1
    BY <1>2 DEF Barriers, PerColumn, Column
  <2>2. QED
    BY <1>1, <1>2, <2>1, Z3
<1>3. CASE ~Tall(p)
  <2>1. s <= 4 * p.nb /\ Column(p, s) = s \div 4 + 1
    BY <1>3 DEF Barriers, PerColumn, Column
  <2>2. QED
    BY <1>1, <1>3, <2>1, Z3
<1>4. QED
  BY <1>2, <1>3

LEMMA TallIndependent ==
  ASSUME NEW p \in Problem, NEW i \in 1..(p.nb + 1), NEW k \in 0..9, k > 0 => i <= p.nb,
         NEW t \in Thread, NEW u \in Thread, t # u
  PROVE  Independent(TallCalls(p, t, i, k), TallCalls(p, u, i, k))
<1>1. p.nb \in Nat
  BY Sizes
<1>2. CASE k = 0 /\ i > 1
  <2>1. i - 1 \in 1..p.nb
    BY <1>1, <1>2
  <2>2. \A v \in Thread : TallCalls(p, v, i, k) = FinishX(p, v, i - 1)
    BY <1>2 DEF TallCalls
  <2>3. QED
    BY <2>1, <2>2, FinishXIndependent
<1>3. CASE k = 0 /\ i = 1
  BY <1>3 DEF TallCalls, Independent
<1>4. CASE k > 0
  <2>1. i \in 1..p.nb
    BY <1>1, <1>4
  <2>2. CASE k = 1
    BY <2>1, <2>2, UpdateColumnIndependent DEF TallCalls
  <2>3. CASE k = 2
    BY <2>1, <2>3, OneAlone, OnlyThread0 DEF TallCalls
  <2>4. CASE k = 3
    BY <2>1, <2>4, MultiplyColumnIndependent DEF TallCalls
  <2>5. CASE k = 4
    BY <2>1, <2>5, ExchangeYIndependent DEF TallCalls
  <2>6. CASE k = 5
    BY <2>1, <2>6, UpdateYIndependent DEF TallCalls
  <2>7. CASE k = 6
    BY <2>1, <2>7, UpdateRowIndependent DEF TallCalls
  <2>8. CASE k = 7
    BY <2>1, <2>8, OneAlone, OnlyThread0 DEF TallCalls
  <2>9. CASE k = 8
    BY <2>1, <2>9, MultiplyRowIndependent DEF TallCalls
  <2>10. CASE k = 9
    BY <2>1, <2>10, UpdateXIndependent DEF TallCalls
  <2>11. QED
    BY <1>4, <2>2, <2>3, <2>4, <2>5, <2>6, <2>7, <2>8, <2>9, <2>10
<1>5. QED
  BY <1>1, <1>2, <1>3, <1>4

LEMMA WideIndependent ==
  ASSUME NEW p \in Problem, NEW i \in 1..(p.nb + 1), NEW k \in 0..3, k > 0 => i <= p.nb,
         NEW t \in Thread, NEW u \in Thread, t # u
  PROVE  Independent(WideCalls(p, t, i, k), WideCalls(p, u, i, k))
<1>1. CASE k = 0
  BY <1>1, OneAlone, OnlyThread0
<1>2. CASE k > 0
  <2>1. i \in 1..p.nb
    BY <1>2, Sizes
  <2>2. CASE k = 1
    BY <2>1, <2>2, WideXIndependent DEF WideCalls
  <2>3. CASE k = 2
    BY <2>1, <2>3, OneAlone, OnlyThread0 DEF WideCalls
  <2>4. CASE k = 3
    BY <2>1, <2>4, WideYIndependent DEF WideCalls
  <2>5. QED
    BY <1>2, <2>2, <2>3, <2>4
<1>3. QED
  BY <1>1, <1>2

(* In every section the calls of two threads are independent.              *)
LEMMA SectionIndependent ==
  ASSUME NEW p \in Problem, NEW s \in Nat, NEW t \in Thread, NEW u \in Thread, t # u
  PROVE  Independent(CallsIn(p, t, s), CallsIn(p, u, s))
<1>1. Barriers(p) \in Nat
  BY Sizes DEF Barriers, PerColumn
<1>2. CASE s > Barriers(p)
  <2>1. CallsIn(p, t, s) = <<>>
    BY <1>1, <1>2 DEF CallsIn
  <2>2. QED
    BY <2>1 DEF Independent
<1>3. CASE s <= Barriers(p) /\ Tall(p)
  <2>1. PICK i \in 1..(p.nb + 1), k \in 0..9 :
          i = Column(p, s) /\ k = s % 10 /\ (k > 0 => i <= p.nb)
    BY <1>3, Steps
  <2>2. \A v \in Thread : CallsIn(p, v, s) = TallCalls(p, v, i, k)
    BY <1>1, <1>3, <2>1 DEF CallsIn
  <2>3. QED
    BY <2>1, <2>2, TallIndependent
<1>4. CASE s <= Barriers(p) /\ ~Tall(p)
  <2>1. PICK i \in 1..(p.nb + 1), k \in 0..3 :
          i = Column(p, s) /\ k = s % 4 /\ (k > 0 => i <= p.nb)
    BY <1>4, Steps
  <2>2. \A v \in Thread : CallsIn(p, v, s) = WideCalls(p, v, i, k)
    BY <1>1, <1>4, <2>1 DEF CallsIn
  <2>3. QED
    BY <2>1, <2>2, WideIndependent
<1>5. QED
  BY <1>1, <1>2, <1>3, <1>4

-----------------------------------------------------------------------------
(* The team uses the barrier as FLA_Barrier says: its threads wait at it   *)
(* between the sections, and nothing else touches its fields.              *)
THEOREM UsesBarrier == LabrdSpec => Spec
<1>1. Begin => Init
  BY DEF Begin
<1>2. [LabrdNext]_labrdVars => [Next]_vars
  BY DEF LabrdNext, Work, EnterSingle, MakeCall, SkipCall, BarrierWait, Returned, Next,
         labrdVars
<1>3. QED
  BY <1>1, <1>2, PTL DEF LabrdSpec, Spec

(* What a thread's place in the code says.                                 *)
Place ==
  /\ prob \in Problem
  /\ call \in [Thread -> Nat \ {0}]
  /\ \A t \in Thread : passed[t] <= MaxRounds /\ (pc[t] # "outside" => passed[t] < MaxRounds)

LEMMA PlaceKept == ASSUME Types, Types', Place, [LabrdNext]_labrdVars PROVE Place'
<1>1. CASE UNCHANGED vars /\ UNCHANGED <<prob, call>>
  BY <1>1 DEF Place, vars
<1>2. ASSUME NEW t \in Thread, MakeCall(t) \/ SkipCall(t)
      PROVE  Place'
  <2>1. UNCHANGED vars /\ UNCHANGED prob
    BY <1>2 DEF MakeCall, SkipCall
  <2>2. call' = [call EXCEPT ![t] = @ + 1]
    BY <1>2 DEF MakeCall, SkipCall
  <2>3. QED
    BY <2>1, <2>2 DEF Place, vars
<1>3. ASSUME NEW t \in Thread, BarrierWait(t)
      PROVE  Place'
  <2>1. UNCHANGED prob /\ call' \in [Thread -> Nat \ {0}]
    BY <1>3 DEF BarrierWait, Place
  <2>2. \A v \in Thread : passed'[v] <= MaxRounds /\ (pc'[v] # "outside" => passed'[v] < MaxRounds)
    BY <1>3, MaxRoundsAssumption
       DEF BarrierWait, Place, Types, Step, Enter, Sync, Arrive, Reset, Publish, Release,
           Wait, Goto, Leave
  <2>3. QED
    BY <2>1, <2>2 DEF Place
<1>4. QED
  BY <1>1, <1>2, <1>3 DEF LabrdNext, Work, EnterSingle, Returned, labrdVars

LEMMA PlaceHolds == LabrdSpec => [](IInv /\ Place)
<1>1. Begin => Place
  BY MaxRoundsAssumption DEF Begin, Init, Place
<1>2. IInv => Types
  BY DEF IInv
<1>3. IInv /\ IInv' /\ Place /\ [LabrdNext]_labrdVars => Place'
  <2>1. IInv' => Types'
    BY DEF IInv
  <2>2. QED
    BY <1>2, <2>1, PlaceKept
<1>4. LabrdSpec => []IInv
  BY UsesBarrier, Invariance, PTL
<1>5. QED
  BY <1>1, <1>3, <1>4, PTL DEF LabrdSpec

(* The threads of fla_dlabrd_var1 never write an element while another one *)
(* reads or writes it, however many there are and however large the matrix *)
(* is.                                                                     *)
THEOREM LabrdRaceFree == LabrdSpec => []NoDataRace
<1>1. ASSUME IInv, Place
      PROVE  NoDataRace
  <2> SUFFICES ASSUME NEW t \in Thread, NEW u \in Thread, t # u, Performing(t), Performing(u)
               PROVE  Foreign(Current(t), Current(u))
    BY DEF NoDataRace, Foreign
  <2>1. pc[t] = "outside" /\ pc[u] = "outside" /\ passed[t] = passed[u]
    BY <1>1 DEF IInv, Rounds, Types, Leaving, Present, Performing, AtCall
  <2>2. PICK s \in 0..MaxRounds : s = passed[t] /\ s = passed[u]
    BY <1>1, <2>1, MaxRoundsAssumption DEF IInv, Types, Place
  <2>3. Calls(t) = CallsIn(prob, t, s) /\ Calls(u) = CallsIn(prob, u, s)
    BY <1>1, <2>2 DEF Place, Calls, CallTable
  <2>4. Independent(Calls(t), Calls(u))
    BY <1>1, <2>2, <2>3, SectionIndependent DEF Place
  <2>5. call[t] \in 1..Len(Calls(t)) /\ call[u] \in 1..Len(Calls(u))
    BY <1>1 DEF Place, Performing, AtCall
  <2>6. Current(t).by # "nobody" /\ Current(u).by # "nobody"
    BY DEF Performing, Makes
  <2>7. ~(Current(t).by = "single" /\ Current(u).by = "single")
    BY <2>2 DEF Performing, Makes, Here
  <2>8. QED
    BY <2>4, <2>5, <2>6, <2>7 DEF Independent, Current
<1>2. QED
  BY <1>1, PlaceHolds, PTL

-----------------------------------------------------------------------------
(* The row buffer.                                                         *)
IsCell(x) == x[1] = "gemv_a_row_buffer"

(* The cells that a section of column i fills, and the call that does it.  *)
Fills(p, i, k) ==
  CASE k = 3 -> (p.nb..(p.nb + i - 2)) \cup (0..(i - 1))
    [] k = 4 -> (2 * p.nb)..(2 * p.nb + i - 2)
    [] k = 7 -> 0..(p.n - i - 1)
    [] k = 8 -> p.n..(p.n + i - 1)
    [] OTHER -> {}

Filler(k) ==
  CASE k = 3 -> "buffer x a" [] k = 4 -> "exchange y" [] k = 7 -> "larfg p" [] k = 8 -> "buffer y a"

Fillers == {"buffer x a", "exchange y", "larfg p", "buffer y a"}

(* What holds of call q of section k: it fills only cells of its section,  *)
(* and those that it reads have been filled by the call it expects in an   *)
(* earlier section of the column, and by none since.                       *)
Orderly(c, p, i, k, q) ==
  /\ \A x \in c.writes : IsCell(x) => k \in {3, 4, 7, 8} /\ x[2] \in Fills(p, i, k) /\ c.name = Filler(k)
  /\ c.by = "single" => k = 3 /\ q = 2
  /\ \A x \in c.reads : IsCell(x) =>
       \E f \in {3, 4, 7, 8} :
         /\ f < k /\ x[2] \in Fills(p, i, f) /\ FilledBy[c.name] = Filler(f)
         /\ \A l \in (f + 1)..k : x[2] \notin Fills(p, i, l)

LEMMA OneOrderly ==
  ASSUME NEW p, NEW i, NEW k, NEW c, Orderly(c, p, i, k, 1)
  PROVE  \A q \in 1..Len(<<c>>) : Orderly(<<c>>[q], p, i, k, q)
<1>1. \A q \in 1..Len(<<c>>) : q = 1 /\ <<c>>[1] = c
  OBVIOUS
<1> QED
  BY <1>1

LEMMA TwoOrderly ==
  ASSUME NEW p, NEW i, NEW k, NEW c, NEW d, Orderly(c, p, i, k, 1), Orderly(d, p, i, k, 2)
  PROVE  \A q \in 1..Len(<<c, d>>) : Orderly(<<c, d>>[q], p, i, k, q)
<1>1. \A q \in 1..Len(<<c, d>>) : q \in {1, 2} /\ <<c, d>>[1] = c /\ <<c, d>>[2] = d
  OBVIOUS
<1> QED
  BY <1>1

(* A call that leaves the buffer alone.                                    *)
LEMMA NoCells ==
  ASSUME NEW p, NEW i, NEW k, NEW c, NEW q, c.by # "single",
         \A x \in c.reads \cup c.writes : ~IsCell(x)
  PROVE  Orderly(c, p, i, k, q)
BY DEF Orderly

(* The parts of the threads lie in the range, and cover it when the team   *)
(* is not larger than the whole one.                                       *)
LEMMA LinesCover ==
  ASSUME NEW N \in Nat, N > 0, NEW rg \in Nat, NEW first \in Nat
  PROVE  /\ \A t \in Thread : Lines(t, N, first, rg) \subseteq (first + 1)..(first + rg)
         /\ N <= NThreads =>
              \A e \in (first + 1)..(first + rg) : \E t \in Thread : e \in Lines(t, N, first, rg)
<1>1. ElemSize \in Nat /\ NThreads \in Nat /\ \A t \in Thread : t \in Nat
  BY ProblemAssumption, NThreadsAssumption DEF Thread
<1> DEFINE s == [i \in 0..(N - 1) |-> FLA_Thread_get_subrange_chunks(i, N, ElemSize, rg)]
           r == [i \in 0..(N - 1) |-> Share(TRUE, i, N, ElemSize, rg)]
<1>2. s = r
  BY DEF Share
<1>3. Tiles(s, N, rg)
  <2>1. Tiles(r, N, rg)
    BY <1>1, SharesTile
  <2> QED
    BY <1>2, <2>1
<1>4. ASSUME NEW v \in Nat, v >= N
      PROVE  Lines(v, N, first, rg) = {}
  <2>1. FLA_Thread_get_subrange_chunks(v, N, ElemSize, rg) = Nothing
    BY <1>4, BeyondTeam
  <2> QED
    BY <2>1 DEF Lines, Nothing
<1>5. ASSUME NEW v \in 0..(N - 1)
      PROVE  \E a \in Nat, b \in Nat : /\ s[v].index = a /\ s[v].sub_range = b /\ a + b <= rg
                                       /\ Lines(v, N, first, rg) = (first + a + 1)..(first + a + b)
  <2>1. Lines(v, N, first, rg) = (first + s[v].index + 1)..(first + s[v].index + s[v].sub_range)
    BY DEF Lines
  <2> HIDE DEF s
  <2>2. PICK a \in Nat, b \in Nat : s[v].index = a /\ s[v].sub_range = b /\ a + b <= rg
    BY <1>3 DEF Tiles
  <2> QED
    BY <2>1, <2>2
<1> HIDE DEF s
<1>6. ASSUME NEW t \in Thread PROVE Lines(t, N, first, rg) \subseteq (first + 1)..(first + rg)
  <2>1. CASE t < N
    <3>1. t \in 0..(N - 1)
      BY <1>1, <2>1
    <3> QED
      BY <1>5, <3>1
  <2>2. CASE t >= N
    BY <1>1, <1>4, <2>2
  <2> QED
    BY <1>1, <2>1, <2>2
<1>7. ASSUME N <= NThreads, NEW e \in (first + 1)..(first + rg)
      PROVE  \E t \in Thread : e \in Lines(t, N, first, rg)
  <2>1. e - first - 1 \in 0..(rg - 1)
    OBVIOUS
  <2>2. PICK t \in 0..(N - 1) : s[t].index <= e - first - 1 /\ e - first - 1 < s[t].index + s[t].sub_range
    BY <1>3, <2>1 DEF Tiles
  <2>3. t \in Thread
    BY <1>1, <1>7 DEF Thread
  <2>4. PICK a \in Nat, b \in Nat : /\ s[t].index = a /\ s[t].sub_range = b
                                    /\ Lines(t, N, first, rg) = (first + a + 1)..(first + a + b)
    BY <1>5
  <2>5. e \in Lines(t, N, first, rg)
    BY <2>2, <2>4
  <2> QED
    BY <2>3, <2>5
<1> QED
  BY <1>6, <1>7

(* Which elements are cells of the buffer.                                 *)
LEMMA WhichCells ==
  /\ \A x, rows, cols : x \in A(rows, cols) => ~IsCell(x)
  /\ \A x, rows, cols : x \in X(rows, cols) => ~IsCell(x)
  /\ \A x, rows, cols : x \in Y(rows, cols) => ~IsCell(x)
  /\ \A x, i : x \in Tau("tauq", i) => ~IsCell(x)
  /\ \A x, i : x \in Tau("taup", i) => ~IsCell(x)
  /\ \A x, cells : x \in Buffer(cells) => IsCell(x) /\ x[2] \in cells
BY Elements DEF IsCell

(* Only the second call of section 3 is made in a single section.          *)
LEMMA NotSingle ==
  ASSUME NEW name, NEW part, NEW reads, NEW writes, NEW t
  PROVE  /\ Team(name, part, reads, writes).by # "single"
         /\ Only(t, name, reads, writes).by # "single"
BY DEF Team, Only

(* The cells that each section fills.                                      *)
LEMMA Filled ==
  ASSUME NEW p, NEW i
  PROVE  /\ \A k \in {0, 1, 2, 5, 6, 9} : Fills(p, i, k) = {}
         /\ Fills(p, i, 3) = (p.nb..(p.nb + i - 2)) \cup (0..(i - 1)) /\ Filler(3) = "buffer x a"
         /\ Fills(p, i, 4) = (2 * p.nb)..(2 * p.nb + i - 2) /\ Filler(4) = "exchange y"
         /\ Fills(p, i, 7) = 0..(p.n - i - 1) /\ Filler(7) = "larfg p"
         /\ Fills(p, i, 8) = p.n..(p.n + i - 1) /\ Filler(8) = "buffer y a"
<1>1. ASSUME NEW k \in {0, 1, 2, 5, 6, 9} PROVE Fills(p, i, k) = {}
  BY <1>1 DEF Fills
<1>2. Fills(p, i, 3) = (p.nb..(p.nb + i - 2)) \cup (0..(i - 1))
  BY DEF Fills
<1>3. Fills(p, i, 4) = (2 * p.nb)..(2 * p.nb + i - 2)
  BY DEF Fills
<1>4. Fills(p, i, 7) = 0..(p.n - i - 1)
  BY DEF Fills
<1>5. Fills(p, i, 8) = p.n..(p.n + i - 1)
  BY DEF Fills
<1>6. Filler(3) = "buffer x a" /\ Filler(4) = "exchange y" /\ Filler(7) = "larfg p" /\ Filler(8) = "buffer y a"
  BY DEF Filler
<1> QED
  BY <1>1, <1>2, <1>3, <1>4, <1>5, <1>6

LEMMA Expected ==
  /\ FilledBy["exchange y"] = "buffer x a" /\ FilledBy["update y by a"] = "buffer x a"
  /\ FilledBy["update a row"] = "buffer x a" /\ FilledBy["update y by y"] = "exchange y"
  /\ FilledBy["x"] = "larfg p" /\ FilledBy["update x"] = "buffer y a"
BY DEF FilledBy

(* A call that only reads cells, all of them filled in section f.          *)
LEMMA ReadsOnly ==
  ASSUME NEW p, NEW i, NEW k, NEW c, NEW q, c.by # "single",
         \A x \in c.writes : ~IsCell(x),
         NEW f \in {3, 4, 7, 8}, f < k, FilledBy[c.name] = Filler(f),
         \A x \in c.reads : IsCell(x) =>
           x[2] \in Fills(p, i, f) /\ \A l \in (f + 1)..k : x[2] \notin Fills(p, i, l)
  PROVE  Orderly(c, p, i, k, q)
BY DEF Orderly

(* The sections that leave the buffer alone.                               *)
LEMMA PlainOrderly ==
  ASSUME NEW p, NEW t, NEW i, NEW j, NEW k
  PROVE  /\ \A q \in 1..Len(FinishX(p, t, i)) : Orderly(FinishX(p, t, i)[q], p, j, k, q)
         /\ \A q \in 1..Len(UpdateColumn(p, t, i)) : Orderly(UpdateColumn(p, t, i)[q], p, i, k, q)
         /\ \A q \in 1..Len(ReflectColumn(p, t, i)) : Orderly(ReflectColumn(p, t, i)[q], p, i, k, q)
<1>1. \A q \in 1..Len(FinishX(p, t, i)) : Orderly(FinishX(p, t, i)[q], p, j, k, q)
  <2> DEFINE rows == Lines(t, Optimal, i, p.m - i)
             c == FinishX(p, t, i)[1]
  <2>1. /\ FinishX(p, t, i) = <<c>> /\ c.writes = X(rows, {i})
        /\ c.reads = X(rows, 1..i) \cup X(1..(i - 1), {i}) \cup Tau("taup", i)
    BY DEF FinishX, Team
  <2>2. c.by # "single"
    BY NotSingle DEF FinishX
  <2> HIDE DEF c, rows
  <2>3. \A x \in c.reads \cup c.writes : ~IsCell(x)
    BY <2>1, WhichCells
  <2> QED
    BY <2>1, <2>2, <2>3, NoCells, OneOrderly
<1>2. \A q \in 1..Len(UpdateColumn(p, t, i)) : Orderly(UpdateColumn(p, t, i)[q], p, i, k, q)
  <2> DEFINE rows == Lines(t, NThreads, i - 1, p.m - i + 1)
             c == UpdateColumn(p, t, i)[1]
  <2>1. /\ UpdateColumn(p, t, i) = <<c>> /\ c.writes = A(rows, {i})
        /\ c.reads = A(rows, 1..i) \cup Y({i}, 1..(i - 1)) \cup X(rows, 1..(i - 1))
                       \cup A(1..(i - 1), {i})
    BY DEF UpdateColumn, Team
  <2>2. c.by # "single"
    BY NotSingle DEF UpdateColumn
  <2> HIDE DEF c, rows
  <2>3. \A x \in c.reads \cup c.writes : ~IsCell(x)
    BY <2>1, WhichCells
  <2> QED
    BY <2>1, <2>2, <2>3, NoCells, OneOrderly
<1>3. \A q \in 1..Len(ReflectColumn(p, t, i)) : Orderly(ReflectColumn(p, t, i)[q], p, i, k, q)
  <2> DEFINE c == ReflectColumn(p, t, i)[1]
  <2>1. /\ ReflectColumn(p, t, i) = <<c>> /\ c.reads = A(i..p.m, {i})
        /\ c.writes = A(i..p.m, {i}) \cup Tau("tauq", i)
    BY DEF ReflectColumn, Only
  <2>2. c.by # "single"
    BY NotSingle DEF ReflectColumn
  <2> HIDE DEF c
  <2>3. \A x \in c.reads \cup c.writes : ~IsCell(x)
    BY <2>1, WhichCells
  <2> QED
    BY <2>1, <2>2, <2>3, NoCells, OneOrderly
<1> QED
  BY <1>1, <1>2, <1>3

(* Those that use it.                                                      *)
LEMMA MultiplyColumnOrderly ==
  ASSUME NEW p, NEW t, NEW i
  PROVE  \A q \in 1..Len(MultiplyColumn(p, t, i)) : Orderly(MultiplyColumn(p, t, i)[q], p, i, 3, q)
<1> DEFINE cols == Lines(t, NThreads, i, p.n - i)
           c == MultiplyColumn(p, t, i)[1]
           d == MultiplyColumn(p, t, i)[2]
<1>1. /\ MultiplyColumn(p, t, i) = <<c, d>> /\ d.name = "buffer x a"
      /\ c.reads = A(i..p.m, cols) \cup A(i..p.m, {i}) /\ c.writes = Y(cols, {i})
      /\ d.writes = Buffer(p.nb..(p.nb + i - 2)) \cup Buffer(0..(i - 1))
      /\ d.reads = X(i..p.m, 1..(i - 1)) \cup A(i..p.m, {i}) \cup A({i}, 1..i)
  BY DEF MultiplyColumn, Team, Single
<1>2. c.by # "single"
  BY NotSingle DEF MultiplyColumn
<1> HIDE DEF c, d, cols
<1>3. Fills(p, i, 3) = (p.nb..(p.nb + i - 2)) \cup (0..(i - 1)) /\ Filler(3) = "buffer x a"
  BY Filled
<1>4. \A x \in c.reads \cup c.writes : ~IsCell(x)
  <2>1. \A x \in c.reads : x \in A(i..p.m, cols) \/ x \in A(i..p.m, {i})
    BY <1>1
  <2>2. \A x \in c.writes : x \in Y(cols, {i})
    BY <1>1
  <2> QED
    BY <2>1, <2>2, WhichCells
<1>5. \A x \in d.reads : ~IsCell(x)
  BY <1>1, WhichCells
<1>6. ASSUME NEW x \in d.writes PROVE x[2] \in Fills(p, i, 3)
  <2>1. CASE x \in Buffer(p.nb..(p.nb + i - 2))
    <3>1. x[2] \in p.nb..(p.nb + i - 2)
      BY <2>1, WhichCells
    <3> QED
      BY <1>3, <3>1
  <2>2. CASE x \in Buffer(0..(i - 1))
    <3>1. x[2] \in 0..(i - 1)
      BY <2>2, WhichCells
    <3> QED
      BY <1>3, <3>1
  <2> QED
    BY <1>1, <2>1, <2>2
<1>7. Orderly(d, p, i, 3, 2)
  BY <1>1, <1>3, <1>5, <1>6 DEF Orderly
<1> QED
  BY <1>1, <1>2, <1>4, <1>7, NoCells, TwoOrderly

LEMMA ExchangeYOrderly ==
  ASSUME NEW p \in Problem, NEW t \in Thread, NEW i \in 1..p.nb
  PROVE  \A q \in 1..Len(ExchangeY(p, t, i)) : Orderly(ExchangeY(p, t, i)[q], p, i, 4, q)
<1> DEFINE cols == Lines(t, Optimal, 0, i - 1)
           c == ExchangeY(p, t, i)[1]
<1>1. p.nb \in Nat /\ i \in Nat /\ 1 <= i /\ i <= p.nb
  BY Sizes
<1>2. cols \subseteq 1..(i - 1)
  <2>1. cols \subseteq (0 + 1)..(0 + (i - 1))
    BY <1>1, Teams, LinesCover
  <2> QED
    BY <1>1, <2>1
<1>3. /\ ExchangeY(p, t, i) = <<c>> /\ c.name = "exchange y"
      /\ c.writes = Y(cols, {i}) \cup Buffer({2 * p.nb + e - 1 : e \in cols})
      /\ c.reads = A(i..p.m, cols) \cup A(i..p.m, {i}) \cup Buffer({p.nb + e - 1 : e \in cols})
  BY DEF ExchangeY, Team
<1>4. c.by # "single"
  BY NotSingle DEF ExchangeY
<1> HIDE DEF c, cols
<1>5. ASSUME NEW x \in c.writes, IsCell(x) PROVE x[2] \in Fills(p, i, 4)
  <2>1. x[2] \in {2 * p.nb + e - 1 : e \in cols}
    BY <1>3, <1>5, WhichCells
  <2>2. PICK e \in 1..(i - 1) : x[2] = 2 * p.nb + e - 1
    BY <1>2, <2>1
  <2>3. x[2] \in (2 * p.nb)..(2 * p.nb + i - 2)
    BY <1>1, <2>2
  <2> QED
    BY <2>3, Filled
<1>6. ASSUME NEW x \in c.reads, IsCell(x)
      PROVE  x[2] \in Fills(p, i, 3) /\ x[2] \notin Fills(p, i, 4)
  <2>1. x[2] \in {p.nb + e - 1 : e \in cols}
    BY <1>3, <1>6, WhichCells
  <2>2. PICK e \in 1..(i - 1) : x[2] = p.nb + e - 1
    BY <1>2, <2>1
  <2>3. x[2] \in p.nb..(p.nb + i - 2) /\ x[2] \notin (2 * p.nb)..(2 * p.nb + i - 2)
    BY <1>1, <2>2
  <2>4. /\ Fills(p, i, 3) = (p.nb..(p.nb + i - 2)) \cup (0..(i - 1))
        /\ Fills(p, i, 4) = (2 * p.nb)..(2 * p.nb + i - 2)
    BY Filled
  <2> QED
    BY <2>3, <2>4
<1>7. FilledBy[c.name] = Filler(3)
  BY <1>3, Filled, Expected
<1>8. Orderly(c, p, i, 4, 1)
  <2>1. ASSUME NEW x \in c.reads, IsCell(x)
        PROVE  \E f \in {3, 4, 7, 8} :
                 /\ f < 4 /\ x[2] \in Fills(p, i, f) /\ FilledBy[c.name] = Filler(f)
                 /\ \A l \in (f + 1)..4 : x[2] \notin Fills(p, i, l)
    <3>1. \A l \in (3 + 1)..4 : l = 4
      OBVIOUS
    <3> WITNESS 3 \in {3, 4, 7, 8}
    <3> QED
      BY <1>6, <1>7, <2>1, <3>1
  <2>2. c.name = Filler(4)
    BY <1>3, Filled
  <2> QED
    BY <1>4, <1>5, <2>1, <2>2 DEF Orderly
<1> QED
  BY <1>3, <1>8, OneOrderly

LEMMA UpdateYOrderly ==
  ASSUME NEW p \in Problem, NEW t \in Thread, NEW i \in 1..p.nb
  PROVE  \A q \in 1..Len(UpdateY(p, t, i)) : Orderly(UpdateY(p, t, i)[q], p, i, 5, q)
<1> DEFINE c == UpdateY(p, t, i)[1]
           d == UpdateY(p, t, i)[2]
           rows == Lines(t, Optimal, i, p.n - i)
<1>1. p.nb \in Nat /\ i \in Nat /\ 1 <= i /\ i <= p.nb
  BY Sizes
<1>2. /\ UpdateY(p, t, i) = <<c, d>>
      /\ c.name = "update y by y" /\ d.name = "update y by a"
      /\ c.writes = Y(rows, {i}) /\ d.writes = Y(rows, {i})
      /\ c.reads = Y(rows, 1..i) \cup Buffer((2 * p.nb)..(2 * p.nb + i - 2))
      /\ d.reads = A(1..(i - 1), rows) \cup Buffer(p.nb..(p.nb + i - 2)) \cup Y(rows, {i})
                     \cup Tau("tauq", i)
  BY DEF UpdateY, Team
<1>3. c.by # "single" /\ d.by # "single"
  BY NotSingle DEF UpdateY
<1> HIDE DEF c, d, rows
<1>4. /\ Fills(p, i, 3) = (p.nb..(p.nb + i - 2)) \cup (0..(i - 1)) /\ Fills(p, i, 5) = {}
      /\ Fills(p, i, 4) = (2 * p.nb)..(2 * p.nb + i - 2)
  BY Filled
<1>5. (\A x \in c.writes : ~IsCell(x)) /\ (\A x \in d.writes : ~IsCell(x))
  <2>1. (\A x \in c.writes : x \in Y(rows, {i})) /\ (\A x \in d.writes : x \in Y(rows, {i}))
    BY <1>2
  <2> QED
    BY <2>1, WhichCells
<1>6. Orderly(c, p, i, 5, 1)
  <2>1. ASSUME NEW x \in c.reads, IsCell(x)
        PROVE  x[2] \in Fills(p, i, 4) /\ \A l \in (4 + 1)..5 : x[2] \notin Fills(p, i, l)
    <3>1. x[2] \in (2 * p.nb)..(2 * p.nb + i - 2)
      BY <1>2, <2>1, WhichCells
    <3>2. \A l \in (4 + 1)..5 : l = 5
      OBVIOUS
    <3> QED
      BY <1>4, <3>1, <3>2
  <2>2. FilledBy[c.name] = Filler(4)
    BY <1>2, Filled, Expected
  <2> QED
    BY <1>3, <1>5, <2>1, <2>2, ReadsOnly
<1>7. Orderly(d, p, i, 5, 2)
  <2>1. ASSUME NEW x \in d.reads, IsCell(x)
        PROVE  x[2] \in Fills(p, i, 3) /\ \A l \in (3 + 1)..5 : x[2] \notin Fills(p, i, l)
    <3>1. x[2] \in p.nb..(p.nb + i - 2)
      BY <1>2, <2>1, WhichCells
    <3>2. \A l \in (3 + 1)..5 : l = 4 \/ l = 5
      OBVIOUS
    <3>3. x[2] \notin Fills(p, i, 4)
      BY <1>1, <1>4, <3>1
    <3> QED
      BY <1>4, <3>1, <3>2, <3>3
  <2>2. FilledBy[d.name] = Filler(3)
    BY <1>2, Filled, Expected
  <2> QED
    BY <1>3, <1>5, <2>1, <2>2, ReadsOnly
<1> QED
  BY <1>2, <1>6, <1>7, TwoOrderly

LEMMA UpdateRowOrderly ==
  ASSUME NEW p \in Problem, NEW t \in Thread, NEW i \in 1..p.nb
  PROVE  \A q \in 1..Len(UpdateRow(p, t, i)) : Orderly(UpdateRow(p, t, i)[q], p, i, 6, q)
<1> DEFINE c == UpdateRow(p, t, i)[1]
           cols == Lines(t, Optimal, i, p.n - i)
<1>1. p.nb \in Nat /\ i \in Nat /\ 1 <= i /\ i <= p.nb
  BY Sizes
<1>2. /\ UpdateRow(p, t, i) = <<c>> /\ c.name = "update a row" /\ c.writes = A({i}, cols)
      /\ c.reads = Y(cols, 1..i) \cup Buffer(0..(i - 1)) \cup A(1..i, cols) \cup X({i}, 1..(i - 1))
  BY DEF UpdateRow, Team
<1>3. c.by # "single"
  BY NotSingle DEF UpdateRow
<1> HIDE DEF c, cols
<1>4. /\ Fills(p, i, 3) = (p.nb..(p.nb + i - 2)) \cup (0..(i - 1))
      /\ Fills(p, i, 4) = (2 * p.nb)..(2 * p.nb + i - 2)
      /\ Fills(p, i, 5) = {} /\ Fills(p, i, 6) = {}
  BY Filled
<1>5. \A x \in c.writes : ~IsCell(x)
  <2>1. \A x \in c.writes : x \in A({i}, cols)
    BY <1>2
  <2> QED
    BY <2>1, WhichCells
<1>6. ASSUME NEW x \in c.reads, IsCell(x)
      PROVE  x[2] \in Fills(p, i, 3) /\ \A l \in (3 + 1)..6 : x[2] \notin Fills(p, i, l)
  <2>1. x[2] \in 0..(i - 1)
    <3>1. \/ x \in Y(cols, 1..i) \/ x \in A(1..i, cols) \/ x \in X({i}, 1..(i - 1))
          \/ x \in Buffer(0..(i - 1))
      BY <1>2
    <3> QED
      BY <1>6, <3>1, WhichCells
  <2>2. \A l \in (3 + 1)..6 : l = 4 \/ l = 5 \/ l = 6
    OBVIOUS
  <2>3. x[2] \notin Fills(p, i, 4)
    BY <1>1, <1>4, <2>1
  <2> QED
    BY <1>4, <2>1, <2>2, <2>3
<1>7. FilledBy[c.name] = Filler(3)
  BY <1>2, Filled, Expected
<1>8. Orderly(c, p, i, 6, 1)
  BY <1>3, <1>5, <1>6, <1>7, ReadsOnly
<1> QED
  BY <1>2, <1>8, OneOrderly

LEMMA ReflectRowOrderly ==
  ASSUME NEW p, NEW t, NEW i
  PROVE  \A q \in 1..Len(ReflectRow(p, t, i)) : Orderly(ReflectRow(p, t, i)[q], p, i, 7, q)
<1> DEFINE c == ReflectRow(p, t, i)[1]
<1>1. /\ ReflectRow(p, t, i) = <<c>> /\ c.name = "larfg p" /\ c.reads = A({i}, (i + 1)..p.n)
      /\ c.writes = A({i}, (i + 1)..p.n) \cup Tau("taup", i) \cup Buffer(0..(p.n - i - 1))
  BY DEF ReflectRow, Only
<1>2. c.by # "single"
  BY NotSingle DEF ReflectRow
<1> HIDE DEF c
<1>3. \A x \in c.reads : ~IsCell(x)
  <2>1. \A x \in c.reads : x \in A({i}, (i + 1)..p.n)
    BY <1>1
  <2> QED
    BY <2>1, WhichCells
<1>4. ASSUME NEW x \in c.writes, IsCell(x) PROVE x[2] \in Fills(p, i, 7)
  <2>1. x[2] \in 0..(p.n - i - 1)
    BY <1>1, <1>4, WhichCells
  <2> QED
    BY <2>1, Filled
<1>5. c.name = Filler(7)
  BY <1>1, Filled
<1>6. Orderly(c, p, i, 7, 1)
  BY <1>2, <1>3, <1>4, <1>5 DEF Orderly
<1> QED
  BY <1>1, <1>6, OneOrderly

LEMMA MultiplyRowOrderly ==
  ASSUME NEW p \in Problem, NEW t \in Thread, NEW i \in 1..p.nb
  PROVE  \A q \in 1..Len(MultiplyRow(p, t, i)) : Orderly(MultiplyRow(p, t, i)[q], p, i, 8, q)
<1> DEFINE rows == Lines(t, NThreads, i, p.m - i)
           cols == Lines(t, Optimal, 0, i)
           c == MultiplyRow(p, t, i)[1]
           d == MultiplyRow(p, t, i)[2]
<1>1. p.n \in Nat /\ p.nb \in Nat /\ p.nb < p.n /\ i \in Nat /\ 1 <= i /\ i <= p.nb
  BY Sizes
<1>2. cols \subseteq 1..i
  <2>1. cols \subseteq (0 + 1)..(0 + i)
    BY <1>1, Teams, LinesCover
  <2> QED
    BY <1>1, <2>1
<1>3. /\ MultiplyRow(p, t, i) = <<c, d>> /\ c.name = "x" /\ d.name = "buffer y a"
      /\ c.writes = X(rows, {i})
      /\ d.writes = X(cols, {i}) \cup Buffer({p.n + e - 1 : e \in cols})
      /\ c.reads = A(rows, (i + 1)..p.n) \cup Buffer(0..(p.n - i - 1))
      /\ d.reads = Y((i + 1)..p.n, cols) \cup A({i}, (i + 1)..p.n)
  BY DEF MultiplyRow, Team
<1>4. c.by # "single" /\ d.by # "single"
  BY NotSingle DEF MultiplyRow
<1> HIDE DEF c, d, rows, cols
<1>5. /\ Fills(p, i, 7) = 0..(p.n - i - 1) /\ Fills(p, i, 8) = p.n..(p.n + i - 1)
      /\ Filler(7) = "larfg p" /\ Filler(8) = "buffer y a"
  BY Filled
<1>6. \A x \in c.writes : ~IsCell(x)
  <2>1. \A x \in c.writes : x \in X(rows, {i})
    BY <1>3
  <2> QED
    BY <2>1, WhichCells
<1>7. \A x \in d.reads : ~IsCell(x)
  BY <1>3, WhichCells, ZenonT(60)
<1>8. ASSUME NEW x \in d.writes, IsCell(x) PROVE x[2] \in Fills(p, i, 8)
  <2>1. x[2] \in {p.n + e - 1 : e \in cols}
    BY <1>3, <1>8, WhichCells
  <2>2. PICK e \in 1..i : x[2] = p.n + e - 1
    BY <1>2, <2>1
  <2>3. x[2] \in p.n..(p.n + i - 1)
    BY <1>1, <2>2
  <2> QED
    BY <1>5, <2>3
<1>9. ASSUME NEW x \in c.reads, IsCell(x)
      PROVE  x[2] \in Fills(p, i, 7) /\ \A l \in (7 + 1)..8 : x[2] \notin Fills(p, i, l)
  <2>1. x[2] \in 0..(p.n - i - 1)
    <3>1. x \in A(rows, (i + 1)..p.n) \/ x \in Buffer(0..(p.n - i - 1))
      BY <1>3
    <3> QED
      BY <1>9, <3>1, WhichCells
  <2>2. \A l \in (7 + 1)..8 : l = 8
    OBVIOUS
  <2>3. x[2] \notin p.n..(p.n + i - 1)
    BY <1>1, <2>1
  <2> QED
    BY <1>5, <2>1, <2>2, <2>3
<1>10. FilledBy[c.name] = Filler(7)
  BY <1>3, <1>5, Expected
<1>11. Orderly(c, p, i, 8, 1)
  BY <1>4, <1>6, <1>9, <1>10, ReadsOnly
<1>12. Orderly(d, p, i, 8, 2)
  BY <1>3, <1>4, <1>5, <1>7, <1>8 DEF Orderly
<1> QED
  BY <1>3, <1>11, <1>12, TwoOrderly

LEMMA UpdateXOrderly ==
  ASSUME NEW p, NEW t, NEW i
  PROVE  \A q \in 1..Len(UpdateX(p, t, i)) : Orderly(UpdateX(p, t, i)[q], p, i, 9, q)
<1> DEFINE rows == Lines(t, Optimal, i, p.m - i)
           cols == Lines(t, Optimal, 0, i - 1)
           c == UpdateX(p, t, i)[1]
           d == UpdateX(p, t, i)[2]
<1>1. /\ UpdateX(p, t, i) = <<c, d>> /\ c.name = "update x"
      /\ c.writes = X(rows, {i}) /\ d.writes = X(cols, {i})
      /\ c.reads = A(rows, 1..i) \cup Buffer(p.n..(p.n + i - 1)) \cup X(rows, {i})
      /\ d.reads = A(cols, (i + 1)..p.n) \cup A({i}, (i + 1)..p.n)
  BY DEF UpdateX, Team
<1>2. c.by # "single" /\ d.by # "single"
  BY NotSingle DEF UpdateX
<1> HIDE DEF c, d, rows, cols
<1>3. \A x \in c.writes : ~IsCell(x)
  <2>1. \A x \in c.writes : x \in X(rows, {i})
    BY <1>1
  <2> QED
    BY <2>1, WhichCells
<1>4. \A x \in d.reads \cup d.writes : ~IsCell(x)
  <2>1. \A x \in d.reads : x \in A(cols, (i + 1)..p.n) \/ x \in A({i}, (i + 1)..p.n)
    BY <1>1
  <2>2. \A x \in d.writes : x \in X(cols, {i})
    BY <1>1
  <2> QED
    BY <2>1, <2>2, WhichCells
<1>5. ASSUME NEW x \in c.reads, IsCell(x)
      PROVE  x[2] \in Fills(p, i, 8) /\ \A l \in (8 + 1)..9 : x[2] \notin Fills(p, i, l)
  <2>1. x[2] \in p.n..(p.n + i - 1)
    BY <1>1, <1>5, WhichCells
  <2>2. Fills(p, i, 8) = p.n..(p.n + i - 1) /\ Fills(p, i, 9) = {}
    BY Filled
  <2>3. \A l \in (8 + 1)..9 : l = 9
    OBVIOUS
  <2> QED
    BY <2>1, <2>2, <2>3
<1>6. FilledBy[c.name] = Filler(8)
  BY <1>1, Filled, Expected
<1>7. Orderly(c, p, i, 9, 1)
  BY <1>2, <1>3, <1>5, <1>6, ReadsOnly
<1>8. Orderly(d, p, i, 9, 2)
  BY <1>2, <1>4, NoCells
<1> QED
  BY <1>1, <1>7, <1>8, TwoOrderly

(* Every call of the reduction uses the buffer in an orderly way; the      *)
(* first section of a column belongs to the one before.                    *)
LEMMA TallOrderly ==
  ASSUME NEW p \in Problem, NEW i \in 1..(p.nb + 1), NEW k \in 0..9, k > 0 => i <= p.nb,
         NEW t \in Thread, NEW q \in 1..Len(TallCalls(p, t, i, k))
  PROVE  Orderly(TallCalls(p, t, i, k)[q], p, i, k, q)
<1>1. p.nb \in Nat
  BY Sizes
<1>2. CASE k = 0 /\ i > 1
  <2>1. TallCalls(p, t, i, k) = FinishX(p, t, i - 1)
    BY <1>2 DEF TallCalls
  <2> QED
    BY <2>1, PlainOrderly
<1>3. CASE k = 0 /\ i = 1
  BY <1>3 DEF TallCalls
<1>4. CASE k > 0
  <2>1. i \in 1..p.nb
    BY <1>1, <1>4
  <2>2. CASE k = 1
    <3>1. TallCalls(p, t, i, k) = UpdateColumn(p, t, i)
      BY <2>2 DEF TallCalls
    <3> QED
      BY <3>1, PlainOrderly
  <2>3. CASE k = 2
    <3>1. TallCalls(p, t, i, k) = ReflectColumn(p, t, i)
      BY <2>3 DEF TallCalls
    <3> QED
      BY <3>1, PlainOrderly
  <2>4. CASE k = 3
    <3>1. TallCalls(p, t, i, k) = MultiplyColumn(p, t, i)
      BY <2>4 DEF TallCalls
    <3> QED
      BY <2>4, <3>1, MultiplyColumnOrderly
  <2>5. CASE k = 4
    <3>1. TallCalls(p, t, i, k) = ExchangeY(p, t, i)
      BY <2>5 DEF TallCalls
    <3> QED
      BY <2>1, <2>5, <3>1, ExchangeYOrderly
  <2>6. CASE k = 5
    <3>1. TallCalls(p, t, i, k) = UpdateY(p, t, i)
      BY <2>6 DEF TallCalls
    <3> QED
      BY <2>1, <2>6, <3>1, UpdateYOrderly
  <2>7. CASE k = 6
    <3>1. TallCalls(p, t, i, k) = UpdateRow(p, t, i)
      BY <2>7 DEF TallCalls
    <3> QED
      BY <2>1, <2>7, <3>1, UpdateRowOrderly
  <2>8. CASE k = 7
    <3>1. TallCalls(p, t, i, k) = ReflectRow(p, t, i)
      BY <2>8 DEF TallCalls
    <3> QED
      BY <2>8, <3>1, ReflectRowOrderly
  <2>9. CASE k = 8
    <3>1. TallCalls(p, t, i, k) = MultiplyRow(p, t, i)
      BY <2>9 DEF TallCalls
    <3> QED
      BY <2>1, <2>9, <3>1, MultiplyRowOrderly
  <2>10. CASE k = 9
    <3>1. TallCalls(p, t, i, k) = UpdateX(p, t, i)
      BY <2>10 DEF TallCalls
    <3> QED
      BY <2>10, <3>1, UpdateXOrderly
  <2> QED
    BY <1>4, <2>2, <2>3, <2>4, <2>5, <2>6, <2>7, <2>8, <2>9, <2>10
<1> QED
  BY <1>1, <1>2, <1>3, <1>4

(* The cells that section s fills.                                         *)
FilledIn(p, s) == Fills(p, Column(p, s), s % 10)

LEMMA SectionOrderly ==
  ASSUME NEW p \in Problem, Tall(p), NEW s \in Nat, NEW t \in Thread,
         NEW q \in 1..Len(CallsIn(p, t, s))
  PROVE  /\ s <= Barriers(p) /\ s % 10 \in 0..9 /\ Column(p, s) \in Nat
         /\ s % 10 > 0 => Column(p, s) \in 1..p.nb
         /\ Orderly(CallsIn(p, t, s)[q], p, Column(p, s), s % 10, q)
<1>1. Barriers(p) \in Nat /\ p.nb \in Nat
  BY Sizes DEF Barriers, PerColumn
<1>2. s <= Barriers(p)
  <2>1. CASE s > Barriers(p)
    <3>1. CallsIn(p, t, s) = <<>>
      BY <1>1, <2>1 DEF CallsIn
    <3> QED
      BY <3>1
  <2> QED
    BY <1>1, <2>1
<1>3. PICK i \in 1..(p.nb + 1), k \in 0..9 :
        i = Column(p, s) /\ k = s % 10 /\ (k > 0 => i <= p.nb)
  BY <1>2, Steps
<1>4. CallsIn(p, t, s) = TallCalls(p, t, i, k)
  BY <1>1, <1>2, <1>3 DEF CallsIn
<1>5. Orderly(TallCalls(p, t, i, k)[q], p, i, k, q)
  BY <1>3, <1>4, TallOrderly
<1> QED
  BY <1>1, <1>2, <1>3, <1>4, <1>5

(* The sections of one column.                                             *)
LEMMA SameColumn ==
  ASSUME NEW p, Tall(p), NEW s \in Nat, NEW f \in 0..(s % 10), NEW r \in Int, r = s - (s % 10) + f
  PROVE  r \in 0..s /\ Column(p, r) = Column(p, s) /\ r % 10 = f
<1>1. Column(p, r) = r \div 10 + 1 /\ Column(p, s) = s \div 10 + 1
  BY DEF Column, PerColumn
<1>2. PICK m \in Nat, k \in 0..9 : m = s \div 10 /\ k = s % 10 /\ s = m * 10 + k
  BY Quotient
<1>3. f \in 0..9 /\ r = 10 * m + f /\ r \in 0..s
  <2>1. f \in 0..k /\ r = s - k + f
    BY <1>2, Zenon
  <2>2. s = m * 10 + k
    BY <1>2
  <2> QED
    BY <2>1, <2>2
<1>4. (10 * m + f) \div 10 = m /\ (10 * m + f) % 10 = f
  BY <1>3, Z3
<1>5. QED
  BY <1>1, <1>2, <1>3, <1>4

LEMMA SameDigits == ASSUME NEW r \in Nat, NEW s \in Nat, r \div 10 = s \div 10, r % 10 = s % 10
                    PROVE  r = s
BY Z3

LEMMA OneSection ==
  ASSUME NEW p, Tall(p), NEW r \in Nat, NEW s \in Nat, Column(p, r) = Column(p, s), r % 10 = s % 10
  PROVE  r = s
<1>1. Column(p, r) = r \div 10 + 1 /\ Column(p, s) = s \div 10 + 1
  BY DEF Column, PerColumn
<1>2. r \div 10 = s \div 10
  <2>1. PICK a \in Nat, b \in Nat : a = r \div 10 /\ b = s \div 10
    BY Quotient
  <2>2. a + 1 = b + 1
    BY <1>1, <2>1, Zenon
  <2>3. a = b
    BY <2>2
  <2> QED
    BY <2>1, <2>3, Zenon
<1> QED
  BY <1>2, SameDigits

(* What a call reads in the buffer an earlier section of the column has    *)
(* filled, and none has since.                                             *)
Source(p, r, s, x, name) ==
  /\ r \in Nat /\ r < s /\ Column(p, r) = Column(p, s) /\ Column(p, s) \in 1..p.nb
  /\ r % 10 \in {3, 4, 7, 8} /\ FilledBy[name] = Filler(r % 10)
  /\ x[2] \in FilledIn(p, r) /\ \A l \in (r + 1)..s : x[2] \notin FilledIn(p, l)

LEMMA ReadsFrom ==
  ASSUME NEW p \in Problem, Tall(p), NEW s \in Nat, NEW t \in Thread,
         NEW q \in 1..Len(CallsIn(p, t, s)),
         NEW x \in CallsIn(p, t, s)[q].reads, IsCell(x)
  PROVE  \E r : Source(p, r, s, x, CallsIn(p, t, s)[q].name)
<1> DEFINE c == CallsIn(p, t, s)[q]
           i == Column(p, s)
           k == s % 10
<1>1. /\ k \in 0..9 /\ i \in Nat /\ (k > 0 => i \in 1..p.nb)
      /\ Orderly(c, p, i, k, q)
  BY SectionOrderly
<1>2. PICK f \in {3, 4, 7, 8} :
        /\ f < k /\ x[2] \in Fills(p, i, f) /\ FilledBy[c.name] = Filler(f)
        /\ \A l \in (f + 1)..k : x[2] \notin Fills(p, i, l)
  BY <1>1 DEF Orderly
<1> HIDE DEF c, i, k
<1>3. PICK r \in Int : r = s - k + f
  BY <1>1
<1>4. r \in 0..s /\ Column(p, r) = i /\ r % 10 = f
  <2>1. f \in 0..(s % 10) /\ r = s - (s % 10) + f
    <3>1. f \in 0..k /\ r = s - k + f
      BY <1>1, <1>2, <1>3
    <3> QED
      BY <3>1, Zenon DEF k
  <2> QED
    BY <2>1, SameColumn DEF i
<1>5. ASSUME NEW l \in (r + 1)..s PROVE x[2] \notin FilledIn(p, l)
  <2>1. PICK g \in Int : g = k - (s - l)
    BY <1>1
  <2>2. g \in (f + 1)..k /\ g \in 0..k /\ l = s - k + g
    BY <1>1, <1>2, <1>3, <2>1
  <2>3. Column(p, l) = i /\ l % 10 = g
    <3>1. g \in 0..(s % 10) /\ l \in Int /\ l = s - (s % 10) + g
      <4>1. g \in 0..k /\ l \in Int /\ l = s - k + g
        BY <2>2
      <4> QED
        BY <4>1, Zenon DEF k
    <3> QED
      BY <3>1, SameColumn DEF i
  <2> QED
    BY <1>2, <2>2, <2>3 DEF FilledIn
<1>6. r < s
  <2>1. k \in Nat /\ f \in Nat /\ f < k
    BY <1>1, <1>2
  <2> QED
    BY <1>3, <2>1
<1>7. x[2] \in FilledIn(p, r) /\ FilledBy[c.name] = Filler(r % 10)
  BY <1>2, <1>4 DEF FilledIn
<1>8. i \in 1..p.nb
  BY <1>1, <1>2
<1>9. Column(p, r) = Column(p, s) /\ Column(p, s) \in 1..p.nb
  BY <1>4, <1>8 DEF i
<1>10. r \in Nat /\ r % 10 \in {3, 4, 7, 8}
  BY <1>2, <1>4
<1>11. Source(p, r, s, x, c.name)
  BY <1>5, <1>6, <1>7, <1>9, <1>10 DEF Source
<1> QED
  BY <1>11 DEF c

(* Every cell that a section fills is filled by the call of some thread,   *)
(* or by that of whichever thread enters the single section.               *)
Fill(p, t, s, q, x, by) ==
  q \in 1..Len(CallsIn(p, t, s)) /\ CallsIn(p, t, s)[q].by = by /\ x \in CallsIn(p, t, s)[q].writes

LEMMA CellIn ==
  ASSUME NEW x, NEW S, x \in Buffer(S), NEW R, x[2] \in R
  PROVE  x \in Buffer(R)
BY DEF Buffer

LEMMA Somebody ==
  ASSUME NEW p \in Problem, Tall(p), NEW s \in Nat, s <= Barriers(p), s % 10 \in {3, 4, 7, 8},
         Column(p, s) \in 1..p.nb, NEW x \in Buffer(Cells(p)), x[2] \in FilledIn(p, s)
  PROVE  \/ \E t \in Thread : Fill(p, t, s, 1, x, "all") \/ Fill(p, t, s, 2, x, "all")
         \/ \A t \in Thread : Fill(p, t, s, 2, x, "single")
<1> DEFINE i == Column(p, s)
           k == s % 10
<1>1. /\ p.n \in Nat /\ p.nb \in Nat /\ p.nb < p.n /\ i \in Nat /\ 1 <= i /\ i <= p.nb
      /\ Barriers(p) \in Nat
  BY Sizes DEF Barriers, PerColumn
<1>2. \A t \in Thread : CallsIn(p, t, s) = TallCalls(p, t, i, k)
  BY <1>1 DEF CallsIn
<1>3. x[2] \in Fills(p, i, k)
  BY DEF FilledIn
<1> HIDE DEF i
<1>4. CASE k = 3
  <2>1. ASSUME NEW t \in Thread PROVE Fill(p, t, s, 2, x, "single")
    <3> DEFINE c == MultiplyColumn(p, t, i)[1]
               d == MultiplyColumn(p, t, i)[2]
    <3>1. /\ MultiplyColumn(p, t, i) = <<c, d>> /\ d.by = "single"
          /\ d.writes = Buffer(p.nb..(p.nb + i - 2)) \cup Buffer(0..(i - 1))
      BY DEF MultiplyColumn, Single
    <3> HIDE DEF c, d
    <3>2. CallsIn(p, t, s) = <<c, d>>
      BY <1>2, <1>4, <3>1 DEF TallCalls
    <3>3. x[2] \in p.nb..(p.nb + i - 2) \/ x[2] \in 0..(i - 1)
      <4>1. x[2] \in Fills(p, i, 3)
        BY <1>3, <1>4
      <4>2. Fills(p, i, 3) = (p.nb..(p.nb + i - 2)) \cup (0..(i - 1))
        BY Filled
      <4> QED
        BY <4>1, <4>2
    <3>4. x \in d.writes
      BY <3>1, <3>3, CellIn
    <3> QED
      BY <3>1, <3>2, <3>4 DEF Fill
  <2> QED
    BY <2>1
<1>5. CASE k = 4
  <2>1. x[2] \in (2 * p.nb)..(2 * p.nb + i - 2)
    BY <1>3, <1>5, Filled, ZenonT(60)
  <2>2. PICK e \in Int : e = x[2] - 2 * p.nb + 1
    BY <1>1, <2>1
  <2>3. e \in (0 + 1)..(0 + (i - 1)) /\ x[2] = 2 * p.nb + e - 1
    BY <1>1, <2>1, <2>2
  <2>4. PICK t \in Thread : e \in Lines(t, Optimal, 0, i - 1)
    <3>1. i - 1 \in Nat
      BY <1>1
    <3> QED
      BY <2>3, <3>1, Teams, LinesCover
  <2> DEFINE cols == Lines(t, Optimal, 0, i - 1)
             c == ExchangeY(p, t, i)[1]
  <2>5. ExchangeY(p, t, i) = <<c>> /\ c.writes = Y(cols, {i}) \cup Buffer({2 * p.nb + a - 1 : a \in cols})
    BY DEF ExchangeY, Team
  <2>6. c.by = "all"
    BY <2>4 DEF ExchangeY, Team
  <2> HIDE DEF c, cols
  <2>7. CallsIn(p, t, s) = <<c>>
    BY <1>2, <1>5, <2>5 DEF TallCalls
  <2>8. x[2] \in {2 * p.nb + a - 1 : a \in cols}
    BY <2>3, <2>4 DEF cols
  <2>9. x \in c.writes
    BY <2>5, <2>8, CellIn
  <2> QED
    BY <2>6, <2>7, <2>9 DEF Fill
<1>6. CASE k = 7
  <2> DEFINE c == ReflectRow(p, 0, i)[1]
  <2>1. 0 \in Thread
    BY NThreadsAssumption DEF Thread
  <2>2. /\ ReflectRow(p, 0, i) = <<c>> /\ c.by = "all"
        /\ c.writes = A({i}, (i + 1)..p.n) \cup Tau("taup", i) \cup Buffer(0..(p.n - i - 1))
    BY DEF ReflectRow, Only
  <2> HIDE DEF c
  <2>3. CallsIn(p, 0, s) = <<c>>
    BY <1>2, <1>6, <2>1, <2>2 DEF TallCalls
  <2>4. x[2] \in 0..(p.n - i - 1)
    <3>1. x[2] \in Fills(p, i, 7)
      BY <1>3, <1>6
    <3> QED
      BY <3>1, Filled
  <2>5. x \in c.writes
    BY <2>2, <2>4, CellIn
  <2>6. Fill(p, 0, s, 1, x, "all")
    <3>1. 1 \in 1..Len(<<c>>) /\ <<c>>[1] = c
      OBVIOUS
    <3> QED
      BY <2>2, <2>3, <2>5, <3>1 DEF Fill
  <2> QED
    BY <2>1, <2>6
<1>7. CASE k = 8
  <2>1. x[2] \in p.n..(p.n + i - 1)
    BY <1>3, <1>7, Filled, ZenonT(60)
  <2>2. PICK e \in Int : e = x[2] - p.n + 1
    BY <1>1, <2>1
  <2>3. e \in (0 + 1)..(0 + i) /\ x[2] = p.n + e - 1
    BY <1>1, <2>1, <2>2
  <2>4. PICK t \in Thread : e \in Lines(t, Optimal, 0, i)
    BY <1>1, <2>3, Teams, LinesCover
  <2> DEFINE cols == Lines(t, Optimal, 0, i)
             c == MultiplyRow(p, t, i)[1]
             d == MultiplyRow(p, t, i)[2]
  <2>5. /\ MultiplyRow(p, t, i) = <<c, d>>
        /\ d.writes = X(cols, {i}) \cup Buffer({p.n + a - 1 : a \in cols})
    BY DEF MultiplyRow, Team
  <2>6. d.by = "all"
    BY <2>4 DEF MultiplyRow, Team
  <2> HIDE DEF c, d, cols
  <2>7. CallsIn(p, t, s) = <<c, d>>
    BY <1>2, <1>7, <2>5 DEF TallCalls
  <2>8. x[2] \in {p.n + a - 1 : a \in cols}
    BY <2>3, <2>4 DEF cols
  <2>9. x \in d.writes
    BY <2>5, <2>8, CellIn
  <2>10. Fill(p, t, s, 2, x, "all")
    <3>1. 2 \in 1..Len(<<c, d>>) /\ <<c, d>>[2] = d
      OBVIOUS
    <3> QED
      BY <2>6, <2>7, <2>9, <3>1 DEF Fill
  <2> QED
    BY <2>10
<1> QED
  BY <1>4, <1>5, <1>6, <1>7

-----------------------------------------------------------------------------
(* What the buffer holds.                                                  *)

(* Thread t has left call q of section s behind, and it made it.           *)
Past(t, s, q) == passed[t] > s \/ (passed[t] = s /\ call[t] > q)
MadeBy(t, s, q) ==
  \/ CallsIn(prob, t, s)[q].by = "all"
  \/ CallsIn(prob, t, s)[q].by = "single" /\ single[Column(prob, s)] = t

(* No thread has come to a section after s that fills the cell again.      *)
Quiet(s, x) == \A u \in Thread : \A r \in (s + 1)..passed[u] : x[2] \notin FilledIn(prob, r)

Latest(s, x) == hist[x] # <<>> /\ Last(hist[x]) = <<Column(prob, s), Filler(s % 10)>>

Records == \A x \in Buffer(Cells(prob)) : x \in DOMAIN hist /\ hist[x] \in Seq(Nat \X Fillers)

(* Nobody leaves a single section behind that nobody has entered.          *)
Entered ==
  /\ single \in [1..prob.nb -> Thread \cup {NoThread}]
  /\ \A t \in Thread, s \in Nat : \A q \in 1..Len(CallsIn(prob, t, s)) :
       CallsIn(prob, t, s)[q].by = "single" /\ Past(t, s, q) => single[Column(prob, s)] \in Thread

(* A thread that waits has made the calls of its section.                  *)
Finished == \A t \in Thread : pc[t] # "outside" => call[t] > Len(CallsIn(prob, t, passed[t]))

(* A cell holds what has been written there, until the next section that   *)
(* fills it.                                                               *)
Kept ==
  \A t \in Thread, s \in Nat : \A q \in 1..Len(CallsIn(prob, t, s)) :
    \A x \in CallsIn(prob, t, s)[q].writes :
      x \in Buffer(Cells(prob)) /\ Past(t, s, q) /\ MadeBy(t, s, q) /\ Quiet(s, x) => Latest(s, x)

Tidy == Records /\ Entered /\ Finished /\ Kept

LEMMA TidyInit == Begin => Tidy
<1> SUFFICES ASSUME Begin PROVE Tidy
  OBVIOUS
<1>1. /\ pc = [t \in Thread |-> "outside"] /\ passed = [t \in Thread |-> 0]
      /\ call = [t \in Thread |-> 1] /\ single = [i \in 1..prob.nb |-> NoThread]
      /\ hist = [x \in Element(prob) |-> <<>>]
  BY DEF Begin, Init
<1>2. \A t \in Thread, s \in Nat, q \in Nat : q >= 1 => ~Past(t, s, q)
  BY <1>1 DEF Past
<1>3. Records
  BY <1>1 DEF Records, Element
<1>4. Entered
  <2>1. single \in [1..prob.nb -> Thread \cup {NoThread}]
    BY <1>1
  <2> QED
    BY <1>2, <2>1 DEF Entered
<1>5. Finished
  BY <1>1 DEF Finished
<1>6. Kept
  BY <1>2 DEF Kept
<1> QED
  BY <1>3, <1>4, <1>5, <1>6 DEF Tidy

(* Where a thread stands.                                                  *)
LEMMA Stand ==
  ASSUME IInv, Place, NEW t \in Thread
  PROVE  /\ prob \in Problem /\ passed[t] \in Nat /\ call[t] \in Nat /\ call[t] >= 1
         /\ Calls(t) = CallsIn(prob, t, passed[t])
         /\ Current(t) = CallsIn(prob, t, passed[t])[call[t]]
         /\ AtCall(t) => call[t] \in 1..Len(CallsIn(prob, t, passed[t]))
<1>1. passed[t] \in 0..MaxRounds /\ prob \in Problem /\ call[t] \in Nat \ {0}
  BY MaxRoundsAssumption DEF IInv, Types, Place
<1>2. Calls(t) = CallsIn(prob, t, passed[t])
  BY <1>1 DEF Calls, CallTable
<1>3. AtCall(t) => call[t] \in 1..Len(CallsIn(prob, t, passed[t]))
  BY <1>1, <1>2 DEF AtCall
<1> QED
  BY <1>1, <1>2, <1>3 DEF Current

(* Nobody is in a later section than a thread outside the barrier.         *)
LEMMA Together ==
  ASSUME IInv, NEW t \in Thread, NEW u \in Thread
  PROVE  /\ passed[t] \in Nat /\ passed[u] \in Nat
         /\ pc[u] = "outside" => passed[t] <= passed[u]
         /\ passed[t] <= passed[u] + 1
<1>1. NoneLeavesEarly
  BY DEF NoneLeavesEarly, IInv, Rounds, Types, Leaving, Present
<1> QED
  BY <1>1 DEF NoneLeavesEarly, IInv, Types

(* A call writes to the buffer only what its section fills.                *)
LEMMA WritesOnly ==
  ASSUME Tall(prob), prob \in Problem, NEW t \in Thread, NEW s \in Nat,
         NEW q \in 1..Len(CallsIn(prob, t, s)),
         NEW x \in CallsIn(prob, t, s)[q].writes, x \in Buffer(Cells(prob))
  PROVE  /\ CallsIn(prob, t, s)[q].name = Filler(s % 10) /\ Filler(s % 10) \in Fillers
         /\ Column(prob, s) \in Nat /\ x[2] \in FilledIn(prob, s)
<1>1. IsCell(x)
  BY WhichCells
<1>2. Column(prob, s) \in Nat /\ Orderly(CallsIn(prob, t, s)[q], prob, Column(prob, s), s % 10, q)
  BY SectionOrderly
<1>3. /\ s % 10 \in {3, 4, 7, 8} /\ CallsIn(prob, t, s)[q].name = Filler(s % 10)
      /\ x[2] \in FilledIn(prob, s)
  BY <1>1, <1>2 DEF Orderly, FilledIn
<1>4. \A f \in {3, 4, 7, 8} : Filler(f) \in Fillers
  BY Filled DEF Fillers
<1> QED
  BY <1>2, <1>3, <1>4

(* EnterSingle: the flag of the column's single section was not set, so    *)
(* nobody has left that section behind.                                    *)
LEMMA TidyEnters ==
  ASSUME IInv, Place, Tall(prob), Tidy, NEW u \in Thread, EnterSingle(u)
  PROVE  Tidy'
<1> DEFINE r == passed[u]
           i == Column(prob, r)
<1>1. /\ single' = [single EXCEPT ![i] = u] /\ single[i] = NoThread
      /\ UNCHANGED <<pc, passed, prob, call, hist>>
      /\ AtCall(u) /\ Current(u).by = "single"
  BY DEF EnterSingle, Here, vars
<1>2. /\ prob \in Problem /\ r \in Nat /\ call[u] \in 1..Len(CallsIn(prob, u, r))
      /\ CallsIn(prob, u, r)[call[u]].by = "single"
  BY <1>1, Stand
<1>3. i \in 1..prob.nb /\ r % 10 = 3 /\ call[u] = 2
  <2>1. /\ Orderly(CallsIn(prob, u, r)[call[u]], prob, i, r % 10, call[u])
        /\ r % 10 > 0 => i \in 1..prob.nb
    BY <1>2, SectionOrderly
  <2> QED
    BY <1>2, <2>1 DEF Orderly
<1>4. single'[i] = u /\ \A c \in 1..prob.nb : c # i => single'[c] = single[c]
  BY <1>1, <1>3 DEF Tidy, Entered
<1>5. Records'
  BY <1>1 DEF Tidy, Records
<1>6. Finished'
  BY <1>1 DEF Tidy, Finished
<1>7. ASSUME NEW t \in Thread, NEW s \in Nat, NEW q \in 1..Len(CallsIn(prob, t, s)),
             CallsIn(prob, t, s)[q].by = "single"
      PROVE  Column(prob, s) \in 1..prob.nb /\ s % 10 = 3 /\ q = 2
  <2>1. /\ Orderly(CallsIn(prob, t, s)[q], prob, Column(prob, s), s % 10, q)
        /\ s % 10 > 0 => Column(prob, s) \in 1..prob.nb
    BY <1>2, <1>7, SectionOrderly
  <2> QED
    BY <1>7, <2>1 DEF Orderly
<1>8. Entered'
  <2>1. single' \in [1..prob.nb -> Thread \cup {NoThread}]
    BY <1>1 DEF Tidy, Entered
  <2>2. ASSUME NEW t \in Thread, NEW s \in Nat, NEW q \in 1..Len(CallsIn(prob, t, s)),
               CallsIn(prob, t, s)[q].by = "single", Past(t, s, q)
        PROVE  single'[Column(prob, s)] \in Thread
    <3>1. single[Column(prob, s)] \in Thread
      BY <2>2 DEF Tidy, Entered
    <3> QED
      BY <1>4, <1>7, <2>2, <3>1
  <2>3. \A t, s, q : Past(t, s, q)' <=> Past(t, s, q)
    BY <1>1 DEF Past
  <2> QED
    BY <1>1, <2>1, <2>2, <2>3 DEF Entered
<1>9. Kept'
  <2> SUFFICES ASSUME NEW t \in Thread, NEW s \in Nat, NEW q \in 1..Len(CallsIn(prob, t, s)),
                      NEW x \in CallsIn(prob, t, s)[q].writes,
                      x \in Buffer(Cells(prob)), Past(t, s, q)', MadeBy(t, s, q)', Quiet(s, x)'
               PROVE  Latest(s, x)'
    BY <1>1, Zenon DEF Kept
  <2>1. Past(t, s, q) /\ Quiet(s, x)
    BY <1>1 DEF Past, Quiet
  <2>2. MadeBy(t, s, q)
    <3>1. CASE CallsIn(prob, t, s)[q].by = "single"
      <4>1. Column(prob, s) \in 1..prob.nb /\ s % 10 = 3 /\ q = 2
        BY <1>7, <3>1
      <4>2. CASE t = u /\ Column(prob, s) = i
        <5>1. s = r
          BY <1>2, <1>3, <4>1, <4>2, OneSection
        <5> QED
          BY <1>2, <1>3, <2>1, <4>1, <4>2, <5>1 DEF Past
      <4>3. CASE t # u \/ Column(prob, s) # i
        BY <1>1, <1>4, <3>1, <4>1, <4>3 DEF MadeBy
      <4> QED
        BY <4>2, <4>3
    <3> QED
      BY <1>1, <3>1 DEF MadeBy
  <2>3. Latest(s, x)
    BY <2>1, <2>2 DEF Tidy, Kept
  <2> QED
    BY <1>1, <2>3 DEF Latest
<1> QED
  BY <1>5, <1>6, <1>8, <1>9 DEF Tidy

(* The call that thread u makes or skips is the only one that is left      *)
(* behind in the step.                                                     *)
LEMMA LeftBehind ==
  ASSUME IInv, Place, NEW u \in Thread, call' = [call EXCEPT ![u] = @ + 1], passed' = passed,
         NEW t \in Thread, NEW s \in Nat, NEW q \in Nat, Past(t, s, q)'
  PROVE  Past(t, s, q) \/ (t = u /\ s = passed[u] /\ q = call[u])
<1>1. call \in [Thread -> Nat \ {0}]
  BY DEF Place
<1>2. call'[t] = IF t = u THEN call[u] + 1 ELSE call[t]
  BY <1>1
<1>3. call[t] \in Nat
  BY <1>1
<1> QED
  BY <1>2, <1>3 DEF Past

(* MakeCall: what the call writes is now the latest in its cells, since    *)
(* its section is the last one that anybody has come to.                   *)
LEMMA TidyMakes ==
  ASSUME IInv, Place, Tall(prob), Tidy, NEW u \in Thread, MakeCall(u)
  PROVE  Tidy'
<1> DEFINE r == passed[u]
           c == CallsIn(prob, u, r)[call[u]]
           i == Column(prob, r)
           e == <<i, c.name>>
<1>1. /\ hist' = Write(hist, Current(u), Here(u)) /\ call' = [call EXCEPT ![u] = @ + 1]
      /\ UNCHANGED <<pc, passed, prob, single>>
      /\ AtCall(u) /\ Makes(u)
  BY DEF MakeCall, vars
<1>2. /\ prob \in Problem /\ r \in Nat /\ call[u] \in 1..Len(CallsIn(prob, u, r))
      /\ Current(u) = c /\ Here(u) = i /\ pc[u] = "outside"
  BY <1>1, Stand DEF Here, AtCall
<1>3. \A x \in DOMAIN hist : hist'[x] = IF x \in c.writes THEN Append(hist[x], e) ELSE hist[x]
  BY <1>1, <1>2, Zenon DEF Write
<1>4. DOMAIN hist' = DOMAIN hist
  BY <1>1 DEF Write
<1>5. ASSUME NEW x \in c.writes, x \in Buffer(Cells(prob))
      PROVE  /\ x[2] \in FilledIn(prob, r) /\ e = <<Column(prob, r), Filler(r % 10)>>
             /\ e \in Nat \X Fillers
  BY <1>2, <1>5, WritesOnly
<1> HIDE DEF c, e
<1>6. Records'
  <2> SUFFICES ASSUME NEW x \in Buffer(Cells(prob))
               PROVE  x \in DOMAIN hist' /\ hist'[x] \in Seq(Nat \X Fillers)
    BY <1>1 DEF Records
  <2>1. x \in DOMAIN hist /\ hist[x] \in Seq(Nat \X Fillers)
    BY DEF Tidy, Records
  <2>2. CASE x \in c.writes
    <3>1. hist'[x] = Append(hist[x], e) /\ e \in Nat \X Fillers
      BY <1>3, <1>5, <2>1, <2>2
    <3> QED
      BY <1>4, <2>1, <3>1
  <2>3. CASE x \notin c.writes
    BY <1>3, <1>4, <2>1, <2>3
  <2> QED
    BY <2>2, <2>3
<1>7. Entered'
  <2> SUFFICES ASSUME NEW t \in Thread, NEW s \in Nat, NEW q \in 1..Len(CallsIn(prob, t, s)),
                      CallsIn(prob, t, s)[q].by = "single", Past(t, s, q)'
               PROVE  single[Column(prob, s)] \in Thread
    BY <1>1 DEF Tidy, Entered
  <2>1. Past(t, s, q) \/ (t = u /\ s = r /\ q = call[u])
    <3>1. q \in Nat /\ passed' = passed
      BY <1>1
    <3> QED
      BY <1>1, <3>1, LeftBehind, Zenon
  <2>2. CASE Past(t, s, q)
    BY <2>2 DEF Tidy, Entered
  <2>3. CASE t = u /\ s = r /\ q = call[u]
    <3>1. single[i] = u
      BY <1>1, <1>2, <2>3 DEF Makes, c
    <3> QED
      BY <2>3, <3>1
  <2> QED
    BY <2>1, <2>2, <2>3
<1>8. Finished'
  BY <1>1, <1>2 DEF Tidy, Finished, Place
<1>9. Kept'
  <2> SUFFICES ASSUME NEW t \in Thread, NEW s \in Nat, NEW q \in 1..Len(CallsIn(prob, t, s)),
                      NEW x \in CallsIn(prob, t, s)[q].writes,
                      x \in Buffer(Cells(prob)), Past(t, s, q)', MadeBy(t, s, q)', Quiet(s, x)'
               PROVE  Latest(s, x)'
    BY <1>1, Zenon DEF Kept
  <2>1. MadeBy(t, s, q) /\ Quiet(s, x)
    BY <1>1 DEF MadeBy, Quiet
  <2>2. Past(t, s, q) \/ (t = u /\ s = r /\ q = call[u])
    <3>1. q \in Nat /\ passed' = passed
      BY <1>1
    <3> QED
      BY <1>1, <3>1, LeftBehind, Zenon
  <2>3. x \in DOMAIN hist /\ hist[x] \in Seq(Nat \X Fillers)
    BY DEF Tidy, Records
  <2>4. CASE x \in c.writes
    <3>1. ~(r > s)
      <4>1. r > s => r \in (s + 1)..passed[u]
        BY <1>2
      <4> QED
        BY <1>5, <2>1, <2>4, <4>1 DEF Quiet
    <3>2. r >= s
      <4>1. passed[t] >= s
        BY <1>2, <2>2, Together DEF Past
      <4> QED
        BY <1>2, <4>1, Together
    <3>3. r = s
      BY <1>2, <3>1, <3>2
    <3>4. hist'[x] = Append(hist[x], e) /\ e \in Nat \X Fillers /\ e = <<Column(prob, s), Filler(s % 10)>>
      BY <1>3, <1>5, <2>3, <2>4, <3>3
    <3>5. Append(hist[x], e) # <<>> /\ Last(Append(hist[x], e)) = e
      BY <2>3, <3>4 DEF Last
    <3> QED
      BY <1>1, <3>4, <3>5 DEF Latest
  <2>5. CASE x \notin c.writes
    <3>1. Past(t, s, q)
      BY <2>2, <2>5 DEF c
    <3>2. Latest(s, x)
      BY <2>1, <3>1 DEF Tidy, Kept
    <3>3. hist'[x] = hist[x]
      BY <1>3, <2>3, <2>5
    <3> QED
      BY <1>1, <3>2, <3>3 DEF Latest
  <2> QED
    BY <2>4, <2>5
<1> QED
  BY <1>6, <1>7, <1>8, <1>9 DEF Tidy

LEMMA TidySkips ==
  ASSUME IInv, Place, Tall(prob), Tidy, NEW u \in Thread, SkipCall(u)
  PROVE  Tidy'
<1> DEFINE r == passed[u]
<1>1. /\ call' = [call EXCEPT ![u] = @ + 1] /\ UNCHANGED <<pc, passed, prob, single, hist>>
      /\ AtCall(u) /\ ~Makes(u) /\ (Current(u).by = "single" => single[Here(u)] # NoThread)
  BY DEF SkipCall, vars
<1>2. /\ prob \in Problem /\ r \in Nat /\ call[u] \in 1..Len(CallsIn(prob, u, r))
      /\ Current(u) = CallsIn(prob, u, r)[call[u]] /\ Here(u) = Column(prob, r)
      /\ pc[u] = "outside"
  BY <1>1, Stand DEF Here, AtCall
<1>3. Records' /\ Finished'
  BY <1>1, <1>2 DEF Tidy, Records, Finished, Place
<1>4. Entered'
  <2> SUFFICES ASSUME NEW t \in Thread, NEW s \in Nat, NEW q \in 1..Len(CallsIn(prob, t, s)),
                      CallsIn(prob, t, s)[q].by = "single", Past(t, s, q)'
               PROVE  single[Column(prob, s)] \in Thread
    BY <1>1 DEF Tidy, Entered
  <2>1. Past(t, s, q) \/ (t = u /\ s = r /\ q = call[u])
    <3>1. q \in Nat /\ passed' = passed
      BY <1>1
    <3> QED
      BY <1>1, <3>1, LeftBehind, Zenon
  <2>2. CASE Past(t, s, q)
    BY <2>2 DEF Tidy, Entered
  <2>3. CASE t = u /\ s = r /\ q = call[u]
    <3>1. /\ Orderly(CallsIn(prob, u, r)[q], prob, Column(prob, r), r % 10, q)
          /\ r % 10 > 0 => Column(prob, r) \in 1..prob.nb
      BY <1>2, <2>3, SectionOrderly
    <3>2. Column(prob, r) \in 1..prob.nb
      BY <2>3, <3>1 DEF Orderly
    <3> QED
      BY <1>1, <1>2, <2>3, <3>2 DEF Tidy, Entered
  <2> QED
    BY <2>1, <2>2, <2>3
<1>5. Kept'
  <2> SUFFICES ASSUME NEW t \in Thread, NEW s \in Nat, NEW q \in 1..Len(CallsIn(prob, t, s)),
                      NEW x \in CallsIn(prob, t, s)[q].writes,
                      x \in Buffer(Cells(prob)), Past(t, s, q)', MadeBy(t, s, q)', Quiet(s, x)'
               PROVE  Latest(s, x)'
    BY <1>1, Zenon DEF Kept
  <2>1. MadeBy(t, s, q) /\ Quiet(s, x)
    BY <1>1 DEF MadeBy, Quiet
  <2>2. Past(t, s, q)
    <3>1. q \in Nat /\ passed' = passed
      BY <1>1
    <3>2. Past(t, s, q) \/ (t = u /\ s = r /\ q = call[u])
      BY <1>1, <3>1, LeftBehind, Zenon
    <3> QED
      BY <1>1, <1>2, <2>1, <3>2 DEF MadeBy, Makes
  <2>3. Latest(s, x)
    BY <2>1, <2>2 DEF Tidy, Kept
  <2> QED
    BY <1>1, <2>3 DEF Latest
<1> QED
  BY <1>3, <1>4, <1>5 DEF Tidy

(* BarrierWait: a thread comes to the next section with the calls of the   *)
(* present one behind it.                                                  *)
LEMMA TidyWaits ==
  ASSUME IInv, Place, Tall(prob), Tidy, NEW u \in Thread, BarrierWait(u)
  PROVE  Tidy'
<1>1. /\ UNCHANGED <<prob, single, hist>>
      /\ call' = [call EXCEPT ![u] = IF pc'[u] = "outside" THEN 1 ELSE @]
      /\ pc[u] = "outside" => SectionDone(u)
      /\ Step(u)
  BY DEF BarrierWait
<1>2. /\ prob \in Problem /\ \A t \in Thread : passed[t] \in Nat /\ call[t] \in Nat
      /\ \A t \in Thread : Calls(t) = CallsIn(prob, t, passed[t])
      /\ call \in [Thread -> Nat \ {0}]
  BY Stand DEF Place
<1>3. \A t \in Thread \ {u} : pc'[t] = pc[t] /\ passed'[t] = passed[t] /\ call'[t] = call[t]
  BY <1>1, <1>2 DEF Step, Enter, Sync, Arrive, Reset, Publish, Release, Wait, Goto, Leave, IInv, Types
<1>4. call[u] > Len(CallsIn(prob, u, passed[u]))
  BY <1>1, <1>2 DEF SectionDone, Tidy, Finished
<1>5. \/ pc'[u] # "outside" /\ passed'[u] = passed[u] /\ call'[u] = call[u]
      \/ pc'[u] = "outside" /\ passed'[u] = passed[u] + 1 /\ call'[u] = 1
  <2>1. \/ pc'[u] # "outside" /\ passed'[u] = passed[u]
        \/ pc'[u] = "outside" /\ passed'[u] = passed[u] + 1
    BY <1>1 DEF Step, Enter, Sync, Arrive, Reset, Publish, Release, Wait, Goto, Leave, IInv, Types
  <2> QED
    BY <1>1, <1>2, <2>1
<1>6. ASSUME NEW t \in Thread, NEW s \in Nat, NEW q \in 1..Len(CallsIn(prob, t, s)), Past(t, s, q)'
      PROVE  Past(t, s, q)
  <2>1. CASE t # u
    BY <1>3, <1>6, <2>1 DEF Past
  <2>2. CASE t = u
    <3>1. CASE s = passed[u]
      BY <1>2, <1>4, <2>2, <3>1 DEF Past
    <3>2. CASE s # passed[u]
      BY <1>2, <1>5, <1>6, <2>2, <3>2 DEF Past
    <3> QED
      BY <3>1, <3>2
  <2> QED
    BY <2>1, <2>2
<1>7. Records'
  BY <1>1 DEF Tidy, Records
<1>8. Entered'
  BY <1>1, <1>6 DEF Tidy, Entered
<1>9. Finished'
  BY <1>1, <1>3, <1>4, <1>5 DEF Tidy, Finished
<1>10. Kept'
  <2> SUFFICES ASSUME NEW t \in Thread, NEW s \in Nat, NEW q \in 1..Len(CallsIn(prob, t, s)),
                      NEW x \in CallsIn(prob, t, s)[q].writes,
                      x \in Buffer(Cells(prob)), Past(t, s, q)', MadeBy(t, s, q)', Quiet(s, x)'
               PROVE  Latest(s, x)'
    BY <1>1, Zenon DEF Kept
  <2>1. MadeBy(t, s, q)
    BY <1>1 DEF MadeBy
  <2>2. Past(t, s, q)
    BY <1>6
  <2>3. Quiet(s, x)
    <3> SUFFICES ASSUME NEW v \in Thread, NEW r \in (s + 1)..passed[v]
                 PROVE  x[2] \notin FilledIn(prob, r)
      BY DEF Quiet
    <3>1. r \in (s + 1)..passed'[v]
      BY <1>2, <1>3, <1>5
    <3> QED
      BY <1>1, <3>1 DEF Quiet
  <2>4. Latest(s, x)
    BY <2>1, <2>2, <2>3 DEF Tidy, Kept
  <2> QED
    BY <1>1, <2>4 DEF Latest
<1> QED
  BY <1>7, <1>8, <1>9, <1>10 DEF Tidy

LEMMA TidyNext ==
  IInv /\ Place /\ (Tall(prob) => Tidy) /\ [LabrdNext]_labrdVars => (Tall(prob) => Tidy)'
<1> SUFFICES ASSUME IInv, Place, Tall(prob) => Tidy, [LabrdNext]_labrdVars, Tall(prob)' PROVE Tidy'
  OBVIOUS
<1>1. prob' = prob
  BY DEF LabrdNext, Work, EnterSingle, MakeCall, SkipCall, BarrierWait, Returned, labrdVars
<1>2. Tall(prob) /\ Tidy
  BY <1>1
<1>3. CASE UNCHANGED labrdVars
  BY <1>2, <1>3 DEF labrdVars, vars, Tidy, Records, Entered, Finished, Kept, Past, MadeBy, Quiet, Latest
<1>4. ASSUME NEW u \in Thread, Work(u) PROVE Tidy'
  BY <1>2, <1>4, TidyEnters, TidyMakes, TidySkips, TidyWaits DEF Work
<1> QED
  BY <1>3, <1>4 DEF LabrdNext, Returned

(* The thread whose call filled a cell that thread t is about to read has  *)
(* that call behind it, because it has come to the section of t or waits   *)
(* at the barrier in front of it.                                          *)
LEMMA CellCurrent ==
  ASSUME IInv, Place, Tall(prob), Tidy, NEW t \in Thread, Performing(t),
         NEW x \in Current(t).reads, x \in Buffer(Cells(prob))
  PROVE  hist[x] # <<>> /\ Last(hist[x]) = <<Here(t), FilledBy[Current(t).name]>>
<1> DEFINE s == passed[t]
           i == Column(prob, s)
<1>1. /\ prob \in Problem /\ s \in Nat /\ call[t] \in 1..Len(CallsIn(prob, t, s))
      /\ Current(t) = CallsIn(prob, t, s)[call[t]] /\ Here(t) = i /\ pc[t] = "outside"
  BY Stand DEF Performing, AtCall, Here
<1>2. IsCell(x)
  BY WhichCells
<1>3. PICK r : Source(prob, r, s, x, Current(t).name)
  BY <1>1, <1>2, ReadsFrom
<1>4. r \in Nat /\ r < s /\ r <= Barriers(prob)
  <2>1. s <= Barriers(prob) /\ Barriers(prob) \in Nat
    BY <1>1, SectionOrderly, Sizes DEF Barriers, PerColumn
  <2> QED
    BY <1>1, <1>3, <2>1 DEF Source
<1>5. Quiet(r, x)
  <2> SUFFICES ASSUME NEW u \in Thread, NEW l \in (r + 1)..passed[u]
               PROVE  x[2] \notin FilledIn(prob, l)
    BY DEF Quiet
  <2>1. passed[u] \in Nat /\ passed[u] <= s
    BY <1>1, Together
  <2>2. l \in (r + 1)..s
    BY <1>1, <1>4, <2>1
  <2> QED
    BY <1>3, <2>2 DEF Source
<1>6. ASSUME NEW u \in Thread, NEW q \in 1..Len(CallsIn(prob, u, r)) PROVE Past(u, r, q)
  <2>1. passed[u] \in Nat /\ s <= passed[u] + 1 /\ (pc[u] = "outside" => s <= passed[u])
    BY Together
  <2>2. CASE passed[u] > r
    BY <2>2 DEF Past
  <2>3. CASE ~(passed[u] > r)
    <3>1. passed[u] = r /\ pc[u] # "outside"
      <4>1. s \in Nat /\ r < s
        BY <1>1, <1>4
      <4> QED
        BY <1>4, <2>1, <2>3, <4>1
    <3>2. call[u] > Len(CallsIn(prob, u, r)) /\ call[u] \in Nat
      BY <3>1, Stand DEF Tidy, Finished
    <3> QED
      BY <3>1, <3>2 DEF Past
  <2> QED
    BY <2>2, <2>3
<1>7. ASSUME NEW u \in Thread, NEW q \in 1..2, NEW by, Fill(prob, u, r, q, x, by), MadeBy(u, r, q)
      PROVE  Latest(r, x)
  BY <1>4, <1>5, <1>6, <1>7 DEF Fill, Tidy, Kept
<1>8. Latest(r, x)
  <2>1. \/ \E u \in Thread : Fill(prob, u, r, 1, x, "all") \/ Fill(prob, u, r, 2, x, "all")
        \/ \A u \in Thread : Fill(prob, u, r, 2, x, "single")
    BY <1>1, <1>3, <1>4, Somebody DEF Source
  <2>2. ASSUME NEW u \in Thread, NEW q \in 1..2, Fill(prob, u, r, q, x, "all") PROVE Latest(r, x)
    BY <1>7, <2>2 DEF Fill, MadeBy
  <2>3. CASE \A u \in Thread : Fill(prob, u, r, 2, x, "single")
    <3>1. single[Column(prob, r)] \in Thread
      <4>1. Past(t, r, 2) /\ Fill(prob, t, r, 2, x, "single")
        BY <1>6, <2>3 DEF Fill
      <4> QED
        BY <1>4, <4>1 DEF Fill, Tidy, Entered
    <3>2. PICK u \in Thread : u = single[Column(prob, r)]
      BY <3>1
    <3>3. Fill(prob, u, r, 2, x, "single") /\ MadeBy(u, r, 2)
      BY <2>3, <3>2 DEF Fill, MadeBy
    <3> QED
      BY <1>7, <3>3
  <2> QED
    BY <2>1, <2>2, <2>3
<1> QED
  BY <1>1, <1>3, <1>8 DEF Source, Latest

(* A call finds in the row buffer what was computed for it in its column,  *)
(* for every matrix with no more columns than rows and every team: neither *)
(* what an earlier section or column has left there nor what a later one   *)
(* puts there, although all share its cells.                               *)
THEOREM BufferHolds == LabrdSpec => []BufferCurrent
<1>1. Begin => (Tall(prob) => Tidy)
  BY TidyInit
<1>2. IInv /\ Place /\ (Tall(prob) => Tidy) => BufferCurrent
  <2> SUFFICES ASSUME IInv, Place, Tall(prob), Tidy, NEW t \in Thread, Performing(t),
                      NEW x \in Current(t).reads \cap Buffer(Cells(prob))
               PROVE  hist[x] # <<>> /\ Last(hist[x]) = <<Here(t), FilledBy[Current(t).name]>>
    BY DEF BufferCurrent
  <2> QED
    BY CellCurrent
<1> QED
  BY <1>1, <1>2, TidyNext, PlaceHolds, PTL DEF LabrdSpec

-----------------------------------------------------------------------------
(* The serial result.                                                      *)

(* The place of a call in the order of a column, as the team records it:   *)
(* the last call of a column comes first in the next one.                  *)
Rank(p, name) ==
  IF Tall(p)
  THEN CASE name = "scale x" -> 0         [] name = "update a column" -> 1
         [] name = "larfg q" -> 2         [] name = "y" -> 3
         [] name = "exchange y" -> 4      [] name = "update y by y" -> 5
         [] name = "update y by a" -> 6   [] name = "update a row" -> 7
         [] name = "larfg p" -> 8         [] name = "x" -> 9
         [] name = "buffer y a" -> 10     [] name = "update x" -> 11
         [] name = "x above" -> 12        [] OTHER -> 0
  ELSE CASE name = "finish y" -> 0        [] name = "row and larfg p" -> 1
         [] name = "x" -> 2               [] name = "finish x, column and larfg q" -> 3
         [] name = "y" -> 4               [] OTHER -> 0

(* The moment of a call of the serial reduction, and that of a record.     *)
Moment(p, w) == PerSerialColumn(p) * w[1] + w[2]
Time(p, e) == PerSerialColumn(p) * e[1] + Rank(p, e[2])

Turns(p) == (1..p.nb) \X (1..PerSerialColumn(p))

LEMMA TallRank ==
  ASSUME NEW p, Tall(p)
  PROVE  /\ Rank(p, "update a column") = 1 /\ Rank(p, "larfg q") = 2 /\ Rank(p, "y") = 3
         /\ Rank(p, "exchange y") = 4 /\ Rank(p, "update y by y") = 5
         /\ Rank(p, "update y by a") = 6 /\ Rank(p, "update a row") = 7
         /\ Rank(p, "larfg p") = 8 /\ Rank(p, "x") = 9 /\ Rank(p, "buffer y a") = 10
         /\ Rank(p, "update x") = 11 /\ Rank(p, "x above") = 12 /\ Rank(p, "scale x") = 0
BY DEF Rank

LEMMA WideRank ==
  ASSUME NEW p, ~Tall(p)
  PROVE  /\ Rank(p, "row and larfg p") = 1 /\ Rank(p, "x") = 2
         /\ Rank(p, "finish x, column and larfg q") = 3 /\ Rank(p, "y") = 4
         /\ Rank(p, "finish y") = 0
BY DEF Rank

(* The rank of the n-th call of a column.                                  *)
LEMMA SerialRank ==
  ASSUME NEW p, NEW i, NEW n \in 1..PerSerialColumn(p)
  PROVE  Rank(p, SerialColumn(p, i)[n][1]) = IF n = PerSerialColumn(p) THEN 0 ELSE n
<1>1. CASE Tall(p)
  <2> DEFINE N(l) == SerialColumn(p, i)[l][1]
  <2>1. /\ N(1) = "update a column"
        /\ N(2) = "larfg q"
        /\ N(3) = "y"
        /\ N(4) = "exchange y"
        /\ N(5) = "update y by y"
        /\ N(6) = "update y by a"
        /\ N(7) = "update a row"
        /\ N(8) = "larfg p"
        /\ N(9) = "x"
        /\ N(10) = "buffer y a"
        /\ N(11) = "update x"
        /\ N(12) = "x above"
        /\ N(13) = "scale x"
    BY <1>1 DEF SerialColumn
  <2> HIDE DEF N
  <2> DEFINE Q(l) == Rank(p, N(l))
  <2>2. Q(1) = 1 /\ Q(2) = 2 /\ Q(3) = 3 /\ Q(4) = 4 /\ Q(5) = 5 /\ Q(6) = 6
    BY <1>1, <2>1, TallRank
  <2>3. Q(7) = 7 /\ Q(8) = 8 /\ Q(9) = 9 /\ Q(10) = 10 /\ Q(11) = 11 /\ Q(12) = 12 /\ Q(13) = 0
    BY <1>1, <2>1, TallRank
  <2>4. PerSerialColumn(p) = 13
    BY <1>1 DEF PerSerialColumn
  <2> HIDE DEF Q
  <2>5. Q(n) = IF n = 13 THEN 0 ELSE n
    BY <2>2, <2>3, <2>4
  <2> QED
    BY <2>4, <2>5 DEF Q, N
<1>2. CASE ~Tall(p)
  <2> DEFINE R(l) == Rank(p, SerialColumn(p, i)[l][1])
  <2>1. R(1) = 1 /\ R(2) = 2 /\ R(3) = 3 /\ R(4) = 4 /\ R(5) = 0
    BY <1>2, WideRank DEF SerialColumn
  <2>2. PerSerialColumn(p) = 5
    BY <1>2 DEF PerSerialColumn
  <2> HIDE DEF R
  <2>3. R(n) = IF n = 5 THEN 0 ELSE n
    BY <2>1, <2>2
  <2> QED
    BY <2>2, <2>3 DEF R
<1> QED
  BY <1>1, <1>2

(* A record tells the moment of its call.                                  *)
LEMMA RecordTime ==
  ASSUME NEW p \in Problem, NEW w \in Turns(p)
  PROVE  /\ w[1] \in 1..p.nb /\ w[2] \in 1..PerSerialColumn(p) /\ PerSerialColumn(p) \in {5, 13}
         /\ Time(p, Record(p, w)) = Moment(p, w) /\ Moment(p, w) \in Nat
<1>1. w[1] \in 1..p.nb /\ w[2] \in 1..PerSerialColumn(p) /\ p.nb \in Nat
  BY Sizes DEF Turns
<1>2. PerSerialColumn(p) \in {5, 13}
  BY DEF PerSerialColumn
<1>3. /\ Record(p, w)[1] = IF w[2] = PerSerialColumn(p) THEN w[1] + 1 ELSE w[1]
      /\ Record(p, w)[2] = SerialColumn(p, w[1])[w[2]][1]
  BY DEF Record, SerialCall
<1>4. Rank(p, Record(p, w)[2]) = IF w[2] = PerSerialColumn(p) THEN 0 ELSE w[2]
  BY <1>1, <1>3, SerialRank
<1> QED
  BY <1>1, <1>2, <1>3, <1>4 DEF Time, Moment

-----------------------------------------------------------------------------
(* The calls c of the threads together are the call name that writes S:    *)
(* each writes elements of S only, and each element of S is written by one.*)
Spread(c, name, S) ==
  /\ \A t \in Thread : c[t].name = name /\ c[t].by # "single"
  /\ \A t \in Thread : c[t].by = "all" => \A x \in c[t].writes : ~IsCell(x) => x \in S
  /\ \A x \in S : \E t \in Thread : c[t].by = "all" /\ x \in c[t].writes

LEMMA PartsSpread ==
  ASSUME NEW c, NEW part, NEW name, NEW S, NEW j, NEW range,
         \A t \in Thread : c[t].name = name /\ c[t].by = IF part[t] = {} THEN "nobody" ELSE "all",
         \A t \in Thread : \A x : ~IsCell(x) => (x \in c[t].writes <=> x \in S /\ x[j] \in part[t]),
         \A x \in S : ~IsCell(x) /\ x[j] \in range,
         \A e \in range : \E t \in Thread : e \in part[t]
  PROVE  Spread(c, name, S)
<1>1. ASSUME NEW x \in S PROVE \E t \in Thread : c[t].by = "all" /\ x \in c[t].writes
  <2>1. PICK t \in Thread : x[j] \in part[t]
    BY <1>1
  <2> QED
    BY <1>1, <2>1
<1> QED
  BY <1>1 DEF Spread

LEMMA OnlySpread ==
  ASSUME NEW c, NEW name, NEW S,
         \A t \in Thread : c[t].name = name /\ c[t].by = IF t = 0 THEN "all" ELSE "nobody",
         \A t \in Thread : \A x : ~IsCell(x) => (x \in c[t].writes <=> x \in S),
         \A x \in S : ~IsCell(x)
  PROVE  Spread(c, name, S)
<1>1. 0 \in Thread
  BY NThreadsAssumption DEF Thread
<1> QED
  BY <1>1 DEF Spread

(* The parts of a range, in whole cache lines and in equal shares.         *)
LEMMA SharesCover ==
  ASSUME NEW rg \in Nat, NEW first \in Nat
  PROVE  /\ \A t \in Thread : Shares(t, first, rg) \subseteq (first + 1)..(first + rg)
         /\ \A e \in (first + 1)..(first + rg) : \E t \in Thread : e \in Shares(t, first, rg)
<1>1. ElemSize \in Nat /\ NThreads \in Nat /\ NThreads > 0
  BY ProblemAssumption, NThreadsAssumption
<1> DEFINE s == [i \in 0..(NThreads - 1) |-> FLA_Thread_get_subrange(i, NThreads, rg)]
           r == [i \in 0..(NThreads - 1) |-> Share(FALSE, i, NThreads, ElemSize, rg)]
<1>2. s = r
  BY DEF Share
<1>3. Tiles(s, NThreads, rg)
  <2>1. Tiles(r, NThreads, rg)
    BY <1>1, SharesTile
  <2> QED
    BY <1>2, <2>1
<1>4. ASSUME NEW v \in Thread
      PROVE  \E a \in Nat, b \in Nat : /\ s[v].index = a /\ s[v].sub_range = b /\ a + b <= rg
                                       /\ Shares(v, first, rg) = (first + a + 1)..(first + a + b)
  <2>1. Shares(v, first, rg) = (first + s[v].index + 1)..(first + s[v].index + s[v].sub_range)
    BY DEF Shares, Thread
  <2> HIDE DEF s
  <2>2. PICK a \in Nat, b \in Nat : s[v].index = a /\ s[v].sub_range = b /\ a + b <= rg
    BY <1>3 DEF Tiles, Thread
  <2> QED
    BY <2>1, <2>2
<1> HIDE DEF s
<1>5. ASSUME NEW e \in (first + 1)..(first + rg)
      PROVE  \E t \in Thread : e \in Shares(t, first, rg)
  <2>1. e - first - 1 \in 0..(rg - 1)
    OBVIOUS
  <2>2. PICK t \in Thread : s[t].index <= e - first - 1 /\ e - first - 1 < s[t].index + s[t].sub_range
    BY <1>3, <2>1 DEF Tiles, Thread
  <2>3. PICK a \in Nat, b \in Nat : /\ s[t].index = a /\ s[t].sub_range = b
                                    /\ Shares(t, first, rg) = (first + a + 1)..(first + a + b)
    BY <1>4
  <2>4. e \in Shares(t, first, rg)
    BY <2>2, <2>3
  <2> QED
    BY <2>4
<1>6. ASSUME NEW t \in Thread PROVE Shares(t, first, rg) \subseteq (first + 1)..(first + rg)
  BY <1>4
<1> QED
  BY <1>5, <1>6

(* Elements of an array whose row, or column, is in a part.                *)
LEMMA InPart ==
  ASSUME NEW part, NEW all, part \subseteq all, NEW other, NEW x
  PROVE  /\ x \in A(part, other) <=> x \in A(all, other) /\ x[2] \in part
         /\ x \in X(part, other) <=> x \in X(all, other) /\ x[2] \in part
         /\ x \in Y(part, other) <=> x \in Y(all, other) /\ x[2] \in part
         /\ x \in A(other, part) <=> x \in A(other, all) /\ x[3] \in part
<1>1. x \in A(part, other) <=> x \in A(all, other) /\ x[2] \in part
  BY DEF A
<1>2. x \in X(part, other) <=> x \in X(all, other) /\ x[2] \in part
  BY DEF X
<1>3. x \in Y(part, other) <=> x \in Y(all, other) /\ x[2] \in part
  BY DEF Y
<1>4. x \in A(other, part) <=> x \in A(other, all) /\ x[3] \in part
  BY DEF A
<1> QED
  BY <1>1, <1>2, <1>3, <1>4

(* The parts of the threads make up the whole.                             *)
Parted(part, all) ==
  /\ \A t \in Thread : part[t] \subseteq all
  /\ \A e \in all : \E t \in Thread : e \in part[t]

LEMMA LinesRange ==
  ASSUME NEW N \in Nat, N > 0, N <= NThreads, NEW first \in Nat, NEW rg \in Nat,
         NEW low, NEW last, low = first + 1, last = first + rg
  PROVE  Parted([t \in Thread |-> Lines(t, N, first, rg)], low..last)
BY LinesCover DEF Parted

LEMMA SharesRange ==
  ASSUME NEW first \in Nat, NEW rg \in Nat, NEW low, NEW last, low = first + 1, last = first + rg
  PROVE  Parted([t \in Thread |-> Shares(t, first, rg)], low..last)
BY SharesCover DEF Parted

(* A call that every thread makes for its part of the rows of an array, or *)
(* of the columns.                                                         *)
LEMMA PartSpread ==
  ASSUME NEW c, NEW part, NEW name, NEW all, NEW other,
         Parted(part, all),
         \A t \in Thread : c[t].name = name /\ c[t].by = IF part[t] = {} THEN "nobody" ELSE "all"
  PROVE  /\ (\A t \in Thread : \A x : ~IsCell(x) => (x \in c[t].writes <=> x \in A(part[t], other)))
              => Spread(c, name, A(all, other))
         /\ (\A t \in Thread : \A x : ~IsCell(x) => (x \in c[t].writes <=> x \in X(part[t], other)))
              => Spread(c, name, X(all, other))
         /\ (\A t \in Thread : \A x : ~IsCell(x) => (x \in c[t].writes <=> x \in Y(part[t], other)))
              => Spread(c, name, Y(all, other))
         /\ (\A t \in Thread : \A x : ~IsCell(x) => (x \in c[t].writes <=> x \in A(other, part[t])))
              => Spread(c, name, A(other, all))
<1>1. ASSUME NEW S, NEW j, \A x \in S : ~IsCell(x) /\ x[j] \in all,
             \A t \in Thread : \A x : ~IsCell(x) => (x \in c[t].writes <=> x \in S /\ x[j] \in part[t])
      PROVE  Spread(c, name, S)
  BY <1>1, PartsSpread DEF Parted
<1>2. ASSUME \A t \in Thread : \A x : ~IsCell(x) => (x \in c[t].writes <=> x \in A(part[t], other))
      PROVE  Spread(c, name, A(all, other))
  <2>1. \A x \in A(all, other) : ~IsCell(x) /\ x[2] \in all
    BY WhichCells, Elements
  <2>2. \A t \in Thread : \A x : x \in A(part[t], other) <=> x \in A(all, other) /\ x[2] \in part[t]
    BY InPart DEF Parted
  <2> QED
    BY <1>1, <1>2, <2>1, <2>2
<1>3. ASSUME \A t \in Thread : \A x : ~IsCell(x) => (x \in c[t].writes <=> x \in X(part[t], other))
      PROVE  Spread(c, name, X(all, other))
  <2>1. \A x \in X(all, other) : ~IsCell(x) /\ x[2] \in all
    BY WhichCells, Elements
  <2>2. \A t \in Thread : \A x : x \in X(part[t], other) <=> x \in X(all, other) /\ x[2] \in part[t]
    BY InPart DEF Parted
  <2> QED
    BY <1>1, <1>3, <2>1, <2>2
<1>4. ASSUME \A t \in Thread : \A x : ~IsCell(x) => (x \in c[t].writes <=> x \in Y(part[t], other))
      PROVE  Spread(c, name, Y(all, other))
  <2>1. \A x \in Y(all, other) : ~IsCell(x) /\ x[2] \in all
    BY WhichCells, Elements
  <2>2. \A t \in Thread : \A x : x \in Y(part[t], other) <=> x \in Y(all, other) /\ x[2] \in part[t]
    BY InPart DEF Parted
  <2> QED
    BY <1>1, <1>4, <2>1, <2>2
<1>5. ASSUME \A t \in Thread : \A x : ~IsCell(x) => (x \in c[t].writes <=> x \in A(other, part[t]))
      PROVE  Spread(c, name, A(other, all))
  <2>1. \A x \in A(other, all) : ~IsCell(x) /\ x[3] \in all
    BY WhichCells, Elements
  <2>2. \A t \in Thread : \A x : x \in A(other, part[t]) <=> x \in A(other, all) /\ x[3] \in part[t]
    BY InPart DEF Parted
  <2> QED
    BY <1>1, <1>5, <2>1, <2>2
<1> QED
  BY <1>2, <1>3, <1>4, <1>5

(* The calls of each section, for m >= n.                                  *)
LEMMA FinishXSpread ==
  ASSUME NEW p \in Problem, NEW i \in 1..p.nb
  PROVE  /\ \A t \in Thread : Len(FinishX(p, t, i)) = 1
         /\ Spread([t \in Thread |-> FinishX(p, t, i)[1]], "scale x", X((i + 1)..p.m, {i}))
<1>1. \A t \in Thread : Len(FinishX(p, t, i)) = 1
  BY DEF FinishX
<1>2. Spread([t \in Thread |-> FinishX(p, t, i)[1]], "scale x", X((i + 1)..p.m, {i}))
  <2> DEFINE part == [t \in Thread |-> Lines(t, Optimal, i, p.m - i)]
             c    == [t \in Thread |-> FinishX(p, t, i)[1]]
             all  == (i + 1)..p.m
  <2>1. i \in Nat /\ p.m - i \in Nat /\ i + 1 = i + 1 /\ p.m = i + (p.m - i)
    BY Sizes
  <2>2. Parted(part, all)
    BY <2>1, Teams, LinesRange
  <2>3. \A t \in Thread : /\ c[t].name = "scale x"
                          /\ c[t].by = IF part[t] = {} THEN "nobody" ELSE "all"
                          /\ c[t].writes = X(part[t], {i})
    BY DEF FinishX, Team
  <2> HIDE DEF c, part, all
  <2>4. \A t \in Thread : \A x : ~IsCell(x) => (x \in c[t].writes <=> x \in X(part[t], {i}))
    BY <2>3
  <2>5. Spread(c, "scale x", X(all, {i}))
    BY <2>2, <2>3, <2>4, PartSpread
  <2> QED
    BY <2>5 DEF c, all
<1> QED
  BY <1>1, <1>2

LEMMA UpdateColumnSpread ==
  ASSUME NEW p \in Problem, NEW i \in 1..p.nb
  PROVE  /\ \A t \in Thread : Len(UpdateColumn(p, t, i)) = 1
         /\ Spread([t \in Thread |-> UpdateColumn(p, t, i)[1]], "update a column", A(i..p.m, {i}))
<1>1. \A t \in Thread : Len(UpdateColumn(p, t, i)) = 1
  BY DEF UpdateColumn
<1>2. Spread([t \in Thread |-> UpdateColumn(p, t, i)[1]], "update a column", A(i..p.m, {i}))
  <2> DEFINE part == [t \in Thread |-> Lines(t, NThreads, i - 1, p.m - i + 1)]
             c    == [t \in Thread |-> UpdateColumn(p, t, i)[1]]
             all  == i..p.m
  <2>1. i - 1 \in Nat /\ p.m - i + 1 \in Nat /\ i = i - 1 + 1 /\ p.m = i - 1 + (p.m - i + 1)
    BY Sizes
  <2>2. Parted(part, all)
    BY <2>1, Teams, LinesRange
  <2>3. \A t \in Thread : /\ c[t].name = "update a column"
                          /\ c[t].by = IF part[t] = {} THEN "nobody" ELSE "all"
                          /\ c[t].writes = A(part[t], {i})
    BY DEF UpdateColumn, Team
  <2> HIDE DEF c, part, all
  <2>4. \A t \in Thread : \A x : ~IsCell(x) => (x \in c[t].writes <=> x \in A(part[t], {i}))
    BY <2>3
  <2>5. Spread(c, "update a column", A(all, {i}))
    BY <2>2, <2>3, <2>4, PartSpread
  <2> QED
    BY <2>5 DEF c, all
<1> QED
  BY <1>1, <1>2

LEMMA ReflectColumnSpread ==
  ASSUME NEW p, NEW i
  PROVE  /\ \A t \in Thread : Len(ReflectColumn(p, t, i)) = 1
         /\ Spread([t \in Thread |-> ReflectColumn(p, t, i)[1]], "larfg q",
                   A(i..p.m, {i}) \cup Tau("tauq", i))
<1> DEFINE c == [t \in Thread |-> ReflectColumn(p, t, i)[1]]
           S == A(i..p.m, {i}) \cup Tau("tauq", i)
<1>1. \A t \in Thread : Len(ReflectColumn(p, t, i)) = 1
  BY DEF ReflectColumn
<1>2. \A t \in Thread : c[t].name = "larfg q" /\ c[t].by = IF t = 0 THEN "all" ELSE "nobody"
  BY DEF ReflectColumn, Only
<1>3. \A t \in Thread : c[t].writes = S
  BY DEF ReflectColumn, Only
<1>4. \A x \in S : ~IsCell(x)
  BY WhichCells
<1> HIDE DEF c, S
<1>5. Spread(c, "larfg q", S)
  BY <1>2, <1>3, <1>4, OnlySpread
<1> QED
  BY <1>1, <1>5 DEF c, S

LEMMA MultiplyColumnSpread ==
  ASSUME NEW p \in Problem, NEW i \in 1..p.nb
  PROVE  /\ \A t \in Thread : Len(MultiplyColumn(p, t, i)) = 2
         /\ Spread([t \in Thread |-> MultiplyColumn(p, t, i)[1]], "y", Y((i + 1)..p.n, {i}))
<1>1. \A t \in Thread : Len(MultiplyColumn(p, t, i)) = 2
  BY DEF MultiplyColumn
<1>2. Spread([t \in Thread |-> MultiplyColumn(p, t, i)[1]], "y", Y((i + 1)..p.n, {i}))
  <2> DEFINE part == [t \in Thread |-> Lines(t, NThreads, i, p.n - i)]
             c    == [t \in Thread |-> MultiplyColumn(p, t, i)[1]]
             all  == (i + 1)..p.n
  <2>1. i \in Nat /\ p.n - i \in Nat /\ i + 1 = i + 1 /\ p.n = i + (p.n - i)
    BY Sizes
  <2>2. Parted(part, all)
    BY <2>1, Teams, LinesRange
  <2>3. \A t \in Thread : /\ c[t].name = "y"
                          /\ c[t].by = IF part[t] = {} THEN "nobody" ELSE "all"
                          /\ c[t].writes = Y(part[t], {i})
    BY DEF MultiplyColumn, Team, Single
  <2> HIDE DEF c, part, all
  <2>4. \A t \in Thread : \A x : ~IsCell(x) => (x \in c[t].writes <=> x \in Y(part[t], {i}))
    BY <2>3
  <2>5. Spread(c, "y", Y(all, {i}))
    BY <2>2, <2>3, <2>4, PartSpread
  <2> QED
    BY <2>5 DEF c, all
<1> QED
  BY <1>1, <1>2

LEMMA ExchangeYSpread ==
  ASSUME NEW p \in Problem, NEW i \in 1..p.nb
  PROVE  /\ \A t \in Thread : Len(ExchangeY(p, t, i)) = 1
         /\ Spread([t \in Thread |-> ExchangeY(p, t, i)[1]], "exchange y", Y(1..(i - 1), {i}))
<1>1. \A t \in Thread : Len(ExchangeY(p, t, i)) = 1
  BY DEF ExchangeY
<1>2. Spread([t \in Thread |-> ExchangeY(p, t, i)[1]], "exchange y", Y(1..(i - 1), {i}))
  <2> DEFINE part == [t \in Thread |-> Lines(t, Optimal, 0, i - 1)]
             c    == [t \in Thread |-> ExchangeY(p, t, i)[1]]
             all  == 1..(i - 1)
             cells == [t \in Thread |-> {2 * p.nb + e - 1 : e \in part[t]}]
  <2>1. 0 \in Nat /\ i - 1 \in Nat /\ 1 = 0 + 1 /\ i - 1 = 0 + (i - 1)
    BY Sizes
  <2>2. Parted(part, all)
    BY <2>1, Teams, LinesRange
  <2>3. \A t \in Thread : /\ c[t].name = "exchange y"
                          /\ c[t].by = IF part[t] = {} THEN "nobody" ELSE "all"
                          /\ c[t].writes = Y(part[t], {i}) \cup Buffer(cells[t])
    BY DEF ExchangeY, Team
  <2> HIDE DEF c, part, all, cells
  <2>4. \A t \in Thread : \A x : ~IsCell(x) => (x \in c[t].writes <=> x \in Y(part[t], {i}))
    BY <2>3, WhichCells, ZenonT(60)
  <2>5. Spread(c, "exchange y", Y(all, {i}))
    BY <2>2, <2>3, <2>4, PartSpread
  <2> QED
    BY <2>5 DEF c, all
<1> QED
  BY <1>1, <1>2

LEMMA UpdateYSpread ==
  ASSUME NEW p \in Problem, NEW i \in 1..p.nb
  PROVE  /\ \A t \in Thread : Len(UpdateY(p, t, i)) = 2
         /\ Spread([t \in Thread |-> UpdateY(p, t, i)[1]], "update y by y", Y((i + 1)..p.n, {i}))
         /\ Spread([t \in Thread |-> UpdateY(p, t, i)[2]], "update y by a", Y((i + 1)..p.n, {i}))
<1>1. \A t \in Thread : Len(UpdateY(p, t, i)) = 2
  BY DEF UpdateY
<1>2. Spread([t \in Thread |-> UpdateY(p, t, i)[1]], "update y by y", Y((i + 1)..p.n, {i}))
  <2> DEFINE part == [t \in Thread |-> Lines(t, Optimal, i, p.n - i)]
             c    == [t \in Thread |-> UpdateY(p, t, i)[1]]
             all  == (i + 1)..p.n
  <2>1. i \in Nat /\ p.n - i \in Nat /\ i + 1 = i + 1 /\ p.n = i + (p.n - i)
    BY Sizes
  <2>2. Parted(part, all)
    BY <2>1, Teams, LinesRange
  <2>3. \A t \in Thread : /\ c[t].name = "update y by y"
                          /\ c[t].by = IF part[t] = {} THEN "nobody" ELSE "all"
                          /\ c[t].writes = Y(part[t], {i})
    BY DEF UpdateY, Team
  <2> HIDE DEF c, part, all
  <2>4. \A t \in Thread : \A x : ~IsCell(x) => (x \in c[t].writes <=> x \in Y(part[t], {i}))
    BY <2>3
  <2>5. Spread(c, "update y by y", Y(all, {i}))
    BY <2>2, <2>3, <2>4, PartSpread
  <2> QED
    BY <2>5 DEF c, all
<1>3. Spread([t \in Thread |-> UpdateY(p, t, i)[2]], "update y by a", Y((i + 1)..p.n, {i}))
  <2> DEFINE part == [t \in Thread |-> Lines(t, Optimal, i, p.n - i)]
             c    == [t \in Thread |-> UpdateY(p, t, i)[2]]
             all  == (i + 1)..p.n
  <2>1. i \in Nat /\ p.n - i \in Nat /\ i + 1 = i + 1 /\ p.n = i + (p.n - i)
    BY Sizes
  <2>2. Parted(part, all)
    BY <2>1, Teams, LinesRange
  <2>3. \A t \in Thread : /\ c[t].name = "update y by a"
                          /\ c[t].by = IF part[t] = {} THEN "nobody" ELSE "all"
                          /\ c[t].writes = Y(part[t], {i})
    BY DEF UpdateY, Team
  <2> HIDE DEF c, part, all
  <2>4. \A t \in Thread : \A x : ~IsCell(x) => (x \in c[t].writes <=> x \in Y(part[t], {i}))
    BY <2>3
  <2>5. Spread(c, "update y by a", Y(all, {i}))
    BY <2>2, <2>3, <2>4, PartSpread
  <2> QED
    BY <2>5 DEF c, all
<1> QED
  BY <1>1, <1>2, <1>3

LEMMA UpdateRowSpread ==
  ASSUME NEW p \in Problem, NEW i \in 1..p.nb
  PROVE  /\ \A t \in Thread : Len(UpdateRow(p, t, i)) = 1
         /\ Spread([t \in Thread |-> UpdateRow(p, t, i)[1]], "update a row", A({i}, (i + 1)..p.n))
<1>1. \A t \in Thread : Len(UpdateRow(p, t, i)) = 1
  BY DEF UpdateRow
<1>2. Spread([t \in Thread |-> UpdateRow(p, t, i)[1]], "update a row", A({i}, (i + 1)..p.n))
  <2> DEFINE part == [t \in Thread |-> Lines(t, Optimal, i, p.n - i)]
             c    == [t \in Thread |-> UpdateRow(p, t, i)[1]]
             all  == (i + 1)..p.n
  <2>1. i \in Nat /\ p.n - i \in Nat /\ i + 1 = i + 1 /\ p.n = i + (p.n - i)
    BY Sizes
  <2>2. Parted(part, all)
    BY <2>1, Teams, LinesRange
  <2>3. \A t \in Thread : /\ c[t].name = "update a row"
                          /\ c[t].by = IF part[t] = {} THEN "nobody" ELSE "all"
                          /\ c[t].writes = A({i}, part[t])
    BY DEF UpdateRow, Team
  <2> HIDE DEF c, part, all
  <2>4. \A t \in Thread : \A x : ~IsCell(x) => (x \in c[t].writes <=> x \in A({i}, part[t]))
    BY <2>3
  <2>5. Spread(c, "update a row", A({i}, all))
    BY <2>2, <2>3, <2>4, PartSpread
  <2> QED
    BY <2>5 DEF c, all
<1> QED
  BY <1>1, <1>2

LEMMA ReflectRowSpread ==
  ASSUME NEW p, NEW i
  PROVE  /\ \A t \in Thread : Len(ReflectRow(p, t, i)) = 1
         /\ Spread([t \in Thread |-> ReflectRow(p, t, i)[1]], "larfg p",
                   A({i}, (i + 1)..p.n) \cup Tau("taup", i))
<1> DEFINE c == [t \in Thread |-> ReflectRow(p, t, i)[1]]
           S == A({i}, (i + 1)..p.n) \cup Tau("taup", i)
           cells == 0..(p.n - i - 1)
<1>1. \A t \in Thread : Len(ReflectRow(p, t, i)) = 1
  BY DEF ReflectRow
<1>2. \A t \in Thread : c[t].name = "larfg p" /\ c[t].by = IF t = 0 THEN "all" ELSE "nobody"
  BY DEF ReflectRow, Only
<1>3. \A t \in Thread : c[t].writes = S \cup Buffer(cells)
  BY DEF ReflectRow, Only
<1>4. \A x \in S : ~IsCell(x)
  BY WhichCells
<1> HIDE DEF c, S, cells
<1>5. Spread(c, "larfg p", S)
  BY <1>2, <1>3, <1>4, OnlySpread, WhichCells, ZenonT(60)
<1> QED
  BY <1>1, <1>5 DEF c, S

LEMMA MultiplyRowSpread ==
  ASSUME NEW p \in Problem, NEW i \in 1..p.nb
  PROVE  /\ \A t \in Thread : Len(MultiplyRow(p, t, i)) = 2
         /\ Spread([t \in Thread |-> MultiplyRow(p, t, i)[1]], "x", X((i + 1)..p.m, {i}))
         /\ Spread([t \in Thread |-> MultiplyRow(p, t, i)[2]], "buffer y a", X(1..i, {i}))
<1>1. \A t \in Thread : Len(MultiplyRow(p, t, i)) = 2
  BY DEF MultiplyRow
<1>2. Spread([t \in Thread |-> MultiplyRow(p, t, i)[1]], "x", X((i + 1)..p.m, {i}))
  <2> DEFINE part == [t \in Thread |-> Lines(t, NThreads, i, p.m - i)]
             c    == [t \in Thread |-> MultiplyRow(p, t, i)[1]]
             all  == (i + 1)..p.m
  <2>1. i \in Nat /\ p.m - i \in Nat /\ i + 1 = i + 1 /\ p.m = i + (p.m - i)
    BY Sizes
  <2>2. Parted(part, all)
    BY <2>1, Teams, LinesRange
  <2>3. \A t \in Thread : /\ c[t].name = "x"
                          /\ c[t].by = IF part[t] = {} THEN "nobody" ELSE "all"
                          /\ c[t].writes = X(part[t], {i})
    BY DEF MultiplyRow, Team
  <2> HIDE DEF c, part, all
  <2>4. \A t \in Thread : \A x : ~IsCell(x) => (x \in c[t].writes <=> x \in X(part[t], {i}))
    BY <2>3
  <2>5. Spread(c, "x", X(all, {i}))
    BY <2>2, <2>3, <2>4, PartSpread
  <2> QED
    BY <2>5 DEF c, all
<1>3. Spread([t \in Thread |-> MultiplyRow(p, t, i)[2]], "buffer y a", X(1..i, {i}))
  <2> DEFINE part == [t \in Thread |-> Lines(t, Optimal, 0, i)]
             c    == [t \in Thread |-> MultiplyRow(p, t, i)[2]]
             all  == 1..i
             cells == [t \in Thread |-> {p.n + e - 1 : e \in part[t]}]
  <2>1. 0 \in Nat /\ i \in Nat /\ 1 = 0 + 1 /\ i = 0 + (i)
    BY Sizes
  <2>2. Parted(part, all)
    BY <2>1, Teams, LinesRange
  <2>3. \A t \in Thread : /\ c[t].name = "buffer y a"
                          /\ c[t].by = IF part[t] = {} THEN "nobody" ELSE "all"
                          /\ c[t].writes = X(part[t], {i}) \cup Buffer(cells[t])
    BY DEF MultiplyRow, Team
  <2> HIDE DEF c, part, all, cells
  <2>4. \A t \in Thread : \A x : ~IsCell(x) => (x \in c[t].writes <=> x \in X(part[t], {i}))
    BY <2>3, WhichCells, ZenonT(60)
  <2>5. Spread(c, "buffer y a", X(all, {i}))
    BY <2>2, <2>3, <2>4, PartSpread
  <2> QED
    BY <2>5 DEF c, all
<1> QED
  BY <1>1, <1>2, <1>3

LEMMA UpdateXSpread ==
  ASSUME NEW p \in Problem, NEW i \in 1..p.nb
  PROVE  /\ \A t \in Thread : Len(UpdateX(p, t, i)) = 2
         /\ Spread([t \in Thread |-> UpdateX(p, t, i)[1]], "update x", X((i + 1)..p.m, {i}))
         /\ Spread([t \in Thread |-> UpdateX(p, t, i)[2]], "x above", X(1..(i - 1), {i}))
<1>1. \A t \in Thread : Len(UpdateX(p, t, i)) = 2
  BY DEF UpdateX
<1>2. Spread([t \in Thread |-> UpdateX(p, t, i)[1]], "update x", X((i + 1)..p.m, {i}))
  <2> DEFINE part == [t \in Thread |-> Lines(t, Optimal, i, p.m - i)]
             c    == [t \in Thread |-> UpdateX(p, t, i)[1]]
             all  == (i + 1)..p.m
  <2>1. i \in Nat /\ p.m - i \in Nat /\ i + 1 = i + 1 /\ p.m = i + (p.m - i)
    BY Sizes
  <2>2. Parted(part, all)
    BY <2>1, Teams, LinesRange
  <2>3. \A t \in Thread : /\ c[t].name = "update x"
                          /\ c[t].by = IF part[t] = {} THEN "nobody" ELSE "all"
                          /\ c[t].writes = X(part[t], {i})
    BY DEF UpdateX, Team
  <2> HIDE DEF c, part, all
  <2>4. \A t \in Thread : \A x : ~IsCell(x) => (x \in c[t].writes <=> x \in X(part[t], {i}))
    BY <2>3
  <2>5. Spread(c, "update x", X(all, {i}))
    BY <2>2, <2>3, <2>4, PartSpread
  <2> QED
    BY <2>5 DEF c, all
<1>3. Spread([t \in Thread |-> UpdateX(p, t, i)[2]], "x above", X(1..(i - 1), {i}))
  <2> DEFINE part == [t \in Thread |-> Lines(t, Optimal, 0, i - 1)]
             c    == [t \in Thread |-> UpdateX(p, t, i)[2]]
             all  == 1..(i - 1)
  <2>1. 0 \in Nat /\ i - 1 \in Nat /\ 1 = 0 + 1 /\ i - 1 = 0 + (i - 1)
    BY Sizes
  <2>2. Parted(part, all)
    BY <2>1, Teams, LinesRange
  <2>3. \A t \in Thread : /\ c[t].name = "x above"
                          /\ c[t].by = IF part[t] = {} THEN "nobody" ELSE "all"
                          /\ c[t].writes = X(part[t], {i})
    BY DEF UpdateX, Team
  <2> HIDE DEF c, part, all
  <2>4. \A t \in Thread : \A x : ~IsCell(x) => (x \in c[t].writes <=> x \in X(part[t], {i}))
    BY <2>3
  <2>5. Spread(c, "x above", X(all, {i}))
    BY <2>2, <2>3, <2>4, PartSpread
  <2> QED
    BY <2>5 DEF c, all
<1> QED
  BY <1>1, <1>2, <1>3

(* The same for m < n.                                                     *)
LEMMA FinishWideYSpread ==
  ASSUME NEW p, NEW i
  PROVE  /\ \A t \in Thread : Len(FinishWideY(p, t, i)) = 1
         /\ Spread([t \in Thread |-> FinishWideY(p, t, i)[1]], "finish y",
                   Y(1..p.n, {i}))
<1> DEFINE c == [t \in Thread |-> FinishWideY(p, t, i)[1]]
           S == Y(1..p.n, {i})
<1>1. \A t \in Thread : Len(FinishWideY(p, t, i)) = 1
  BY DEF FinishWideY
<1>2. \A t \in Thread : c[t].name = "finish y" /\ c[t].by = IF t = 0 THEN "all" ELSE "nobody"
  BY DEF FinishWideY, Only
<1>3. \A t \in Thread : c[t].writes = S
  BY DEF FinishWideY, Only
<1>4. \A x \in S : ~IsCell(x)
  BY WhichCells
<1> HIDE DEF c, S
<1>5. Spread(c, "finish y", S)
  BY <1>2, <1>3, <1>4, OnlySpread
<1> QED
  BY <1>1, <1>5 DEF c, S

LEMMA WideRowSpread ==
  ASSUME NEW p, NEW i
  PROVE  /\ \A t \in Thread : Len(WideRow(p, t, i)) = 1
         /\ Spread([t \in Thread |-> WideRow(p, t, i)[1]], "row and larfg p",
                   A({i}, i..p.n) \cup Tau("taup", i))
<1> DEFINE c == [t \in Thread |-> WideRow(p, t, i)[1]]
           S == A({i}, i..p.n) \cup Tau("taup", i)
<1>1. \A t \in Thread : Len(WideRow(p, t, i)) = 1
  BY DEF WideRow
<1>2. \A t \in Thread : c[t].name = "row and larfg p" /\ c[t].by = IF t = 0 THEN "all" ELSE "nobody"
  BY DEF WideRow, Only
<1>3. \A t \in Thread : c[t].writes = S
  BY DEF WideRow, Only
<1>4. \A x \in S : ~IsCell(x)
  BY WhichCells
<1> HIDE DEF c, S
<1>5. Spread(c, "row and larfg p", S)
  BY <1>2, <1>3, <1>4, OnlySpread
<1> QED
  BY <1>1, <1>5 DEF c, S

LEMMA WideXSpread ==
  ASSUME NEW p \in Problem, NEW i \in 1..p.nb
  PROVE  /\ \A t \in Thread : Len(WideX(p, t, i)) = 1
         /\ Spread([t \in Thread |-> WideX(p, t, i)[1]], "x", X((i + 1)..p.m, {i}))
<1>1. \A t \in Thread : Len(WideX(p, t, i)) = 1
  BY DEF WideX
<1>2. Spread([t \in Thread |-> WideX(p, t, i)[1]], "x", X((i + 1)..p.m, {i}))
  <2> DEFINE part == [t \in Thread |-> Shares(t, i, p.m - i)]
             c    == [t \in Thread |-> WideX(p, t, i)[1]]
             all  == (i + 1)..p.m
  <2>1. i \in Nat /\ p.m - i \in Nat /\ i + 1 = i + 1 /\ p.m = i + (p.m - i)
    BY Sizes
  <2>2. Parted(part, all)
    BY <2>1, SharesRange
  <2>3. \A t \in Thread : /\ c[t].name = "x"
                          /\ c[t].by = IF part[t] = {} THEN "nobody" ELSE "all"
                          /\ c[t].writes = X(part[t], {i})
    BY DEF WideX, Team
  <2> HIDE DEF c, part, all
  <2>4. \A t \in Thread : \A x : ~IsCell(x) => (x \in c[t].writes <=> x \in X(part[t], {i}))
    BY <2>3
  <2>5. Spread(c, "x", X(all, {i}))
    BY <2>2, <2>3, <2>4, PartSpread
  <2> QED
    BY <2>5 DEF c, all
<1> QED
  BY <1>1, <1>2

LEMMA WideColumnSpread ==
  ASSUME NEW p, NEW i
  PROVE  /\ \A t \in Thread : Len(WideColumn(p, t, i)) = 1
         /\ Spread([t \in Thread |-> WideColumn(p, t, i)[1]], "finish x, column and larfg q",
                   X((1..p.m) \ {i}, {i}) \cup A((i + 1)..p.m, {i}) \cup Tau("tauq", i))
<1> DEFINE c == [t \in Thread |-> WideColumn(p, t, i)[1]]
           S == X((1..p.m) \ {i}, {i}) \cup A((i + 1)..p.m, {i}) \cup Tau("tauq", i)
<1>1. \A t \in Thread : Len(WideColumn(p, t, i)) = 1
  BY DEF WideColumn
<1>2. \A t \in Thread : c[t].name = "finish x, column and larfg q" /\ c[t].by = IF t = 0 THEN "all" ELSE "nobody"
  BY DEF WideColumn, Only
<1>3. \A t \in Thread : c[t].writes = S
  BY DEF WideColumn, Only
<1>4. \A x \in S : ~IsCell(x)
  BY WhichCells
<1> HIDE DEF c, S
<1>5. Spread(c, "finish x, column and larfg q", S)
  BY <1>2, <1>3, <1>4, OnlySpread
<1> QED
  BY <1>1, <1>5 DEF c, S

LEMMA WideYSpread ==
  ASSUME NEW p \in Problem, NEW i \in 1..p.nb
  PROVE  /\ \A t \in Thread : Len(WideY(p, t, i)) = 1
         /\ Spread([t \in Thread |-> WideY(p, t, i)[1]], "y", Y((i + 1)..p.n, {i}))
<1>1. \A t \in Thread : Len(WideY(p, t, i)) = 1
  BY DEF WideY
<1>2. Spread([t \in Thread |-> WideY(p, t, i)[1]], "y", Y((i + 1)..p.n, {i}))
  <2> DEFINE part == [t \in Thread |-> Shares(t, i, p.n - i)]
             c    == [t \in Thread |-> WideY(p, t, i)[1]]
             all  == (i + 1)..p.n
  <2>1. i \in Nat /\ p.n - i \in Nat /\ i + 1 = i + 1 /\ p.n = i + (p.n - i)
    BY Sizes
  <2>2. Parted(part, all)
    BY <2>1, SharesRange
  <2>3. \A t \in Thread : /\ c[t].name = "y"
                          /\ c[t].by = IF part[t] = {} THEN "nobody" ELSE "all"
                          /\ c[t].writes = Y(part[t], {i})
    BY DEF WideY, Team
  <2> HIDE DEF c, part, all
  <2>4. \A t \in Thread : \A x : ~IsCell(x) => (x \in c[t].writes <=> x \in Y(part[t], {i}))
    BY <2>3
  <2>5. Spread(c, "y", Y(all, {i}))
    BY <2>2, <2>3, <2>4, PartSpread
  <2> QED
    BY <2>5 DEF c, all
<1> QED
  BY <1>1, <1>2

(* The calls c of the threads together are the serial call w.              *)
Serves(c, p, w) == Spread(c, SerialCall(p, w)[1], SerialCall(p, w)[2])

LEMMA TallServes ==
  ASSUME NEW p \in Problem, Tall(p), NEW i \in 1..p.nb
  PROVE  /\ Serves([t \in Thread |-> FinishX(p, t, i)[1]], p, <<i, 13>>)
         /\ Serves([t \in Thread |-> UpdateColumn(p, t, i)[1]], p, <<i, 1>>)
         /\ Serves([t \in Thread |-> ReflectColumn(p, t, i)[1]], p, <<i, 2>>)
         /\ Serves([t \in Thread |-> MultiplyColumn(p, t, i)[1]], p, <<i, 3>>)
         /\ Serves([t \in Thread |-> ExchangeY(p, t, i)[1]], p, <<i, 4>>)
         /\ Serves([t \in Thread |-> UpdateY(p, t, i)[1]], p, <<i, 5>>)
         /\ Serves([t \in Thread |-> UpdateY(p, t, i)[2]], p, <<i, 6>>)
         /\ Serves([t \in Thread |-> UpdateRow(p, t, i)[1]], p, <<i, 7>>)
         /\ Serves([t \in Thread |-> ReflectRow(p, t, i)[1]], p, <<i, 8>>)
         /\ Serves([t \in Thread |-> MultiplyRow(p, t, i)[1]], p, <<i, 9>>)
         /\ Serves([t \in Thread |-> MultiplyRow(p, t, i)[2]], p, <<i, 10>>)
         /\ Serves([t \in Thread |-> UpdateX(p, t, i)[1]], p, <<i, 11>>)
         /\ Serves([t \in Thread |-> UpdateX(p, t, i)[2]], p, <<i, 12>>)
<1>1. Serves([t \in Thread |-> FinishX(p, t, i)[1]], p, <<i, 13>>)
  <2> DEFINE e == SerialCall(p, <<i, 13>>)
  <2>1. e[1] = "scale x" /\ e[2] = X((i + 1)..p.m, {i})
    <3>1. e = SerialColumn(p, i)[13]
      BY DEF SerialCall
    <3>2. SerialColumn(p, i)[13][1] = "scale x"
      BY DEF SerialColumn
    <3>3. SerialColumn(p, i)[13][2] = X((i + 1)..p.m, {i})
      BY DEF SerialColumn
    <3> HIDE DEF e
    <3> QED
      BY <3>1, <3>2, <3>3
  <2> HIDE DEF e
  <2>2. Spread([t \in Thread |-> FinishX(p, t, i)[1]], e[1], e[2])
    BY <2>1, FinishXSpread
  <2> QED
    BY <2>2 DEF Serves, e
<1>2. Serves([t \in Thread |-> UpdateColumn(p, t, i)[1]], p, <<i, 1>>)
  <2> DEFINE e == SerialCall(p, <<i, 1>>)
  <2>1. e[1] = "update a column" /\ e[2] = A(i..p.m, {i})
    <3>1. e = SerialColumn(p, i)[1]
      BY DEF SerialCall
    <3>2. SerialColumn(p, i)[1][1] = "update a column"
      BY DEF SerialColumn
    <3>3. SerialColumn(p, i)[1][2] = A(i..p.m, {i})
      BY DEF SerialColumn
    <3> HIDE DEF e
    <3> QED
      BY <3>1, <3>2, <3>3
  <2> HIDE DEF e
  <2>2. Spread([t \in Thread |-> UpdateColumn(p, t, i)[1]], e[1], e[2])
    BY <2>1, UpdateColumnSpread
  <2> QED
    BY <2>2 DEF Serves, e
<1>3. Serves([t \in Thread |-> ReflectColumn(p, t, i)[1]], p, <<i, 2>>)
  <2> DEFINE e == SerialCall(p, <<i, 2>>)
  <2>1. e[1] = "larfg q" /\ e[2] = A(i..p.m, {i}) \cup Tau("tauq", i)
    <3>1. e = SerialColumn(p, i)[2]
      BY DEF SerialCall
    <3>2. SerialColumn(p, i)[2][1] = "larfg q"
      BY DEF SerialColumn
    <3>3. SerialColumn(p, i)[2][2] = A(i..p.m, {i}) \cup Tau("tauq", i)
      BY DEF SerialColumn
    <3> HIDE DEF e
    <3> QED
      BY <3>1, <3>2, <3>3
  <2> HIDE DEF e
  <2>2. Spread([t \in Thread |-> ReflectColumn(p, t, i)[1]], e[1], e[2])
    BY <2>1, ReflectColumnSpread
  <2> QED
    BY <2>2 DEF Serves, e
<1>4. Serves([t \in Thread |-> MultiplyColumn(p, t, i)[1]], p, <<i, 3>>)
  <2> DEFINE e == SerialCall(p, <<i, 3>>)
  <2>1. e[1] = "y" /\ e[2] = Y((i + 1)..p.n, {i})
    <3>1. e = SerialColumn(p, i)[3]
      BY DEF SerialCall
    <3>2. SerialColumn(p, i)[3][1] = "y"
      BY DEF SerialColumn
    <3>3. SerialColumn(p, i)[3][2] = Y((i + 1)..p.n, {i})
      BY DEF SerialColumn
    <3> HIDE DEF e
    <3> QED
      BY <3>1, <3>2, <3>3
  <2> HIDE DEF e
  <2>2. Spread([t \in Thread |-> MultiplyColumn(p, t, i)[1]], e[1], e[2])
    BY <2>1, MultiplyColumnSpread
  <2> QED
    BY <2>2 DEF Serves, e
<1>5. Serves([t \in Thread |-> ExchangeY(p, t, i)[1]], p, <<i, 4>>)
  <2> DEFINE e == SerialCall(p, <<i, 4>>)
  <2>1. e[1] = "exchange y" /\ e[2] = Y(1..(i - 1), {i})
    <3>1. e = SerialColumn(p, i)[4]
      BY DEF SerialCall
    <3>2. SerialColumn(p, i)[4][1] = "exchange y"
      BY DEF SerialColumn
    <3>3. SerialColumn(p, i)[4][2] = Y(1..(i - 1), {i})
      BY DEF SerialColumn
    <3> HIDE DEF e
    <3> QED
      BY <3>1, <3>2, <3>3
  <2> HIDE DEF e
  <2>2. Spread([t \in Thread |-> ExchangeY(p, t, i)[1]], e[1], e[2])
    BY <2>1, ExchangeYSpread
  <2> QED
    BY <2>2 DEF Serves, e
<1>6. Serves([t \in Thread |-> UpdateY(p, t, i)[1]], p, <<i, 5>>)
  <2> DEFINE e == SerialCall(p, <<i, 5>>)
  <2>1. e[1] = "update y by y" /\ e[2] = Y((i + 1)..p.n, {i})
    <3>1. e = SerialColumn(p, i)[5]
      BY DEF SerialCall
    <3>2. SerialColumn(p, i)[5][1] = "update y by y"
      BY DEF SerialColumn
    <3>3. SerialColumn(p, i)[5][2] = Y((i + 1)..p.n, {i})
      BY DEF SerialColumn
    <3> HIDE DEF e
    <3> QED
      BY <3>1, <3>2, <3>3
  <2> HIDE DEF e
  <2>2. Spread([t \in Thread |-> UpdateY(p, t, i)[1]], e[1], e[2])
    BY <2>1, UpdateYSpread
  <2> QED
    BY <2>2 DEF Serves, e
<1>7. Serves([t \in Thread |-> UpdateY(p, t, i)[2]], p, <<i, 6>>)
  <2> DEFINE e == SerialCall(p, <<i, 6>>)
  <2>1. e[1] = "update y by a" /\ e[2] = Y((i + 1)..p.n, {i})
    <3>1. e = SerialColumn(p, i)[6]
      BY DEF SerialCall
    <3>2. SerialColumn(p, i)[6][1] = "update y by a"
      BY DEF SerialColumn
    <3>3. SerialColumn(p, i)[6][2] = Y((i + 1)..p.n, {i})
      BY DEF SerialColumn
    <3> HIDE DEF e
    <3> QED
      BY <3>1, <3>2, <3>3
  <2> HIDE DEF e
  <2>2. Spread([t \in Thread |-> UpdateY(p, t, i)[2]], e[1], e[2])
    BY <2>1, UpdateYSpread
  <2> QED
    BY <2>2 DEF Serves, e
<1>8. Serves([t \in Thread |-> UpdateRow(p, t, i)[1]], p, <<i, 7>>)
  <2> DEFINE e == SerialCall(p, <<i, 7>>)
  <2>1. e[1] = "update a row" /\ e[2] = A({i}, (i + 1)..p.n)
    <3>1. e = SerialColumn(p, i)[7]
      BY DEF SerialCall
    <3>2. SerialColumn(p, i)[7][1] = "update a row"
      BY DEF SerialColumn
    <3>3. SerialColumn(p, i)[7][2] = A({i}, (i + 1)..p.n)
      BY DEF SerialColumn
    <3> HIDE DEF e
    <3> QED
      BY <3>1, <3>2, <3>3
  <2> HIDE DEF e
  <2>2. Spread([t \in Thread |-> UpdateRow(p, t, i)[1]], e[1], e[2])
    BY <2>1, UpdateRowSpread
  <2> QED
    BY <2>2 DEF Serves, e
<1>9. Serves([t \in Thread |-> ReflectRow(p, t, i)[1]], p, <<i, 8>>)
  <2> DEFINE e == SerialCall(p, <<i, 8>>)
  <2>1. e[1] = "larfg p" /\ e[2] = A({i}, (i + 1)..p.n) \cup Tau("taup", i)
    <3>1. e = SerialColumn(p, i)[8]
      BY DEF SerialCall
    <3>2. SerialColumn(p, i)[8][1] = "larfg p"
      BY DEF SerialColumn
    <3>3. SerialColumn(p, i)[8][2] = A({i}, (i + 1)..p.n) \cup Tau("taup", i)
      BY DEF SerialColumn
    <3> HIDE DEF e
    <3> QED
      BY <3>1, <3>2, <3>3
  <2> HIDE DEF e
  <2>2. Spread([t \in Thread |-> ReflectRow(p, t, i)[1]], e[1], e[2])
    BY <2>1, ReflectRowSpread
  <2> QED
    BY <2>2 DEF Serves, e
<1>10. Serves([t \in Thread |-> MultiplyRow(p, t, i)[1]], p, <<i, 9>>)
  <2> DEFINE e == SerialCall(p, <<i, 9>>)
  <2>1. e[1] = "x" /\ e[2] = X((i + 1)..p.m, {i})
    <3>1. e = SerialColumn(p, i)[9]
      BY DEF SerialCall
    <3>2. SerialColumn(p, i)[9][1] = "x"
      BY DEF SerialColumn
    <3>3. SerialColumn(p, i)[9][2] = X((i + 1)..p.m, {i})
      BY DEF SerialColumn
    <3> HIDE DEF e
    <3> QED
      BY <3>1, <3>2, <3>3
  <2> HIDE DEF e
  <2>2. Spread([t \in Thread |-> MultiplyRow(p, t, i)[1]], e[1], e[2])
    BY <2>1, MultiplyRowSpread
  <2> QED
    BY <2>2 DEF Serves, e
<1>11. Serves([t \in Thread |-> MultiplyRow(p, t, i)[2]], p, <<i, 10>>)
  <2> DEFINE e == SerialCall(p, <<i, 10>>)
  <2>1. e[1] = "buffer y a" /\ e[2] = X(1..i, {i})
    <3>1. e = SerialColumn(p, i)[10]
      BY DEF SerialCall
    <3>2. SerialColumn(p, i)[10][1] = "buffer y a"
      BY DEF SerialColumn
    <3>3. SerialColumn(p, i)[10][2] = X(1..i, {i})
      BY DEF SerialColumn
    <3> HIDE DEF e
    <3> QED
      BY <3>1, <3>2, <3>3
  <2> HIDE DEF e
  <2>2. Spread([t \in Thread |-> MultiplyRow(p, t, i)[2]], e[1], e[2])
    BY <2>1, MultiplyRowSpread
  <2> QED
    BY <2>2 DEF Serves, e
<1>12. Serves([t \in Thread |-> UpdateX(p, t, i)[1]], p, <<i, 11>>)
  <2> DEFINE e == SerialCall(p, <<i, 11>>)
  <2>1. e[1] = "update x" /\ e[2] = X((i + 1)..p.m, {i})
    <3>1. e = SerialColumn(p, i)[11]
      BY DEF SerialCall
    <3>2. SerialColumn(p, i)[11][1] = "update x"
      BY DEF SerialColumn
    <3>3. SerialColumn(p, i)[11][2] = X((i + 1)..p.m, {i})
      BY DEF SerialColumn
    <3> HIDE DEF e
    <3> QED
      BY <3>1, <3>2, <3>3
  <2> HIDE DEF e
  <2>2. Spread([t \in Thread |-> UpdateX(p, t, i)[1]], e[1], e[2])
    BY <2>1, UpdateXSpread
  <2> QED
    BY <2>2 DEF Serves, e
<1>13. Serves([t \in Thread |-> UpdateX(p, t, i)[2]], p, <<i, 12>>)
  <2> DEFINE e == SerialCall(p, <<i, 12>>)
  <2>1. e[1] = "x above" /\ e[2] = X(1..(i - 1), {i})
    <3>1. e = SerialColumn(p, i)[12]
      BY DEF SerialCall
    <3>2. SerialColumn(p, i)[12][1] = "x above"
      BY DEF SerialColumn
    <3>3. SerialColumn(p, i)[12][2] = X(1..(i - 1), {i})
      BY DEF SerialColumn
    <3> HIDE DEF e
    <3> QED
      BY <3>1, <3>2, <3>3
  <2> HIDE DEF e
  <2>2. Spread([t \in Thread |-> UpdateX(p, t, i)[2]], e[1], e[2])
    BY <2>1, UpdateXSpread
  <2> QED
    BY <2>2 DEF Serves, e
<1> QED
  BY <1>1, <1>2, <1>3, <1>4, <1>5, <1>6, <1>7, <1>8, <1>9, <1>10, <1>11, <1>12, <1>13

LEMMA WideServes ==
  ASSUME NEW p \in Problem, ~Tall(p), NEW i \in 1..p.nb
  PROVE  /\ Serves([t \in Thread |-> FinishWideY(p, t, i)[1]], p, <<i, 5>>)
         /\ Serves([t \in Thread |-> WideRow(p, t, i)[1]], p, <<i, 1>>)
         /\ Serves([t \in Thread |-> WideX(p, t, i)[1]], p, <<i, 2>>)
         /\ Serves([t \in Thread |-> WideColumn(p, t, i)[1]], p, <<i, 3>>)
         /\ Serves([t \in Thread |-> WideY(p, t, i)[1]], p, <<i, 4>>)
<1>1. Serves([t \in Thread |-> FinishWideY(p, t, i)[1]], p, <<i, 5>>)
  <2> DEFINE e == SerialCall(p, <<i, 5>>)
  <2>1. e[1] = "finish y" /\ e[2] = Y(1..p.n, {i})
    <3>1. e = SerialColumn(p, i)[5]
      BY DEF SerialCall
    <3>2. SerialColumn(p, i)[5][1] = "finish y"
      BY DEF SerialColumn
    <3>3. SerialColumn(p, i)[5][2] = Y(1..p.n, {i})
      BY DEF SerialColumn
    <3> HIDE DEF e
    <3> QED
      BY <3>1, <3>2, <3>3
  <2> HIDE DEF e
  <2>2. Spread([t \in Thread |-> FinishWideY(p, t, i)[1]], e[1], e[2])
    BY <2>1, FinishWideYSpread
  <2> QED
    BY <2>2 DEF Serves, e
<1>2. Serves([t \in Thread |-> WideRow(p, t, i)[1]], p, <<i, 1>>)
  <2> DEFINE e == SerialCall(p, <<i, 1>>)
  <2>1. e[1] = "row and larfg p" /\ e[2] = A({i}, i..p.n) \cup Tau("taup", i)
    <3>1. e = SerialColumn(p, i)[1]
      BY DEF SerialCall
    <3>2. SerialColumn(p, i)[1][1] = "row and larfg p"
      BY DEF SerialColumn
    <3>3. SerialColumn(p, i)[1][2] = A({i}, i..p.n) \cup Tau("taup", i)
      BY DEF SerialColumn
    <3> HIDE DEF e
    <3> QED
      BY <3>1, <3>2, <3>3
  <2> HIDE DEF e
  <2>2. Spread([t \in Thread |-> WideRow(p, t, i)[1]], e[1], e[2])
    BY <2>1, WideRowSpread
  <2> QED
    BY <2>2 DEF Serves, e
<1>3. Serves([t \in Thread |-> WideX(p, t, i)[1]], p, <<i, 2>>)
  <2> DEFINE e == SerialCall(p, <<i, 2>>)
  <2>1. e[1] = "x" /\ e[2] = X((i + 1)..p.m, {i})
    <3>1. e = SerialColumn(p, i)[2]
      BY DEF SerialCall
    <3>2. SerialColumn(p, i)[2][1] = "x"
      BY DEF SerialColumn
    <3>3. SerialColumn(p, i)[2][2] = X((i + 1)..p.m, {i})
      BY DEF SerialColumn
    <3> HIDE DEF e
    <3> QED
      BY <3>1, <3>2, <3>3
  <2> HIDE DEF e
  <2>2. Spread([t \in Thread |-> WideX(p, t, i)[1]], e[1], e[2])
    BY <2>1, WideXSpread
  <2> QED
    BY <2>2 DEF Serves, e
<1>4. Serves([t \in Thread |-> WideColumn(p, t, i)[1]], p, <<i, 3>>)
  <2> DEFINE e == SerialCall(p, <<i, 3>>)
  <2>1. e[1] = "finish x, column and larfg q" /\ e[2] = X((1..p.m) \ {i}, {i}) \cup A((i + 1)..p.m, {i}) \cup Tau("tauq", i)
    <3>1. e = SerialColumn(p, i)[3]
      BY DEF SerialCall
    <3>2. SerialColumn(p, i)[3][1] = "finish x, column and larfg q"
      BY DEF SerialColumn
    <3>3. SerialColumn(p, i)[3][2] = X((1..p.m) \ {i}, {i}) \cup A((i + 1)..p.m, {i}) \cup Tau("tauq", i)
      BY DEF SerialColumn
    <3> HIDE DEF e
    <3> QED
      BY <3>1, <3>2, <3>3
  <2> HIDE DEF e
  <2>2. Spread([t \in Thread |-> WideColumn(p, t, i)[1]], e[1], e[2])
    BY <2>1, WideColumnSpread
  <2> QED
    BY <2>2 DEF Serves, e
<1>5. Serves([t \in Thread |-> WideY(p, t, i)[1]], p, <<i, 4>>)
  <2> DEFINE e == SerialCall(p, <<i, 4>>)
  <2>1. e[1] = "y" /\ e[2] = Y((i + 1)..p.n, {i})
    <3>1. e = SerialColumn(p, i)[4]
      BY DEF SerialCall
    <3>2. SerialColumn(p, i)[4][1] = "y"
      BY DEF SerialColumn
    <3>3. SerialColumn(p, i)[4][2] = Y((i + 1)..p.n, {i})
      BY DEF SerialColumn
    <3> HIDE DEF e
    <3> QED
      BY <3>1, <3>2, <3>3
  <2> HIDE DEF e
  <2>2. Spread([t \in Thread |-> WideY(p, t, i)[1]], e[1], e[2])
    BY <2>1, WideYSpread
  <2> QED
    BY <2>2 DEF Serves, e
<1> QED
  BY <1>1, <1>2, <1>3, <1>4, <1>5

-----------------------------------------------------------------------------
(* Call n of section k, in the order of the calls of a column: 0 for the   *)
(* last one of the column before.                                          *)
TallStep(k, n) ==
  CASE k = 0 -> 0
    [] k \in 1..4 -> k
    [] k = 5 -> 4 + n
    [] k \in 6..7 -> k + 1
    [] k = 8 -> 8 + n
    [] k = 9 -> 10 + n
WideStep(i, k, n) == IF k = 0 THEN (IF i > 1 /\ n = 1 THEN 0 ELSE 1) ELSE k + 1

(* The sections with two calls of the team.                                *)
TallPlace(p, i, k, n) ==
  /\ i \in 1..(p.nb + 1) /\ k \in 0..9 /\ n \in 1..2
  /\ k = 0 => i > 1
  /\ k > 0 => i <= p.nb
  /\ n = 2 => k \in {5, 8, 9}
WidePlace(p, i, k, n) ==
  /\ i \in 1..(p.nb + 1) /\ k \in 0..3 /\ n \in 1..2
  /\ k > 0 => i <= p.nb /\ n = 1
  /\ n = 2 => i > 1 /\ i <= p.nb

(* The calls n of the threads, which make those of cs, are one serial call.*)
Nth(cs, n) == [t \in Thread |-> cs[t][n]]
Matches(p, cs, n, i, step) ==
  /\ \A t \in Thread : n \in 1..Len(cs[t])
  /\ Serves(Nth(cs, n), p, IF step = 0 THEN <<i - 1, PerSerialColumn(p)>> ELSE <<i, step>>)

LEMMA TallLengths ==
  ASSUME NEW p, NEW t, NEW i
  PROVE  /\ Len(FinishX(p, t, i)) = 1 /\ Len(UpdateColumn(p, t, i)) = 1
         /\ Len(ReflectColumn(p, t, i)) = 1 /\ Len(MultiplyColumn(p, t, i)) = 2
         /\ Len(ExchangeY(p, t, i)) = 1 /\ Len(UpdateY(p, t, i)) = 2
         /\ Len(UpdateRow(p, t, i)) = 1 /\ Len(ReflectRow(p, t, i)) = 1
         /\ Len(MultiplyRow(p, t, i)) = 2 /\ Len(UpdateX(p, t, i)) = 2
BY DEF FinishX, UpdateColumn, ReflectColumn, MultiplyColumn, ExchangeY, UpdateY, UpdateRow,
       ReflectRow, MultiplyRow, UpdateX

LEMMA TallSteps ==
  ASSUME NEW n
  PROVE  /\ TallStep(0, n) = 0 /\ TallStep(1, n) = 1 /\ TallStep(2, n) = 2 /\ TallStep(3, n) = 3
         /\ TallStep(4, n) = 4 /\ TallStep(5, n) = 4 + n /\ TallStep(6, n) = 7
         /\ TallStep(7, n) = 8 /\ TallStep(8, n) = 8 + n /\ TallStep(9, n) = 10 + n
BY DEF TallStep

LEMMA TallDone ==
  ASSUME NEW p \in Problem, Tall(p), NEW i, NEW k, NEW n, TallPlace(p, i, k, n)
  PROVE  Matches(p, [t \in Thread |-> TallCalls(p, t, i, k)], n, i, TallStep(k, n))
<1> DEFINE cs == [t \in Thread |-> TallCalls(p, t, i, k)]
<1>1. /\ i \in 1..(p.nb + 1) /\ k \in 0..9 /\ n \in 1..2 /\ p.nb \in Nat
      /\ k = 0 => i > 1
      /\ k > 0 => i \in 1..p.nb
      /\ n = 2 => k \in {5, 8, 9}
  BY Sizes DEF TallPlace
<1>2. PerSerialColumn(p) = 13
  BY DEF PerSerialColumn
<1>3. CASE k = 0
  <2>1. i - 1 \in 1..p.nb
    BY <1>1, <1>3
  <2>2. cs = [t \in Thread |-> FinishX(p, t, i - 1)]
    BY <1>1, <1>3 DEF TallCalls
  <2> HIDE DEF cs
  <2>3. \A t \in Thread : Len(cs[t]) = 1
    BY <2>2, TallLengths
  <2>4. Serves(Nth(cs, 1), p, <<i - 1, 13>>)
    <3>1. Nth(cs, 1) = [t \in Thread |-> FinishX(p, t, i - 1)[1]]
      BY <2>2 DEF Nth
    <3> QED
      BY <2>1, <3>1, TallServes
  <2>5. Matches(p, cs, 1, i, 0)
    BY <1>2, <2>3, <2>4, SMTT(30) DEF Matches
  <2> QED
    BY <1>1, <1>3, <2>5, TallSteps DEF cs
<1>4. CASE k = 1
  <2>1. i \in 1..p.nb
    BY <1>1, <1>4
  <2>2. cs = [t \in Thread |-> UpdateColumn(p, t, i)]
    BY <1>4 DEF TallCalls
  <2> HIDE DEF cs
  <2>3. \A t \in Thread : Len(cs[t]) = 1
    BY <2>2, TallLengths
  <2>4. Serves(Nth(cs, 1), p, <<i, 1>>)
    <3>1. Nth(cs, 1) = [t \in Thread |-> UpdateColumn(p, t, i)[1]]
      BY <2>2 DEF Nth
    <3> QED
      BY <2>1, <3>1, TallServes
  <2>5. Matches(p, cs, 1, i, 1)
    BY <2>3, <2>4, SMTT(30) DEF Matches
  <2> QED
    BY <1>1, <1>4, <2>5, TallSteps DEF cs
<1>5. CASE k = 2
  <2>1. i \in 1..p.nb
    BY <1>1, <1>5
  <2>2. cs = [t \in Thread |-> ReflectColumn(p, t, i)]
    BY <1>5 DEF TallCalls
  <2> HIDE DEF cs
  <2>3. \A t \in Thread : Len(cs[t]) = 1
    BY <2>2, TallLengths
  <2>4. Serves(Nth(cs, 1), p, <<i, 2>>)
    <3>1. Nth(cs, 1) = [t \in Thread |-> ReflectColumn(p, t, i)[1]]
      BY <2>2 DEF Nth
    <3> QED
      BY <2>1, <3>1, TallServes
  <2>5. Matches(p, cs, 1, i, 2)
    BY <2>3, <2>4, SMTT(30) DEF Matches
  <2> QED
    BY <1>1, <1>5, <2>5, TallSteps DEF cs
<1>6. CASE k = 3
  <2>1. i \in 1..p.nb
    BY <1>1, <1>6
  <2>2. cs = [t \in Thread |-> MultiplyColumn(p, t, i)]
    BY <1>6 DEF TallCalls
  <2> HIDE DEF cs
  <2>3. \A t \in Thread : Len(cs[t]) = 2
    BY <2>2, TallLengths
  <2>4. Serves(Nth(cs, 1), p, <<i, 3>>)
    <3>1. Nth(cs, 1) = [t \in Thread |-> MultiplyColumn(p, t, i)[1]]
      BY <2>2 DEF Nth
    <3> QED
      BY <2>1, <3>1, TallServes
  <2>5. Matches(p, cs, 1, i, 3)
    BY <2>3, <2>4, SMTT(30) DEF Matches
  <2> QED
    BY <1>1, <1>6, <2>5, TallSteps DEF cs
<1>7. CASE k = 4
  <2>1. i \in 1..p.nb
    BY <1>1, <1>7
  <2>2. cs = [t \in Thread |-> ExchangeY(p, t, i)]
    BY <1>7 DEF TallCalls
  <2> HIDE DEF cs
  <2>3. \A t \in Thread : Len(cs[t]) = 1
    BY <2>2, TallLengths
  <2>4. Serves(Nth(cs, 1), p, <<i, 4>>)
    <3>1. Nth(cs, 1) = [t \in Thread |-> ExchangeY(p, t, i)[1]]
      BY <2>2 DEF Nth
    <3> QED
      BY <2>1, <3>1, TallServes
  <2>5. Matches(p, cs, 1, i, 4)
    BY <2>3, <2>4, SMTT(30) DEF Matches
  <2> QED
    BY <1>1, <1>7, <2>5, TallSteps DEF cs
<1>8. CASE k = 5
  <2>1. i \in 1..p.nb
    BY <1>1, <1>8
  <2>2. cs = [t \in Thread |-> UpdateY(p, t, i)]
    BY <1>8 DEF TallCalls
  <2> HIDE DEF cs
  <2>3. \A t \in Thread : Len(cs[t]) = 2
    BY <2>2, TallLengths
  <2>4. Serves(Nth(cs, 1), p, <<i, 5>>)
    <3>1. Nth(cs, 1) = [t \in Thread |-> UpdateY(p, t, i)[1]]
      BY <2>2 DEF Nth
    <3> QED
      BY <2>1, <3>1, TallServes
  <2>5. Matches(p, cs, 1, i, 5)
    BY <2>3, <2>4, SMTT(30) DEF Matches
  <2>6. Serves(Nth(cs, 2), p, <<i, 6>>)
    <3>1. Nth(cs, 2) = [t \in Thread |-> UpdateY(p, t, i)[2]]
      BY <2>2 DEF Nth
    <3> QED
      BY <2>1, <3>1, TallServes
  <2>7. Matches(p, cs, 2, i, 6)
    BY <2>3, <2>6, SMTT(30) DEF Matches
  <2> QED
    BY <1>1, <1>8, <2>5, <2>7, TallSteps DEF cs
<1>9. CASE k = 6
  <2>1. i \in 1..p.nb
    BY <1>1, <1>9
  <2>2. cs = [t \in Thread |-> UpdateRow(p, t, i)]
    BY <1>9 DEF TallCalls
  <2> HIDE DEF cs
  <2>3. \A t \in Thread : Len(cs[t]) = 1
    BY <2>2, TallLengths
  <2>4. Serves(Nth(cs, 1), p, <<i, 7>>)
    <3>1. Nth(cs, 1) = [t \in Thread |-> UpdateRow(p, t, i)[1]]
      BY <2>2 DEF Nth
    <3> QED
      BY <2>1, <3>1, TallServes
  <2>5. Matches(p, cs, 1, i, 7)
    BY <2>3, <2>4, SMTT(30) DEF Matches
  <2> QED
    BY <1>1, <1>9, <2>5, TallSteps DEF cs
<1>10. CASE k = 7
  <2>1. i \in 1..p.nb
    BY <1>1, <1>10
  <2>2. cs = [t \in Thread |-> ReflectRow(p, t, i)]
    BY <1>10 DEF TallCalls
  <2> HIDE DEF cs
  <2>3. \A t \in Thread : Len(cs[t]) = 1
    BY <2>2, TallLengths
  <2>4. Serves(Nth(cs, 1), p, <<i, 8>>)
    <3>1. Nth(cs, 1) = [t \in Thread |-> ReflectRow(p, t, i)[1]]
      BY <2>2 DEF Nth
    <3> QED
      BY <2>1, <3>1, TallServes
  <2>5. Matches(p, cs, 1, i, 8)
    BY <2>3, <2>4, SMTT(30) DEF Matches
  <2> QED
    BY <1>1, <1>10, <2>5, TallSteps DEF cs
<1>11. CASE k = 8
  <2>1. i \in 1..p.nb
    BY <1>1, <1>11
  <2>2. cs = [t \in Thread |-> MultiplyRow(p, t, i)]
    BY <1>11 DEF TallCalls
  <2> HIDE DEF cs
  <2>3. \A t \in Thread : Len(cs[t]) = 2
    BY <2>2, TallLengths
  <2>4. Serves(Nth(cs, 1), p, <<i, 9>>)
    <3>1. Nth(cs, 1) = [t \in Thread |-> MultiplyRow(p, t, i)[1]]
      BY <2>2 DEF Nth
    <3> QED
      BY <2>1, <3>1, TallServes
  <2>5. Matches(p, cs, 1, i, 9)
    BY <2>3, <2>4, SMTT(30) DEF Matches
  <2>6. Serves(Nth(cs, 2), p, <<i, 10>>)
    <3>1. Nth(cs, 2) = [t \in Thread |-> MultiplyRow(p, t, i)[2]]
      BY <2>2 DEF Nth
    <3> QED
      BY <2>1, <3>1, TallServes
  <2>7. Matches(p, cs, 2, i, 10)
    BY <2>3, <2>6, SMTT(30) DEF Matches
  <2> QED
    BY <1>1, <1>11, <2>5, <2>7, TallSteps DEF cs
<1>12. CASE k = 9
  <2>1. i \in 1..p.nb
    BY <1>1, <1>12
  <2>2. cs = [t \in Thread |-> UpdateX(p, t, i)]
    BY <1>12 DEF TallCalls
  <2> HIDE DEF cs
  <2>3. \A t \in Thread : Len(cs[t]) = 2
    BY <2>2, TallLengths
  <2>4. Serves(Nth(cs, 1), p, <<i, 11>>)
    <3>1. Nth(cs, 1) = [t \in Thread |-> UpdateX(p, t, i)[1]]
      BY <2>2 DEF Nth
    <3> QED
      BY <2>1, <3>1, TallServes
  <2>5. Matches(p, cs, 1, i, 11)
    BY <2>3, <2>4, SMTT(30) DEF Matches
  <2>6. Serves(Nth(cs, 2), p, <<i, 12>>)
    <3>1. Nth(cs, 2) = [t \in Thread |-> UpdateX(p, t, i)[2]]
      BY <2>2 DEF Nth
    <3> QED
      BY <2>1, <3>1, TallServes
  <2>7. Matches(p, cs, 2, i, 12)
    BY <2>3, <2>6, SMTT(30) DEF Matches
  <2> QED
    BY <1>1, <1>12, <2>5, <2>7, TallSteps DEF cs
<1> QED
  BY <1>1, <1>3, <1>4, <1>5, <1>6, <1>7, <1>8, <1>9, <1>10, <1>11, <1>12

(* Every call of a section is one of those, or that of the single section. *)
Alone2(c, k, n) == k = 3 /\ n = 2 /\ c.by = "single" /\ \A x \in c.writes : IsCell(x)

LEMMA TallPlaces ==
  ASSUME NEW p \in Problem, NEW t \in Thread, NEW i \in 1..(p.nb + 1), NEW k \in 0..9,
         k > 0 => i <= p.nb, NEW n \in 1..Len(TallCalls(p, t, i, k))
  PROVE  TallPlace(p, i, k, n) \/ Alone2(TallCalls(p, t, i, k)[n], k, n)
<1>1. p.nb \in Nat /\ (k > 0 => i \in 1..p.nb)
  BY Sizes
<1>2. CASE k = 0
  <2>1. i > 1 /\ TallCalls(p, t, i, k) = FinishX(p, t, i - 1)
    <3>1. TallCalls(p, t, i, k) = IF i > 1 THEN FinishX(p, t, i - 1) ELSE <<>>
      BY <1>2 DEF TallCalls
    <3> QED
      BY <3>1
  <2>2. i - 1 \in 1..p.nb
    BY <1>1, <2>1
  <2>3. n = 1
    <3>1. Len(TallCalls(p, t, i, k)) = 1
      BY <2>1, TallLengths, Zenon
    <3> QED
      BY <3>1
  <2> QED
    BY <1>2, <2>1, <2>3 DEF TallPlace
<1>3. CASE k = 1
  <2>1. TallCalls(p, t, i, k) = UpdateColumn(p, t, i)
    BY <1>3 DEF TallCalls
  <2>2. n \in 1..1
    BY <1>1, <1>3, <2>1, TallLengths
  <2> QED
    BY <1>3, <2>2 DEF TallPlace
<1>4. CASE k = 2
  <2>1. TallCalls(p, t, i, k) = ReflectColumn(p, t, i)
    BY <1>4 DEF TallCalls
  <2>2. n \in 1..1
    BY <1>1, <1>4, <2>1, TallLengths
  <2> QED
    BY <1>4, <2>2 DEF TallPlace
<1>5. CASE k = 3
  <2>1. TallCalls(p, t, i, k) = MultiplyColumn(p, t, i)
    BY <1>5 DEF TallCalls
  <2>2. n \in 1..2
    BY <1>1, <1>5, <2>1, TallLengths
  <2>3. CASE n = 2
    <3> DEFINE c == MultiplyColumn(p, t, i)[2]
    <3>1. c.by = "single" /\ c.writes = Buffer(p.nb..(p.nb + i - 2)) \cup Buffer(0..(i - 1))
      BY DEF MultiplyColumn, Single
    <3> HIDE DEF c
    <3>2. \A x \in c.writes : IsCell(x)
      BY <3>1, WhichCells
    <3> QED
      BY <1>5, <2>1, <2>3, <3>1, <3>2 DEF Alone2, c
  <2>4. CASE n = 1
    BY <1>5, <2>4 DEF TallPlace
  <2> QED
    BY <2>2, <2>3, <2>4
<1>6. CASE k = 4
  <2>1. TallCalls(p, t, i, k) = ExchangeY(p, t, i)
    BY <1>6 DEF TallCalls
  <2>2. n \in 1..1
    BY <1>1, <1>6, <2>1, TallLengths
  <2> QED
    BY <1>6, <2>2 DEF TallPlace
<1>7. CASE k = 5
  <2>1. TallCalls(p, t, i, k) = UpdateY(p, t, i)
    BY <1>7 DEF TallCalls
  <2>2. n \in 1..2
    BY <1>1, <1>7, <2>1, TallLengths
  <2> QED
    BY <1>7, <2>2 DEF TallPlace
<1>8. CASE k = 6
  <2>1. TallCalls(p, t, i, k) = UpdateRow(p, t, i)
    BY <1>8 DEF TallCalls
  <2>2. n \in 1..1
    BY <1>1, <1>8, <2>1, TallLengths
  <2> QED
    BY <1>8, <2>2 DEF TallPlace
<1>9. CASE k = 7
  <2>1. TallCalls(p, t, i, k) = ReflectRow(p, t, i)
    BY <1>9 DEF TallCalls
  <2>2. n \in 1..1
    BY <1>1, <1>9, <2>1, TallLengths
  <2> QED
    BY <1>9, <2>2 DEF TallPlace
<1>10. CASE k = 8
  <2>1. TallCalls(p, t, i, k) = MultiplyRow(p, t, i)
    BY <1>10 DEF TallCalls
  <2>2. n \in 1..2
    BY <1>1, <1>10, <2>1, TallLengths
  <2> QED
    BY <1>10, <2>2 DEF TallPlace
<1>11. CASE k = 9
  <2>1. TallCalls(p, t, i, k) = UpdateX(p, t, i)
    BY <1>11 DEF TallCalls
  <2>2. n \in 1..2
    BY <1>1, <1>11, <2>1, TallLengths
  <2> QED
    BY <1>11, <2>2 DEF TallPlace
<1> QED
  BY <1>2, <1>3, <1>4, <1>5, <1>6, <1>7, <1>8, <1>9, <1>10, <1>11

LEMMA WideLengths ==
  ASSUME NEW p, NEW t, NEW i
  PROVE  /\ Len(FinishWideY(p, t, i)) = 1 /\ Len(WideRow(p, t, i)) = 1
         /\ Len(WideX(p, t, i)) = 1 /\ Len(WideColumn(p, t, i)) = 1 /\ Len(WideY(p, t, i)) = 1
BY DEF FinishWideY, WideRow, WideX, WideColumn, WideY

(* The first section of a column, and the one after the last column.       *)
LEMMA Joined ==
  ASSUME NEW c, NEW d
  PROVE  /\ Len(<<c>> \o <<d>>) = 2 /\ (<<c>> \o <<d>>)[1] = c /\ (<<c>> \o <<d>>)[2] = d
         /\ <<>> \o <<d>> = <<d>> /\ <<c>> \o <<>> = <<c>>
         /\ Len(<<c>>) = 1 /\ <<c>>[1] = c
<1>1. <<c>> \in Seq({c, d}) /\ <<d>> \in Seq({c, d})
  OBVIOUS
<1>2. Len(<<c>> \o <<d>>) = 2 /\ (<<c>> \o <<d>>)[1] = c /\ (<<c>> \o <<d>>)[2] = d
  BY <1>1
<1>3. <<>> \o <<d>> = <<d>> /\ <<c>> \o <<>> = <<c>>
  BY <1>1
<1> QED
  BY <1>2, <1>3

LEMMA WideFirst ==
  ASSUME NEW p, NEW t, NEW i
  PROVE  LET cs == WideCalls(p, t, i, 0)
             c  == FinishWideY(p, t, i - 1)[1]
             d  == WideRow(p, t, i)[1]
         IN  /\ i > 1 /\ i <= p.nb => Len(cs) = 2 /\ cs[1] = c /\ cs[2] = d
             /\ ~(i > 1) /\ i <= p.nb => Len(cs) = 1 /\ cs[1] = d
             /\ i > 1 /\ ~(i <= p.nb) => Len(cs) = 1 /\ cs[1] = c
<1> DEFINE cs == WideCalls(p, t, i, 0)
           c  == FinishWideY(p, t, i - 1)[1]
           d  == WideRow(p, t, i)[1]
<1>1. FinishWideY(p, t, i - 1) = <<c>> /\ WideRow(p, t, i) = <<d>>
  BY DEF FinishWideY, WideRow
<1>2. cs = (IF i > 1 THEN FinishWideY(p, t, i - 1) ELSE <<>>)
             \o (IF i <= p.nb THEN WideRow(p, t, i) ELSE <<>>)
  <2>1. 0 # 1 /\ 0 # 2 /\ 0 # 3
    OBVIOUS
  <2> QED
    BY <2>1, Zenon DEF WideCalls
<1> HIDE DEF c, d, cs
<1>3. i > 1 /\ i <= p.nb => Len(cs) = 2 /\ cs[1] = c /\ cs[2] = d
  <2>1. i > 1 /\ i <= p.nb => cs = <<c>> \o <<d>>
    BY <1>1, <1>2, Zenon
  <2>2. /\ Len(<<c>> \o <<d>>) = 2 /\ (<<c>> \o <<d>>)[1] = c /\ (<<c>> \o <<d>>)[2] = d
    BY Joined, SMT
  <2> QED
    BY <2>1, <2>2, Zenon
<1>4. ~(i > 1) /\ i <= p.nb => Len(cs) = 1 /\ cs[1] = d
  <2>1. ~(i > 1) /\ i <= p.nb => cs = <<d>>
    BY <1>1, <1>2, Joined, Zenon
  <2> QED
    BY <2>1, Joined, Zenon
<1>5. i > 1 /\ ~(i <= p.nb) => Len(cs) = 1 /\ cs[1] = c
  <2>1. i > 1 /\ ~(i <= p.nb) => cs = <<c>>
    BY <1>1, <1>2, Joined, Zenon
  <2> QED
    BY <2>1, Joined, Zenon
<1> QED
  BY <1>3, <1>4, <1>5 DEF c, d, cs

LEMMA WideDone ==
  ASSUME NEW p \in Problem, ~Tall(p), NEW i, NEW k, NEW n, WidePlace(p, i, k, n)
  PROVE  Matches(p, [t \in Thread |-> WideCalls(p, t, i, k)], n, i, WideStep(i, k, n))
<1> DEFINE cs == [t \in Thread |-> WideCalls(p, t, i, k)]
<1>1. /\ i \in 1..(p.nb + 1) /\ k \in 0..3 /\ n \in 1..2 /\ p.nb \in Nat
      /\ k > 0 => i \in 1..p.nb /\ n = 1
      /\ n = 2 => i > 1 /\ i <= p.nb
  BY Sizes DEF WidePlace
<1>2. PerSerialColumn(p) = 5
  BY DEF PerSerialColumn
<1>3. CASE k = 0 /\ n = 1 /\ i > 1
  <2>1. i - 1 \in 1..p.nb
    BY <1>1, <1>3
  <2> DEFINE c(t) == FinishWideY(p, t, i - 1)[1]
             d(t) == WideRow(p, t, i)[1]
  <2>2. \A t \in Thread : Len(cs[t]) \in {1, 2} /\ cs[t][1] = c(t)
    BY <1>3, WideFirst
  <2>3. Serves([t \in Thread |-> c(t)], p, <<i - 1, 5>>)
    BY <2>1, WideServes
  <2> HIDE DEF c, d, cs
  <2>4. \A t \in Thread : 1 \in 1..Len(cs[t]) /\ cs[t][1] = c(t)
    BY <2>2
  <2>5. Nth(cs, 1) = [t \in Thread |-> c(t)]
    BY <2>4 DEF Nth
  <2>6. Matches(p, cs, 1, i, 0)
    BY <1>2, <2>3, <2>4, <2>5, SMTT(30) DEF Matches
  <2>7. WideStep(i, k, n) = 0
    BY <1>3 DEF WideStep
  <2> QED
    BY <1>3, <2>6, <2>7 DEF cs
<1>4. CASE k = 0 /\ n = 1 /\ ~(i > 1)
  <2>1. i \in 1..p.nb /\ i <= p.nb
    BY <1>1, <1>4, Sizes
  <2> DEFINE d(t) == WideRow(p, t, i)[1]
  <2>2. \A t \in Thread : Len(cs[t]) = 1 /\ cs[t][1] = d(t)
    BY <1>4, <2>1, WideFirst
  <2>3. Serves([t \in Thread |-> d(t)], p, <<i, 1>>)
    BY <2>1, WideServes
  <2> HIDE DEF d, cs
  <2>4. \A t \in Thread : 1 \in 1..Len(cs[t]) /\ cs[t][1] = d(t)
    BY <2>2
  <2>5. Nth(cs, 1) = [t \in Thread |-> d(t)]
    BY <2>4 DEF Nth
  <2>6. Matches(p, cs, 1, i, 1)
    BY <2>3, <2>4, <2>5, SMTT(30) DEF Matches
  <2>7. WideStep(i, k, n) = 1
    BY <1>4 DEF WideStep
  <2> QED
    BY <1>4, <2>6, <2>7 DEF cs
<1>5. CASE n = 2
  <2>1. i \in 1..p.nb /\ i <= p.nb /\ i > 1 /\ k = 0
    BY <1>1, <1>5
  <2> DEFINE c(t) == FinishWideY(p, t, i - 1)[1]
             d(t) == WideRow(p, t, i)[1]
  <2>2. \A t \in Thread : Len(cs[t]) = 2 /\ cs[t][2] = d(t)
    BY <2>1, WideFirst
  <2>3. Serves([t \in Thread |-> d(t)], p, <<i, 1>>)
    BY <2>1, WideServes
  <2> HIDE DEF c, d, cs
  <2>4. \A t \in Thread : 2 \in 1..Len(cs[t]) /\ cs[t][2] = d(t)
    BY <2>2
  <2>5. Nth(cs, 2) = [t \in Thread |-> d(t)]
    BY <2>4 DEF Nth
  <2>6. Matches(p, cs, 2, i, 1)
    BY <2>3, <2>4, <2>5, SMTT(30) DEF Matches
  <2>7. WideStep(i, k, n) = 1
    BY <1>5, <2>1 DEF WideStep
  <2> QED
    BY <1>5, <2>6, <2>7 DEF cs
<1>6. CASE k = 1
  <2>1. i \in 1..p.nb
    BY <1>1, <1>6
  <2>2. cs = [t \in Thread |-> WideX(p, t, i)]
    BY <1>6 DEF WideCalls
  <2> HIDE DEF cs
  <2>3. \A t \in Thread : Len(cs[t]) = 1
    BY <2>2, WideLengths
  <2>4. Serves(Nth(cs, 1), p, <<i, 2>>)
    <3>1. Nth(cs, 1) = [t \in Thread |-> WideX(p, t, i)[1]]
      BY <2>2 DEF Nth
    <3> QED
      BY <2>1, <3>1, WideServes
  <2>5. Matches(p, cs, 1, i, 2)
    BY <2>3, <2>4, SMTT(30) DEF Matches
  <2> QED
    BY <1>1, <1>6, <2>5 DEF cs, WideStep
<1>7. CASE k = 2
  <2>1. i \in 1..p.nb
    BY <1>1, <1>7
  <2>2. cs = [t \in Thread |-> WideColumn(p, t, i)]
    BY <1>7 DEF WideCalls
  <2> HIDE DEF cs
  <2>3. \A t \in Thread : Len(cs[t]) = 1
    BY <2>2, WideLengths
  <2>4. Serves(Nth(cs, 1), p, <<i, 3>>)
    <3>1. Nth(cs, 1) = [t \in Thread |-> WideColumn(p, t, i)[1]]
      BY <2>2 DEF Nth
    <3> QED
      BY <2>1, <3>1, WideServes
  <2>5. Matches(p, cs, 1, i, 3)
    BY <2>3, <2>4, SMTT(30) DEF Matches
  <2> QED
    BY <1>1, <1>7, <2>5 DEF cs, WideStep
<1>8. CASE k = 3
  <2>1. i \in 1..p.nb
    BY <1>1, <1>8
  <2>2. cs = [t \in Thread |-> WideY(p, t, i)]
    BY <1>8 DEF WideCalls
  <2> HIDE DEF cs
  <2>3. \A t \in Thread : Len(cs[t]) = 1
    BY <2>2, WideLengths
  <2>4. Serves(Nth(cs, 1), p, <<i, 4>>)
    <3>1. Nth(cs, 1) = [t \in Thread |-> WideY(p, t, i)[1]]
      BY <2>2 DEF Nth
    <3> QED
      BY <2>1, <3>1, WideServes
  <2>5. Matches(p, cs, 1, i, 4)
    <3>1. \A t \in Thread : 1 \in 1..Len(cs[t])
      BY <2>3
    <3> QED
      BY <2>4, <3>1 DEF Matches
  <2> QED
    BY <1>1, <1>8, <2>5 DEF cs, WideStep
<1> QED
  BY <1>1, <1>3, <1>4, <1>5, <1>6, <1>7, <1>8

LEMMA WidePlaces ==
  ASSUME NEW p \in Problem, NEW t \in Thread, NEW i \in 1..(p.nb + 1), NEW k \in 0..3,
         k > 0 => i <= p.nb, NEW n \in 1..Len(WideCalls(p, t, i, k))
  PROVE  WidePlace(p, i, k, n)
<1>1. p.nb \in Nat /\ p.nb > 0 /\ (k > 0 => i \in 1..p.nb)
  BY Sizes
<1>2. CASE k = 0
  <2>1. /\ i > 1 /\ i <= p.nb => Len(WideCalls(p, t, i, k)) = 2
        /\ ~(i > 1) /\ i <= p.nb => Len(WideCalls(p, t, i, k)) = 1
        /\ i > 1 /\ ~(i <= p.nb) => Len(WideCalls(p, t, i, k)) = 1
    BY <1>2, WideFirst, Zenon
  <2> DEFINE l == Len(WideCalls(p, t, i, k))
  <2>2. n \in 1..l /\ (l = 1 \/ (l = 2 /\ i > 1 /\ i <= p.nb))
    BY <1>1, <2>1
  <2> HIDE DEF l
  <2>3. n = 1 \/ (n = 2 /\ i > 1 /\ i <= p.nb)
    BY <2>2
  <2> QED
    BY <1>1, <1>2, <2>3 DEF WidePlace
<1>3. CASE k = 1
  <2>1. WideCalls(p, t, i, k) = WideX(p, t, i)
    BY <1>3 DEF WideCalls
  <2>2. n = 1
    <3>1. Len(WideCalls(p, t, i, k)) = 1
      BY <2>1, WideLengths, Zenon
    <3> QED
      BY <3>1
  <2> QED
    BY <1>3, <2>2 DEF WidePlace
<1>4. CASE k = 2
  <2>1. WideCalls(p, t, i, k) = WideColumn(p, t, i)
    BY <1>4 DEF WideCalls
  <2>2. n = 1
    <3>1. Len(WideCalls(p, t, i, k)) = 1
      BY <2>1, WideLengths, Zenon
    <3> QED
      BY <3>1
  <2> QED
    BY <1>4, <2>2 DEF WidePlace
<1>5. CASE k = 3
  <2>1. WideCalls(p, t, i, k) = WideY(p, t, i)
    BY <1>5 DEF WideCalls
  <2>2. n = 1
    <3>1. Len(WideCalls(p, t, i, k)) = 1
      BY <2>1, WideLengths, Zenon
    <3> QED
      BY <3>1
  <2> QED
    BY <1>5, <2>2 DEF WidePlace
<1> QED
  BY <1>2, <1>3, <1>4, <1>5

-----------------------------------------------------------------------------
(* Call n of section s: where it stands in the order of its column, and    *)
(* which serial call it is.                                                *)
StepOf(p, s, n) ==
  IF Tall(p) THEN TallStep(s % 10, n) ELSE WideStep(Column(p, s), s % 4, n)
Turn(p, s, n) ==
  IF StepOf(p, s, n) = 0 THEN <<Column(p, s) - 1, PerSerialColumn(p)>>
                         ELSE <<Column(p, s), StepOf(p, s, n)>>

PlaceOf(p, s, n) ==
  /\ s \in Nat /\ s <= Barriers(p)
  /\ Tall(p) => TallPlace(p, Column(p, s), s % 10, n)
  /\ ~Tall(p) => WidePlace(p, Column(p, s), s % 4, n)

LEMMA TurnDone ==
  ASSUME NEW p \in Problem, NEW s, NEW n, PlaceOf(p, s, n)
  PROVE  Matches(p, [t \in Thread |-> CallsIn(p, t, s)], n, Column(p, s), StepOf(p, s, n))
<1>1. Barriers(p) \in Nat /\ s \in Nat /\ s <= Barriers(p)
  BY Sizes DEF Barriers, PerColumn, PlaceOf
<1> DEFINE i == Column(p, s)
<1>2. CASE Tall(p)
  <2> DEFINE k == s % 10
  <2>1. TallPlace(p, i, k, n)
    BY <1>2 DEF PlaceOf
  <2>2. \A t \in Thread : CallsIn(p, t, s) = TallCalls(p, t, i, k)
    BY <1>1, <1>2 DEF CallsIn
  <2>3. StepOf(p, s, n) = TallStep(k, n)
    BY <1>2 DEF StepOf
  <2> HIDE DEF i, k
  <2>4. Matches(p, [t \in Thread |-> TallCalls(p, t, i, k)], n, i, TallStep(k, n))
    BY <1>2, <2>1, TallDone
  <2>5. [t \in Thread |-> CallsIn(p, t, s)] = [t \in Thread |-> TallCalls(p, t, i, k)]
    BY <2>2
  <2> QED
    BY <2>3, <2>4, <2>5, Zenon DEF i
<1>3. CASE ~Tall(p)
  <2> DEFINE k == s % 4
  <2>1. WidePlace(p, i, k, n)
    BY <1>3 DEF PlaceOf
  <2>2. \A t \in Thread : CallsIn(p, t, s) = WideCalls(p, t, i, k)
    BY <1>1, <1>3 DEF CallsIn
  <2>3. StepOf(p, s, n) = WideStep(i, k, n)
    BY <1>3 DEF StepOf
  <2> HIDE DEF i, k
  <2>4. Matches(p, [t \in Thread |-> WideCalls(p, t, i, k)], n, i, WideStep(i, k, n))
    BY <1>3, <2>1, WideDone
  <2>5. [t \in Thread |-> CallsIn(p, t, s)] = [t \in Thread |-> WideCalls(p, t, i, k)]
    BY <2>2
  <2> QED
    BY <2>3, <2>4, <2>5, Zenon DEF i
<1> QED
  BY <1>2, <1>3

(* Every call that a thread comes to has a turn, but that of the single    *)
(* section, which only fills the buffer.                                   *)
LEMMA TurnPlaces ==
  ASSUME NEW p \in Problem, NEW t \in Thread, NEW s \in Nat, NEW n \in 1..Len(CallsIn(p, t, s))
  PROVE  \/ PlaceOf(p, s, n)
         \/ CallsIn(p, t, s)[n].by = "single" /\ \A x \in CallsIn(p, t, s)[n].writes : IsCell(x)
<1>1. Barriers(p) \in Nat
  BY Sizes DEF Barriers, PerColumn
<1>2. s <= Barriers(p)
  <2>1. CASE s > Barriers(p)
    <3>1. CallsIn(p, t, s) = <<>>
      BY <1>1, <2>1 DEF CallsIn
    <3> QED
      BY <3>1
  <2> QED
    BY <1>1, <2>1
<1>3. CASE Tall(p)
  <2>1. PICK i \in 1..(p.nb + 1), k \in 0..9 :
          i = Column(p, s) /\ k = s % 10 /\ (k > 0 => i <= p.nb)
    BY <1>2, <1>3, Steps
  <2>2. CallsIn(p, t, s) = TallCalls(p, t, i, k)
    BY <1>1, <1>2, <1>3, <2>1 DEF CallsIn
  <2>3. TallPlace(p, i, k, n) \/ Alone2(TallCalls(p, t, i, k)[n], k, n)
    <3>1. n \in 1..Len(TallCalls(p, t, i, k))
      BY <2>2, Zenon
    <3> QED
      BY <2>1, <3>1, TallPlaces
  <2> QED
    BY <1>2, <1>3, <2>1, <2>2, <2>3 DEF PlaceOf, Alone2
<1>4. CASE ~Tall(p)
  <2>1. PICK i \in 1..(p.nb + 1), k \in 0..3 :
          i = Column(p, s) /\ k = s % 4 /\ (k > 0 => i <= p.nb)
    BY <1>2, <1>4, Steps
  <2>2. CallsIn(p, t, s) = WideCalls(p, t, i, k)
    BY <1>1, <1>2, <1>4, <2>1 DEF CallsIn
  <2>3. WidePlace(p, i, k, n)
    <3>1. n \in 1..Len(WideCalls(p, t, i, k))
      BY <2>2, Zenon
    <3> QED
      BY <2>1, <3>1, WidePlaces
  <2> QED
    BY <1>2, <1>4, <2>1, <2>3 DEF PlaceOf
<1> QED
  BY <1>3, <1>4

(* The turn of a call is a serial call, at the moment that its column and  *)
(* step say.                                                               *)
LEMMA TallSize ==
  ASSUME NEW p, NEW i, NEW k, NEW n, TallPlace(p, i, k, n)
  PROVE  /\ TallStep(k, n) \in 0..12
         /\ TallStep(k, n) = 0 <=> k = 0
<1>1. k \in 0..9 /\ n \in 1..2 /\ (n = 2 => k \in {5, 8, 9})
  BY DEF TallPlace
<1> QED
  BY <1>1, TallSteps

LEMMA TurnIs ==
  ASSUME NEW p \in Problem, NEW s, NEW n, PlaceOf(p, s, n)
  PROVE  /\ Column(p, s) \in Nat /\ StepOf(p, s, n) \in 0..(PerSerialColumn(p) - 1)
         /\ Turn(p, s, n) \in Turns(p)
         /\ Moment(p, Turn(p, s, n)) = PerSerialColumn(p) * Column(p, s) + StepOf(p, s, n)
         /\ Record(p, Turn(p, s, n)) = <<Column(p, s), SerialCall(p, Turn(p, s, n))[1]>>
<1> DEFINE i == Column(p, s)
           m == StepOf(p, s, n)
           per == PerSerialColumn(p)
           w == Turn(p, s, n)
<1>1. p.nb \in Nat /\ p.nb > 0 /\ per \in {5, 13}
  BY Sizes DEF PerSerialColumn
<1>2. /\ i \in 1..(p.nb + 1) /\ m \in 0..(per - 1)
      /\ m = 0 => i > 1
      /\ m > 0 => i <= p.nb
  <2>1. CASE Tall(p)
    <3> DEFINE k == s % 10
    <3>1. per = 13 /\ m = TallStep(k, n) /\ TallPlace(p, i, k, n)
      BY <2>1 DEF PerSerialColumn, StepOf, PlaceOf
    <3> HIDE DEF i, m, per, k
    <3>2. m \in 0..12 /\ (m = 0 <=> k = 0)
      BY <3>1, TallSize
    <3> QED
      BY <3>1, <3>2 DEF TallPlace
  <2>2. CASE ~Tall(p)
    <3> DEFINE k == s % 4
    <3>1. per = 5 /\ m = WideStep(i, k, n) /\ WidePlace(p, i, k, n)
      BY <2>2 DEF PerSerialColumn, StepOf, PlaceOf
    <3> HIDE DEF i, m, per, k
    <3> QED
      BY <1>1, <3>1 DEF WidePlace, WideStep
  <2> QED
    BY <2>1, <2>2
<1>3. w = IF m = 0 THEN <<i - 1, per>> ELSE <<i, m>>
  BY DEF Turn
<1> HIDE DEF i, m, per, w
<1>4. w \in Turns(p)
  <2>1. CASE m = 0
    <3>1. w = <<i - 1, per>> /\ i - 1 \in 1..p.nb /\ per \in 1..per
      BY <1>1, <1>2, <1>3, <2>1
    <3> QED
      BY <3>1 DEF Turns, per
  <2>2. CASE m # 0
    <3>1. w = <<i, m>> /\ i \in 1..p.nb /\ m \in 1..per
      BY <1>1, <1>2, <1>3, <2>2
    <3> QED
      BY <3>1 DEF Turns, per
  <2> QED
    BY <2>1, <2>2
<1>5. Moment(p, w) = per * i + m
  <2>1. Moment(p, w) = per * w[1] + w[2]
    BY DEF Moment, per
  <2> QED
    BY <1>1, <1>2, <1>3, <2>1
<1>6. Record(p, w) = <<i, SerialCall(p, w)[1]>>
  <2>1. Record(p, w) = <<IF w[2] = per THEN w[1] + 1 ELSE w[1], SerialCall(p, w)[1]>>
    BY DEF Record, per
  <2>2. (IF w[2] = per THEN w[1] + 1 ELSE w[1]) = i
    BY <1>1, <1>2, <1>3
  <2> QED
    BY <2>1, <2>2
<1>7. i \in Nat
  BY <1>1, <1>2
<1> QED
  BY <1>2, <1>4, <1>5, <1>6, <1>7 DEF i, m, per, w

(* The calls of the threads at one place are together one serial call.     *)
LEMMA TurnServes ==
  ASSUME NEW p \in Problem, NEW s, NEW n, PlaceOf(p, s, n)
  PROVE  /\ \A t \in Thread :
              /\ n \in 1..Len(CallsIn(p, t, s)) /\ CallsIn(p, t, s)[n].by # "single"
              /\ Record(p, Turn(p, s, n)) = <<Column(p, s), CallsIn(p, t, s)[n].name>>
         /\ \A t \in Thread : \A x : Fill(p, t, s, n, x, "all") /\ ~IsCell(x) =>
              x \in SerialCall(p, Turn(p, s, n))[2]
         /\ \A x \in SerialCall(p, Turn(p, s, n))[2] :
              \E t \in Thread : Fill(p, t, s, n, x, "all")
<1> DEFINE cs == [t \in Thread |-> CallsIn(p, t, s)]
           w == Turn(p, s, n)
           c == Nth(cs, n)
<1>1. (\A t \in Thread : n \in 1..Len(cs[t])) /\ Serves(c, p, w)
  <2>1. Matches(p, cs, n, Column(p, s), StepOf(p, s, n))
    BY TurnDone
  <2>2. w = IF StepOf(p, s, n) = 0 THEN <<Column(p, s) - 1, PerSerialColumn(p)>>
                                  ELSE <<Column(p, s), StepOf(p, s, n)>>
    BY DEF Turn
  <2> HIDE DEF cs, w
  <2> QED
    BY <2>1, <2>2, Zenon DEF Matches
<1>2. \A t \in Thread : cs[t] = CallsIn(p, t, s) /\ c[t] = CallsIn(p, t, s)[n]
  BY DEF Nth
<1>3. Record(p, w) = <<Column(p, s), SerialCall(p, w)[1]>>
  BY TurnIs
<1> HIDE DEF cs, c, w
<1>4. /\ \A t \in Thread : c[t].name = SerialCall(p, w)[1] /\ c[t].by # "single"
      /\ \A t \in Thread : c[t].by = "all" =>
           \A x \in c[t].writes : ~IsCell(x) => x \in SerialCall(p, w)[2]
      /\ \A x \in SerialCall(p, w)[2] : \E t \in Thread : c[t].by = "all" /\ x \in c[t].writes
  BY <1>1, Zenon DEF Serves, Spread
<1>5. ASSUME NEW t \in Thread
      PROVE  /\ n \in 1..Len(CallsIn(p, t, s)) /\ CallsIn(p, t, s)[n].by # "single"
             /\ Record(p, w) = <<Column(p, s), CallsIn(p, t, s)[n].name>>
  BY <1>1, <1>2, <1>3, <1>4
<1>6. ASSUME NEW t \in Thread, NEW x, Fill(p, t, s, n, x, "all"), ~IsCell(x)
      PROVE  x \in SerialCall(p, w)[2]
  BY <1>2, <1>4, <1>6 DEF Fill
<1>7. ASSUME NEW x \in SerialCall(p, w)[2]
      PROVE  \E t \in Thread : Fill(p, t, s, n, x, "all")
  BY <1>2, <1>4, <1>5 DEF Fill
<1> QED
  BY <1>5, <1>6, <1>7 DEF w

(* Every serial call has its turn.                                         *)
LEMMA TallTaken ==
  ASSUME NEW m \in 0..12
  PROVE  \E k \in 0..9, n \in 1..2 : TallStep(k, n) = m /\ (n = 2 => k \in {5, 8, 9})
<1>1. TallStep(0, 1) = 0 /\ TallStep(1, 1) = 1 /\ TallStep(2, 1) = 2 /\ TallStep(3, 1) = 3
      /\ TallStep(4, 1) = 4 /\ TallStep(5, 1) = 5 /\ TallStep(5, 2) = 6 /\ TallStep(6, 1) = 7
      /\ TallStep(7, 1) = 8 /\ TallStep(8, 1) = 9 /\ TallStep(8, 2) = 10
      /\ TallStep(9, 1) = 11 /\ TallStep(9, 2) = 12
  BY TallSteps
<1> QED
  BY <1>1

LEMMA Digits ==
  ASSUME NEW i \in Nat, i >= 1
  PROVE  /\ \A k \in 0..9 : (10 * (i - 1) + k) \div 10 = i - 1 /\ (10 * (i - 1) + k) % 10 = k
         /\ \A k \in 0..3 : (4 * (i - 1) + k) \div 4 = i - 1 /\ (4 * (i - 1) + k) % 4 = k
BY Z3

LEMMA TurnTaken ==
  ASSUME NEW p \in Problem, NEW w \in Turns(p)
  PROVE  \E s, n : PlaceOf(p, s, n) /\ Turn(p, s, n) = w
<1> DEFINE per == PerSerialColumn(p)
           i == IF w[2] = per THEN w[1] + 1 ELSE w[1]
           m == IF w[2] = per THEN 0 ELSE w[2]
<1>1. /\ w[1] \in 1..p.nb /\ w[2] \in 1..per /\ w = <<w[1], w[2]>> /\ per \in {5, 13}
      /\ p.nb \in Nat /\ p.nb > 0
  BY Sizes DEF Turns, PerSerialColumn
<1> HIDE DEF per
<1>2. /\ i \in 1..(p.nb + 1) /\ m \in 0..(per - 1) /\ (m > 0 => i <= p.nb) /\ (m = 0 => i > 1)
      /\ w = IF m = 0 THEN <<i - 1, per>> ELSE <<i, m>>
  BY <1>1
<1> HIDE DEF i, m
<1>3. CASE Tall(p)
  <2>1. per = 13 /\ Barriers(p) = 10 * p.nb
    BY <1>3 DEF per, PerSerialColumn, Barriers, PerColumn
  <2>2. PICK k \in 0..9, n \in 1..2 : TallStep(k, n) = m /\ (n = 2 => k \in {5, 8, 9})
    BY <1>2, <2>1, TallTaken
  <2>3. m = 0 <=> k = 0
    BY <2>2, TallSteps
  <2> DEFINE s == 10 * (i - 1) + k
  <2>4. s \in Nat /\ s <= Barriers(p)
    BY <1>1, <1>2, <2>1, <2>2, <2>3
  <2>5. Column(p, s) = i /\ s % 10 = k
    <3>1. s \div 10 = i - 1 /\ s % 10 = k
      BY <1>2, Digits
    <3> QED
      BY <1>2, <1>3, <3>1 DEF Column, PerColumn
  <2> HIDE DEF s
  <2>6. TallPlace(p, i, k, n)
    BY <1>2, <2>2, <2>3 DEF TallPlace
  <2>7. PlaceOf(p, s, n) /\ StepOf(p, s, n) = m
    BY <1>3, <2>2, <2>4, <2>5, <2>6 DEF PlaceOf, StepOf
  <2>8. Turn(p, s, n) = w
    BY <1>2, <2>5, <2>7 DEF Turn, per
  <2> QED
    BY <2>7, <2>8
<1>4. CASE ~Tall(p)
  <2>1. per = 5 /\ Barriers(p) = 4 * p.nb
    BY <1>4 DEF per, PerSerialColumn, Barriers, PerColumn
  <2> DEFINE k == IF m <= 1 THEN 0 ELSE m - 1
             n == IF m = 1 /\ i > 1 THEN 2 ELSE 1
             s == 4 * (i - 1) + k
  <2>2. WidePlace(p, i, k, n) /\ WideStep(i, k, n) = m /\ k \in 0..3 /\ (k > 0 => i <= p.nb)
    BY <1>1, <1>2, <2>1 DEF WidePlace, WideStep
  <2> HIDE DEF k, n
  <2>3. s \in Nat /\ s <= Barriers(p)
    BY <1>1, <1>2, <2>1, <2>2
  <2>4. Column(p, s) = i /\ s % 4 = k
    <3>1. s \div 4 = i - 1 /\ s % 4 = k
      BY <1>2, <2>2, Digits
    <3> QED
      BY <1>2, <1>4, <3>1 DEF Column, PerColumn
  <2> HIDE DEF s
  <2>5. PlaceOf(p, s, n) /\ StepOf(p, s, n) = m
    BY <1>4, <2>2, <2>3, <2>4 DEF PlaceOf, StepOf
  <2>6. Turn(p, s, n) = w
    BY <1>2, <2>4, <2>5 DEF Turn, per
  <2> QED
    BY <2>5, <2>6
<1> QED
  BY <1>3, <1>4

(* The turns come in the order of the sections and of the calls in them.   *)
LEMMA TallGrows ==
  ASSUME NEW p, NEW i, NEW k, NEW n, NEW l, NEW g, TallPlace(p, i, k, n), TallPlace(p, i, l, g),
         k < l \/ (k = l /\ n < g)
  PROVE  TallStep(k, n) < TallStep(l, g)
<1>1. /\ k \in 0..9 /\ n \in 1..2 /\ (n = 2 => k \in {5, 8, 9})
      /\ l \in 0..9 /\ g \in 1..2 /\ (g = 2 => l \in {5, 8, 9})
  BY DEF TallPlace
<1>2. ASSUME NEW a \in 0..9, NEW b \in 1..2, b = 2 => a \in {5, 8, 9}
      PROVE  TallStep(a, b) = IF a <= 4 THEN a ELSE IF a = 5 THEN 4 + b ELSE
                              IF a <= 7 THEN a + 1 ELSE IF a = 8 THEN 8 + b ELSE 10 + b
  BY <1>2, TallSteps
<1> QED
  BY <1>1, <1>2

LEMMA TurnGrows ==
  ASSUME NEW p \in Problem, NEW s, NEW n, NEW r, NEW g, PlaceOf(p, s, n), PlaceOf(p, r, g),
         s < r \/ (s = r /\ n < g)
  PROVE  Moment(p, Turn(p, s, n)) < Moment(p, Turn(p, r, g))
<1> DEFINE i == Column(p, s)
           j == Column(p, r)
           a == StepOf(p, s, n)
           b == StepOf(p, r, g)
           per == PerSerialColumn(p)
<1>1. /\ i \in Nat /\ j \in Nat /\ a \in 0..(per - 1) /\ b \in 0..(per - 1)
      /\ Moment(p, Turn(p, s, n)) = per * i + a /\ Moment(p, Turn(p, r, g)) = per * j + b
  BY TurnIs
<1>2. per \in {5, 13} /\ s \in Nat /\ r \in Nat
  BY DEF PerSerialColumn, PlaceOf
<1>3. i < j \/ (i = j /\ a < b)
  <2>1. CASE Tall(p)
    <3> DEFINE k == s % 10
               l == r % 10
    <3>1. /\ i = s \div 10 + 1 /\ j = r \div 10 + 1
          /\ TallPlace(p, i, k, n) /\ TallPlace(p, j, l, g)
          /\ a = TallStep(k, n) /\ b = TallStep(l, g)
      BY <2>1 DEF Column, PerColumn, PlaceOf, StepOf
    <3>2. i < j \/ (i = j /\ k < l) \/ (i = j /\ k = l /\ n < g)
      <4>1. s \div 10 < r \div 10 \/ (s \div 10 = r \div 10 /\ s % 10 < r % 10) \/ (s = r /\ n < g)
        BY <1>2, Z3
      <4> QED
        BY <1>2, <3>1, <4>1
    <3> HIDE DEF i, j, k, l, a, b
    <3> QED
      BY <3>1, <3>2, TallGrows
  <2>2. CASE ~Tall(p)
    <3> DEFINE k == s % 4
               l == r % 4
    <3>1. /\ i = s \div 4 + 1 /\ j = r \div 4 + 1
          /\ WidePlace(p, i, k, n) /\ WidePlace(p, j, l, g)
          /\ a = WideStep(i, k, n) /\ b = WideStep(j, l, g)
      BY <2>2 DEF Column, PerColumn, PlaceOf, StepOf
    <3>2. i < j \/ (i = j /\ k < l) \/ (i = j /\ k = l /\ n < g)
      <4>1. s \div 4 < r \div 4 \/ (s \div 4 = r \div 4 /\ s % 4 < r % 4) \/ (s = r /\ n < g)
        BY <1>2, Z3
      <4> QED
        BY <1>2, <3>1, <4>1
    <3> HIDE DEF i, j, k, l, a, b
    <3>3. ASSUME i = j, k < l \/ (k = l /\ n < g) PROVE a < b
      BY <3>1, <3>3, Sizes DEF WidePlace, WideStep
    <3> QED
      BY <3>2, <3>3
  <2> QED
    BY <2>1, <2>2
<1> HIDE DEF i, j, a, b, per
<1> QED
  BY <1>1, <1>2, <1>3

-----------------------------------------------------------------------------
(* What the elements of the arrays hold.                                   *)

Mark(s, n) == Record(prob, Turn(prob, s, n))
Marks == {Record(prob, w) : w \in Turns(prob)}

(* Thread t has written element x in call n of section s.                  *)
Written(t, s, n, x) == Fill(prob, t, s, n, x, "all") /\ Past(t, s, n)

(* What has been written is recorded, nothing else is, and in the order of *)
(* the serial calls.                                                       *)
Explained(x) ==
  \A q \in DOMAIN hist[x] :
    \E t \in Thread, s \in Nat, n \in Nat : Written(t, s, n, x) /\ hist[x][q] = Mark(s, n)
Recorded(x) ==
  \A t \in Thread, s \in Nat, n \in Nat :
    Written(t, s, n, x) => \E q \in DOMAIN hist[x] : hist[x][q] = Mark(s, n)
InTurn(x) ==
  \A q \in DOMAIN hist[x], r \in DOMAIN hist[x] :
    q < r => Time(prob, hist[x][q]) < Time(prob, hist[x][r])

Traced ==
  \A x \in Element(prob) : ~IsCell(x) =>
    /\ x \in DOMAIN hist /\ hist[x] \in Seq(Marks)
    /\ Explained(x) /\ Recorded(x) /\ InTurn(x)

Told == Finished /\ Traced

LEMMA TracedInit == Begin => Told
<1> SUFFICES ASSUME Begin PROVE Told
  OBVIOUS
<1>1. /\ pc = [t \in Thread |-> "outside"] /\ passed = [t \in Thread |-> 0]
      /\ call = [t \in Thread |-> 1] /\ hist = [x \in Element(prob) |-> <<>>]
  BY DEF Begin, Init
<1>2. Finished
  BY <1>1 DEF Finished
<1>3. \A t \in Thread, s \in Nat, n \in Nat : \A x : ~Written(t, s, n, x)
  <2>1. \A t \in Thread, s \in Nat, n \in Nat : n >= 1 => ~Past(t, s, n)
    BY <1>1 DEF Past
  <2> QED
    BY <2>1 DEF Written, Fill
<1>4. ASSUME NEW x \in Element(prob)
      PROVE  /\ x \in DOMAIN hist /\ hist[x] \in Seq(Marks)
             /\ Explained(x) /\ Recorded(x) /\ InTurn(x)
  <2>1. x \in DOMAIN hist /\ hist[x] = <<>> /\ DOMAIN hist[x] = {} /\ hist[x] \in Seq(Marks)
    BY <1>1
  <2>2. Explained(x)
    BY <2>1 DEF Explained
  <2>3. Recorded(x)
    BY <1>3 DEF Recorded
  <2>4. InTurn(x)
    BY <2>1 DEF InTurn
  <2> QED
    BY <2>1, <2>2, <2>3, <2>4
<1> QED
  BY <1>2, <1>4 DEF Told, Traced

(* A call that has written an element has a turn.                          *)
LEMMA WrittenTurn ==
  ASSUME prob \in Problem, NEW t \in Thread, NEW s \in Nat, NEW n \in Nat, NEW x,
         Fill(prob, t, s, n, x, "all")
  PROVE  PlaceOf(prob, s, n) /\ Mark(s, n) \in Marks
         /\ Time(prob, Mark(s, n)) = Moment(prob, Turn(prob, s, n))
<1>1. n \in 1..Len(CallsIn(prob, t, s)) /\ CallsIn(prob, t, s)[n].by # "single"
  BY DEF Fill
<1>2. PlaceOf(prob, s, n)
  BY <1>1, TurnPlaces
<1>3. Turn(prob, s, n) \in Turns(prob)
  BY <1>2, TurnIs
<1> QED
  BY <1>2, <1>3, RecordTime DEF Mark, Marks

(* What has been written before a call is about to write an element again  *)
(* was written in an earlier turn: by a call of an earlier section, or by  *)
(* the same thread, since the parts of two threads are disjoint.           *)
LEMMA WrittenBefore ==
  ASSUME IInv, Place, NEW u \in Thread, pc[u] = "outside",
         NEW x, Fill(prob, u, passed[u], call[u], x, "all"),
         NEW t \in Thread, NEW s \in Nat, NEW n \in Nat, Written(t, s, n, x)
  PROVE  Time(prob, Mark(s, n)) < Time(prob, Mark(passed[u], call[u]))
<1> DEFINE r == passed[u]
           m == call[u]
<1>1. /\ prob \in Problem /\ r \in Nat /\ m \in Nat /\ passed[t] \in Nat /\ call[t] \in Nat
      /\ passed[t] <= r
  BY Stand, Together
<1>2. Fill(prob, t, s, n, x, "all") /\ (passed[t] > s \/ (passed[t] = s /\ call[t] > n))
  BY DEF Written, Past
<1>3. s < r \/ (s = r /\ n < m)
  <2>1. CASE s = r /\ t # u
    <3>1. Independent(CallsIn(prob, t, s), CallsIn(prob, u, s))
      BY <1>1, <2>1, SectionIndependent
    <3>2. /\ n \in 1..Len(CallsIn(prob, t, s)) /\ CallsIn(prob, t, s)[n].by = "all"
          /\ x \in CallsIn(prob, t, s)[n].writes
          /\ m \in 1..Len(CallsIn(prob, u, s)) /\ CallsIn(prob, u, s)[m].by = "all"
          /\ x \in CallsIn(prob, u, s)[m].writes
      BY <1>2, <2>1 DEF Fill
    <3>3. Foreign(CallsIn(prob, t, s)[n], CallsIn(prob, u, s)[m])
      BY <3>1, <3>2 DEF Independent
    <3> QED
      BY <3>2, <3>3 DEF Foreign
  <2>2. CASE s = r /\ t = u
    BY <1>1, <1>2, <2>2
  <2>3. CASE s # r
    BY <1>1, <1>2, <2>3
  <2> QED
    BY <2>1, <2>2, <2>3
<1>4. /\ PlaceOf(prob, s, n) /\ Time(prob, Mark(s, n)) = Moment(prob, Turn(prob, s, n))
      /\ PlaceOf(prob, r, m) /\ Time(prob, Mark(r, m)) = Moment(prob, Turn(prob, r, m))
  BY <1>1, <1>2, WrittenTurn
<1>5. Moment(prob, Turn(prob, s, n)) < Moment(prob, Turn(prob, r, m))
  BY <1>1, <1>3, <1>4, TurnGrows
<1> QED
  BY <1>4, <1>5

(* A sequence with one more element.                                       *)
LEMMA OneMore ==
  ASSUME NEW S, NEW h \in Seq(S), NEW e \in S, NEW g, g = Append(h, e)
  PROVE  /\ g \in Seq(S) /\ Len(h) \in Nat /\ DOMAIN h = 1..Len(h)
         /\ DOMAIN g = 1..(Len(h) + 1)
         /\ \A q \in DOMAIN h : q \in DOMAIN g /\ g[q] = h[q]
         /\ g[Len(h) + 1] = e
OBVIOUS

(* Nothing is forgotten when a thread leaves a call behind.                *)
LEMMA StaysBehind ==
  ASSUME Place, NEW u \in Thread, call' = [call EXCEPT ![u] = @ + 1], passed' = passed,
         NEW t \in Thread, NEW s \in Nat, NEW q \in Nat, Past(t, s, q)
  PROVE  Past(t, s, q)'
<1>1. call \in [Thread -> Nat \ {0}]
  BY DEF Place
<1>2. call'[t] = IF t = u THEN call[u] + 1 ELSE call[t]
  BY <1>1
<1>3. call[t] \in Nat /\ call[u] \in Nat
  BY <1>1
<1> QED
  BY <1>2, <1>3 DEF Past

(* When neither the matrix nor what is written changes.                    *)
LEMMA TracedSame ==
  ASSUME Traced, prob' = prob, hist' = hist,
         \A t \in Thread, s \in Nat, n \in Nat, x \in Element(prob) : ~IsCell(x) =>
           (Written(t, s, n, x)' <=> Written(t, s, n, x))
  PROVE  Traced'
<1>1. Marks' = Marks /\ \A s, n : Mark(s, n)' = Mark(s, n)
  BY DEF Marks, Mark
<1> SUFFICES ASSUME NEW x \in Element(prob), ~IsCell(x)
             PROVE  /\ x \in DOMAIN hist' /\ hist'[x] \in Seq(Marks')
                    /\ Explained(x)' /\ Recorded(x)' /\ InTurn(x)'
  BY DEF Traced
<1>2. /\ x \in DOMAIN hist /\ hist[x] \in Seq(Marks)
      /\ Explained(x) /\ Recorded(x) /\ InTurn(x)
  BY DEF Traced
<1>3. Explained(x)'
  BY <1>1, <1>2 DEF Explained
<1>4. Recorded(x)'
  BY <1>1, <1>2 DEF Recorded
<1>5. InTurn(x)'
  BY <1>2 DEF InTurn
<1> QED
  BY <1>1, <1>2, <1>3, <1>4, <1>5

(* MakeCall: an element that the call writes gets its mark, in turn; what  *)
(* the single section writes is in the buffer.                             *)
LEMMA TracedMakes ==
  ASSUME IInv, Place, Told, NEW u \in Thread, MakeCall(u)
  PROVE  Told'
<1>0. PICK r \in Nat, m \in Nat : r = passed[u] /\ m = call[u]
  BY Stand
<1> DEFINE c == CallsIn(prob, u, r)[m]
           i == Column(prob, r)
           e == <<i, c.name>>
<1>1. /\ hist' = Write(hist, Current(u), Here(u)) /\ call' = [call EXCEPT ![u] = @ + 1]
      /\ UNCHANGED <<pc, passed, prob, single>>
      /\ AtCall(u) /\ Makes(u)
  BY DEF MakeCall, vars
<1>2. /\ prob \in Problem /\ r \in Nat /\ m \in Nat /\ m \in 1..Len(CallsIn(prob, u, r))
      /\ Current(u) = c /\ Here(u) = i /\ pc[u] = "outside"
  BY <1>0, <1>1, Stand DEF Here, AtCall
<1>3. \A x \in DOMAIN hist : hist'[x] = IF x \in c.writes THEN Append(hist[x], e) ELSE hist[x]
  BY <1>1, <1>2, Zenon DEF Write
<1>4. DOMAIN hist' = DOMAIN hist
  BY <1>1 DEF Write
<1>5. Marks' = Marks /\ \A s, n : Mark(s, n)' = Mark(s, n)
  BY <1>1 DEF Marks, Mark
<1>6. ASSUME NEW x \in c.writes, ~IsCell(x)
      PROVE  Fill(prob, u, r, m, x, "all") /\ e = Mark(r, m)
  <2>1. PlaceOf(prob, r, m)
    BY <1>2, <1>6, TurnPlaces
  <2>2. c.by # "single" /\ Mark(r, m) = <<i, c.name>>
    BY <1>2, <2>1, TurnServes DEF Mark
  <2>3. c.by = "all"
    BY <1>1, <1>2, <2>2 DEF Makes
  <2> QED
    BY <1>2, <1>6, <2>2, <2>3 DEF Fill
<1>7. \A t \in Thread, s \in Nat, n \in Nat : Past(t, s, n)' =>
        Past(t, s, n) \/ (t = u /\ s = r /\ n = m)
  <2> SUFFICES ASSUME NEW t \in Thread, NEW s \in Nat, NEW n \in Nat, Past(t, s, n)'
               PROVE  Past(t, s, n) \/ (t = u /\ s = r /\ n = m)
    OBVIOUS
  <2>1. passed' = passed
    BY <1>1
  <2> QED
    BY <1>0, <1>1, <2>1, LeftBehind
<1>8. \A t \in Thread, s \in Nat, n \in Nat : Past(t, s, n) => Past(t, s, n)'
  <2>1. passed' = passed
    BY <1>1
  <2> QED
    BY <1>1, <2>1, StaysBehind
<1>9. Past(u, r, m)'
  <2>1. call'[u] = m + 1 /\ passed'[u] = r
    BY <1>0, <1>1 DEF Place
  <2> QED
    BY <1>2, <2>1 DEF Past
<1> HIDE DEF c, e, i
<1>10. Finished'
  BY <1>0, <1>1, <1>2 DEF Told, Finished, Place
<1>11. Traced'
  <2> SUFFICES ASSUME NEW x \in Element(prob), ~IsCell(x)
               PROVE  /\ x \in DOMAIN hist' /\ hist'[x] \in Seq(Marks')
                      /\ Explained(x)' /\ Recorded(x)' /\ InTurn(x)'
    BY <1>1 DEF Traced
  <2>1. /\ x \in DOMAIN hist /\ hist[x] \in Seq(Marks)
        /\ Explained(x) /\ Recorded(x) /\ InTurn(x)
    BY DEF Told, Traced
  <2>2. \A t \in Thread, s \in Nat, n \in Nat :
          /\ Written(t, s, n, x)' <=> Fill(prob, t, s, n, x, "all") /\ Past(t, s, n)'
          /\ Written(t, s, n, x) <=> Fill(prob, t, s, n, x, "all") /\ Past(t, s, n)
    BY <1>1 DEF Written
  <2>3. \A t \in Thread, s \in Nat, n \in Nat : Written(t, s, n, x) => Written(t, s, n, x)'
    BY <1>8, <2>2
  <2>4. CASE x \in c.writes
    <3>1. Fill(prob, u, r, m, x, "all") /\ e = Mark(r, m)
      BY <1>6, <2>4
    <3>2. e \in Marks
      BY <1>2, <3>1, WrittenTurn
    <3>3. hist'[x] = Append(hist[x], e)
      BY <1>3, <2>1, <2>4
    <3> DEFINE h == hist[x]
               g == hist'[x]
    <3>4. /\ g \in Seq(Marks) /\ Len(h) \in Nat /\ DOMAIN h = 1..Len(h)
          /\ DOMAIN g = 1..(Len(h) + 1)
          /\ \A q \in DOMAIN h : q \in DOMAIN g /\ g[q] = h[q]
          /\ g[Len(h) + 1] = e
      BY <2>1, <3>2, <3>3, OneMore
    <3>5. Written(u, r, m, x)'
      BY <1>2, <1>9, <2>2, <3>1
    <3>6. Explained(x)'
      <4> SUFFICES ASSUME NEW q \in DOMAIN g
                   PROVE  \E t \in Thread, s \in Nat, n \in Nat :
                            Written(t, s, n, x)' /\ g[q] = Mark(s, n)'
        BY DEF Explained
      <4>1. CASE q \in DOMAIN h
        <5>1. PICK t \in Thread, s \in Nat, n \in Nat : Written(t, s, n, x) /\ h[q] = Mark(s, n)
          BY <2>1, <4>1 DEF Explained
        <5>2. Written(t, s, n, x)' /\ g[q] = Mark(s, n)'
          BY <1>5, <2>3, <3>4, <4>1, <5>1
        <5> QED
          BY <5>2
      <4>2. CASE q \notin DOMAIN h
        <5>1. q = Len(h) + 1
          BY <3>4, <4>2
        <5>2. g[q] = Mark(r, m)'
          BY <1>5, <3>1, <3>4, <5>1
        <5> QED
          BY <1>2, <3>5, <5>2
      <4> QED
        BY <4>1, <4>2
    <3>7. Recorded(x)'
      <4> SUFFICES ASSUME NEW t \in Thread, NEW s \in Nat, NEW n \in Nat, Written(t, s, n, x)'
                   PROVE  \E q \in DOMAIN g : g[q] = Mark(s, n)'
        BY DEF Recorded
      <4>1. CASE Written(t, s, n, x)
        <5>1. PICK q \in DOMAIN h : h[q] = Mark(s, n)
          BY <2>1, <4>1 DEF Recorded
        <5> QED
          BY <1>5, <3>4, <5>1
      <4>2. CASE t = u /\ s = r /\ n = m
        <5>1. Len(h) + 1 \in DOMAIN g
          BY <3>4
        <5> QED
          BY <1>5, <3>1, <3>4, <4>2, <5>1
      <4> QED
        BY <1>7, <2>2, <4>1, <4>2
    <3>8. InTurn(x)'
      <4> SUFFICES ASSUME NEW q \in DOMAIN g, NEW l \in DOMAIN g, q < l
                   PROVE  Time(prob, g[q]) < Time(prob, g[l])
        BY <1>1 DEF InTurn
      <4>1. q \in DOMAIN h
        BY <3>4
      <4>2. CASE l \in DOMAIN h
        <5>1. Time(prob, h[q]) < Time(prob, h[l])
          BY <2>1, <4>1, <4>2 DEF InTurn
        <5> QED
          BY <3>4, <4>1, <4>2, <5>1
      <4>3. CASE l \notin DOMAIN h
        <5>1. l = Len(h) + 1 /\ g[l] = Mark(r, m)
          BY <3>1, <3>4, <4>3
        <5>2. PICK t \in Thread, s \in Nat, n \in Nat : Written(t, s, n, x) /\ h[q] = Mark(s, n)
          BY <2>1, <4>1 DEF Explained
        <5>3. Time(prob, Mark(s, n)) < Time(prob, Mark(r, m))
          BY <1>0, <1>2, <3>1, <5>2, WrittenBefore
        <5> QED
          BY <3>4, <4>1, <5>1, <5>2, <5>3
      <4> QED
        BY <4>2, <4>3
    <3> QED
      BY <1>4, <1>5, <2>1, <3>4, <3>6, <3>7, <3>8
  <2>5. CASE x \notin c.writes
    <3>1. hist'[x] = hist[x]
      BY <1>3, <2>1, <2>5
    <3>2. ~Fill(prob, u, r, m, x, "all")
      BY <2>5 DEF Fill, c
    <3>3. \A t \in Thread, s \in Nat, n \in Nat : Written(t, s, n, x)' => Written(t, s, n, x)
      BY <1>7, <2>2, <3>2
    <3>4. Explained(x)'
      BY <1>5, <2>1, <2>3, <3>1 DEF Explained
    <3>5. Recorded(x)'
      BY <1>5, <2>1, <3>1, <3>3 DEF Recorded
    <3>6. InTurn(x)'
      BY <1>1, <2>1, <3>1 DEF InTurn
    <3> QED
      BY <1>4, <1>5, <2>1, <3>1, <3>4, <3>5, <3>6
  <2> QED
    BY <2>4, <2>5
<1> QED
  BY <1>10, <1>11 DEF Told

LEMMA TracedSkips ==
  ASSUME IInv, Place, Told, NEW u \in Thread, SkipCall(u)
  PROVE  Told'
<1> DEFINE r == passed[u]
           m == call[u]
<1>1. /\ call' = [call EXCEPT ![u] = @ + 1] /\ UNCHANGED <<pc, passed, prob, hist>>
      /\ AtCall(u) /\ ~Makes(u)
  BY DEF SkipCall, vars
<1>2. pc[u] = "outside" /\ CallsIn(prob, u, r)[m].by # "all"
  BY <1>1, Stand DEF AtCall, Makes
<1>3. Finished'
  BY <1>1, <1>2 DEF Told, Finished, Place
<1>4. ASSUME NEW t \in Thread, NEW s \in Nat, NEW n \in Nat, NEW x
      PROVE  Written(t, s, n, x)' <=> Written(t, s, n, x)
  <2>1. passed' = passed
    BY <1>1
  <2>2. Past(t, s, n) => Past(t, s, n)'
    BY <1>1, <2>1, StaysBehind
  <2>3. Past(t, s, n)' => Past(t, s, n) \/ (t = u /\ s = r /\ n = m)
    <3> SUFFICES ASSUME Past(t, s, n)' PROVE Past(t, s, n) \/ (t = u /\ s = r /\ n = m)
      OBVIOUS
    <3> QED
      BY <1>1, <2>1, LeftBehind, Zenon
  <2>4. t = u /\ s = r /\ n = m => ~Fill(prob, t, s, n, x, "all")
    BY <1>2 DEF Fill
  <2> QED
    BY <1>1, <2>2, <2>3, <2>4 DEF Written
<1>5. Traced'
  BY <1>1, <1>4, TracedSame DEF Told
<1> QED
  BY <1>3, <1>5 DEF Told

(* BarrierWait: a thread that comes to the next section has made the calls *)
(* of the present one.                                                     *)
LEMMA TracedWaits ==
  ASSUME IInv, Place, Told, NEW u \in Thread, BarrierWait(u)
  PROVE  Told'
<1>1. /\ UNCHANGED <<prob, hist>>
      /\ call' = [call EXCEPT ![u] = IF pc'[u] = "outside" THEN 1 ELSE @]
      /\ pc[u] = "outside" => SectionDone(u)
      /\ Step(u)
  BY DEF BarrierWait
<1>2. /\ prob \in Problem /\ \A t \in Thread : passed[t] \in Nat /\ call[t] \in Nat
      /\ \A t \in Thread : Calls(t) = CallsIn(prob, t, passed[t])
      /\ call \in [Thread -> Nat \ {0}]
  BY Stand DEF Place
<1>3. \A t \in Thread \ {u} : pc'[t] = pc[t] /\ passed'[t] = passed[t] /\ call'[t] = call[t]
  BY <1>1, <1>2 DEF Step, Enter, Sync, Arrive, Reset, Publish, Release, Wait, Goto, Leave, IInv, Types
<1>4. call[u] > Len(CallsIn(prob, u, passed[u]))
  BY <1>1, <1>2 DEF SectionDone, Told, Finished
<1>5. \/ pc'[u] # "outside" /\ passed'[u] = passed[u] /\ call'[u] = call[u]
      \/ pc'[u] = "outside" /\ passed'[u] = passed[u] + 1 /\ call'[u] = 1
  <2>1. \/ pc'[u] # "outside" /\ passed'[u] = passed[u]
        \/ pc'[u] = "outside" /\ passed'[u] = passed[u] + 1
    BY <1>1 DEF Step, Enter, Sync, Arrive, Reset, Publish, Release, Wait, Goto, Leave, IInv, Types
  <2> QED
    BY <1>1, <1>2, <2>1
<1>6. ASSUME NEW t \in Thread, NEW s \in Nat, NEW q \in 1..Len(CallsIn(prob, t, s))
      PROVE  Past(t, s, q)' <=> Past(t, s, q)
  <2>1. CASE t # u
    BY <1>3, <2>1 DEF Past
  <2>2. CASE t = u
    <3>1. CASE s = passed[u]
      <4>1. Past(t, s, q)
        BY <1>2, <1>4, <2>2, <3>1 DEF Past
      <4>2. Past(t, s, q)'
        BY <1>2, <1>4, <1>5, <2>2, <3>1 DEF Past
      <4> QED
        BY <4>1, <4>2
    <3>2. CASE s # passed[u]
      BY <1>2, <1>5, <2>2, <3>2 DEF Past
    <3> QED
      BY <3>1, <3>2
  <2> QED
    BY <2>1, <2>2
<1>7. Finished'
  BY <1>1, <1>3, <1>4, <1>5 DEF Told, Finished
<1>8. Traced'
  <2>1. ASSUME NEW t \in Thread, NEW s \in Nat, NEW n \in Nat, NEW x
        PROVE  Written(t, s, n, x)' <=> Written(t, s, n, x)
    BY <1>1, <1>6 DEF Written, Fill
  <2> QED
    BY <1>1, <2>1, TracedSame DEF Told
<1> QED
  BY <1>7, <1>8 DEF Told

LEMMA TracedNext == IInv /\ Place /\ Told /\ [LabrdNext]_labrdVars => Told'
<1> SUFFICES ASSUME IInv, Place, Told, [LabrdNext]_labrdVars PROVE Told'
  OBVIOUS
<1>1. CASE UNCHANGED <<pc, passed, prob, call, hist>>
  <2>1. Finished'
    BY <1>1 DEF Told, Finished
  <2>2. \A t, s, n, x : Written(t, s, n, x)' <=> Written(t, s, n, x)
    BY <1>1 DEF Written, Past
  <2>3. Traced'
    BY <1>1, <2>2, TracedSame DEF Told
  <2> QED
    BY <2>1, <2>3 DEF Told
<1>2. ASSUME NEW u \in Thread, EnterSingle(u) PROVE UNCHANGED <<pc, passed, prob, call, hist>>
  BY <1>2 DEF EnterSingle, vars
<1>3. UNCHANGED labrdVars => UNCHANGED <<pc, passed, prob, call, hist>>
  BY DEF labrdVars, vars
<1> QED
  BY <1>1, <1>2, <1>3, TracedMakes, TracedSkips, TracedWaits DEF LabrdNext, Work, Returned

(* The moments of the serial calls are in their order.                     *)
LEMMA MomentOrder ==
  ASSUME NEW p \in Problem, NEW v \in Turns(p), NEW w \in Turns(p)
  PROVE  Moment(p, v) < Moment(p, w) <=> Earlier(v, w)
<1>1. /\ v[1] \in Nat /\ w[1] \in Nat /\ PerSerialColumn(p) \in {5, 13}
      /\ v[2] \in 1..PerSerialColumn(p) /\ w[2] \in 1..PerSerialColumn(p)
  BY RecordTime, Sizes
<1>2. CASE PerSerialColumn(p) = 5
  <2>1. Moment(p, v) = 5 * v[1] + v[2] /\ Moment(p, w) = 5 * w[1] + w[2]
    BY <1>2 DEF Moment
  <2> QED
    BY <1>1, <1>2, <2>1 DEF Earlier
<1>3. CASE PerSerialColumn(p) = 13
  <2>1. Moment(p, v) = 13 * v[1] + v[2] /\ Moment(p, w) = 13 * w[1] + w[2]
    BY <1>3 DEF Moment
  <2> QED
    BY <1>1, <1>3, <2>1 DEF Earlier
<1> QED
  BY <1>1, <1>2, <1>3

(* In the end every call has been left behind.                             *)
LEMMA AllBehind ==
  ASSUME IInv, Place, \A t \in Thread : Through(t), NEW t \in Thread, NEW s \in Nat,
         s <= Barriers(prob), NEW n \in 1..Len(CallsIn(prob, t, s))
  PROVE  Past(t, s, n)
<1>1. /\ passed[t] \in Nat /\ call[t] \in Nat /\ passed[t] = Barriers(prob)
      /\ call[t] > Len(CallsIn(prob, t, passed[t]))
  BY Stand DEF Through, SectionDone
<1> QED
  BY <1>1 DEF Past

LEMMA SerialInTheEnd ==
  ASSUME IInv, Place, Told, \A t \in Thread : Through(t),
         NEW x \in Element(prob), ~IsCell(x)
  PROVE  /\ {hist[x][q] : q \in DOMAIN hist[x]} = {Record(prob, w) : w \in SerialWriters(prob, x)}
         /\ \A v \in SerialWriters(prob, x), w \in SerialWriters(prob, x) :
              \A q \in DOMAIN hist[x], r \in DOMAIN hist[x] :
                hist[x][q] = Record(prob, v) /\ hist[x][r] = Record(prob, w) =>
                  (q < r <=> Earlier(v, w))
<1>1. /\ prob \in Problem /\ hist[x] \in Seq(Marks)
      /\ Explained(x) /\ Recorded(x) /\ InTurn(x)
  BY DEF Place, Told, Traced
<1>2. \A w : w \in SerialWriters(prob, x) <=> w \in Turns(prob) /\ x \in SerialCall(prob, w)[2]
  BY DEF SerialWriters, Turns
<1>3. ASSUME NEW w \in SerialWriters(prob, x)
      PROVE  \E q \in DOMAIN hist[x] : hist[x][q] = Record(prob, w)
  <2>1. PICK s, n : PlaceOf(prob, s, n) /\ Turn(prob, s, n) = w
    BY <1>1, <1>2, TurnTaken
  <2>2. PICK t \in Thread : Fill(prob, t, s, n, x, "all")
    BY <1>1, <1>2, <2>1, TurnServes
  <2>3. s \in Nat /\ s <= Barriers(prob) /\ n \in 1..Len(CallsIn(prob, t, s)) /\ n \in Nat
    BY <2>1, <2>2 DEF PlaceOf, Fill
  <2>4. Written(t, s, n, x)
    BY <2>2, <2>3, AllBehind DEF Written
  <2> QED
    BY <1>1, <2>1, <2>3, <2>4 DEF Recorded, Mark
<1>4. ASSUME NEW q \in DOMAIN hist[x]
      PROVE  \E w \in SerialWriters(prob, x) : hist[x][q] = Record(prob, w)
  <2>1. PICK t \in Thread, s \in Nat, n \in Nat : Written(t, s, n, x) /\ hist[x][q] = Mark(s, n)
    BY <1>1 DEF Explained
  <2>2. Fill(prob, t, s, n, x, "all")
    BY <2>1 DEF Written
  <2>3. PlaceOf(prob, s, n)
    BY <1>1, <2>2, WrittenTurn
  <2>4. Turn(prob, s, n) \in Turns(prob) /\ x \in SerialCall(prob, Turn(prob, s, n))[2]
    BY <1>1, <2>2, <2>3, TurnIs, TurnServes
  <2> QED
    BY <1>2, <2>1, <2>4 DEF Mark
<1>5. ASSUME NEW v \in SerialWriters(prob, x), NEW w \in SerialWriters(prob, x),
             NEW q \in DOMAIN hist[x], NEW r \in DOMAIN hist[x],
             hist[x][q] = Record(prob, v), hist[x][r] = Record(prob, w)
      PROVE  q < r <=> Earlier(v, w)
  <2>1. v \in Turns(prob) /\ w \in Turns(prob) /\ q \in Nat /\ r \in Nat
    BY <1>1, <1>2
  <2> DEFINE a == Moment(prob, v)
             b == Moment(prob, w)
  <2>2. a \in Nat /\ b \in Nat /\ Time(prob, hist[x][q]) = a /\ Time(prob, hist[x][r]) = b
    BY <1>1, <1>5, <2>1, RecordTime
  <2>3. (q < r => a < b) /\ (r < q => b < a)
    BY <1>1, <2>2 DEF InTurn
  <2>4. q = r => a = b
    BY <2>2
  <2>5. a < b <=> Earlier(v, w)
    BY <1>1, <2>1, MomentOrder
  <2> HIDE DEF a, b
  <2>6. q < r <=> a < b
    BY <2>1, <2>2, <2>3, <2>4
  <2> QED
    BY <2>5, <2>6
<1>6. {hist[x][q] : q \in DOMAIN hist[x]} = {Record(prob, w) : w \in SerialWriters(prob, x)}
  BY <1>3, <1>4
<1> QED
  BY <1>5, <1>6

(* In the end every element of the matrix, of X, of Y and of the scalars   *)
(* tauq and taup has been written by exactly the calls that write it when  *)
(* one thread does the reduction, each once and in the same order, for     *)
(* every size of the matrix and of the team.                               *)
THEOREM SerialResultHolds == LabrdSpec => []SerialResult
<1>1. Begin => Told
  BY TracedInit
<1>2. IInv /\ Place /\ Told => SerialResult
  <2> SUFFICES ASSUME IInv, Place, Told, \A t \in Thread : Through(t),
                      NEW x \in Element(prob) \ Buffer(Cells(prob))
               PROVE  /\ {hist[x][q] : q \in DOMAIN hist[x]} = {Record(prob, w) : w \in SerialWriters(prob, x)}
                      /\ \A v \in SerialWriters(prob, x), w \in SerialWriters(prob, x) :
                           \A q \in DOMAIN hist[x], r \in DOMAIN hist[x] :
                             hist[x][q] = Record(prob, v) /\ hist[x][r] = Record(prob, w) =>
                               (q < r <=> Earlier(v, w))
    BY DEF SerialResult
  <2>1. ~IsCell(x)
    BY WhichCells DEF Element, IsCell
  <2> QED
    BY <2>1, SerialInTheEnd
<1> QED
  BY <1>1, <1>2, TracedNext, PlaceHolds, PTL DEF LabrdSpec

=============================================================================
