---------------------------- MODULE dpotrf_var2 ----------------------------
(***************************************************************************)
(* The tile Cholesky factorisation without locks or queues                 *)
(* (src/map/lapack2flamec/f2c/c/dpotrf_var2.c, built with                  *)
(* FLA_OPENMP_MULTITHREADING): every thread scans the tiles of the active  *)
(* triangle, claims one that is ready by setting the BUSY bit of its step  *)
(* counter, runs one operation on it and publishes the next step.          *)
(*                                                                         *)
(* Tile <<i, j>>, i <= j, is tile j of panel i: block (j, i) of the lower  *)
(* or (i, j) of the upper triangle, which the code folds onto one layout.  *)
(* Its operation s < i is the update from panel s (SYRK or GEMM), its      *)
(* operation s = i finalises it (POTRF or TRSM).  Every atomic access is a *)
(* step; an operation takes effect in the step that ends it, and until     *)
(* then its thread stands at "execute".                                    *)
(***************************************************************************)
EXTENDS Integers, Sequences, FiniteSets

CONSTANTS
  NT,        \* tiles per dimension
  NThreads,  \* threads of the parallel region
  BUSY       \* the bit that marks a claimed tile, larger than every step

ASSUME TilesAssumption ==
  /\ NT \in Nat \ {0} /\ NThreads \in Nat \ {0}
  /\ BUSY \in Nat /\ NT + 1 < BUSY

Panel  == 0..(NT - 1)
Thread == 0..(NThreads - 1)
Tile   == {x \in Panel \X Panel : x[1] <= x[2]}
Op     == {o \in Tile \X Panel : o[2] <= o[1][1]}
Total  == (NT * (NT + 1)) \div 2

VARIABLES
  step,      \* the step counter of each tile
  coldone,   \* how many tiles of each panel are finalised
  done,      \* how many tiles are finalised
  err,       \* 1 + the panel whose POTRF failed first, or 0
  info,      \* what the caller gets, once the region has ended
  ended,     \* the parallel region has ended
  bad,       \* the panels whose diagonal tile is not positive definite
  content,   \* the operations applied to the data of each tile
  pc,        \* each thread's place ...
  tile,      \* ... the tile it looks at,
  phase,     \* the scan it looks at it for,
  n,         \* its position in that scan,
  seen,      \* the step it has loaded,
  k,         \* the producer it checks,
  column     \* and its completed_column

shared == <<step, coldone, done, err>>
caller == <<info, ended>>
locals == <<pc, tile, phase, n, seen, k, column>>
vars   == <<shared, caller, bad, content, locals>>

-----------------------------------------------------------------------------
(* The counter values that tell that a tile is claimed and finalised.      *)
Claimed(x) == step[x] >= BUSY
Final(x)   == step[x] = x[1] + 1
Reached(x) == IF Claimed(x) THEN step[x] - BUSY ELSE step[x]

\* Mutant: a GEMM waits for one of its two producers.
InputsOneOfGemm(x, s) ==
  IF s < x[1] THEN <<<<s, x[1]>>>>
  ELSE IF x[1] = x[2] THEN <<>> ELSE <<<<x[1], x[1]>>>>

(* The tiles that operation s on tile x reads, in the order in which their *)
(* counters are checked: SYRK one, GEMM two, POTRF none, TRSM the diagonal.*)
Inputs(x, s) ==
  IF s < x[1]
  THEN IF x[1] = x[2] THEN <<<<s, x[1]>>>> ELSE <<<<s, x[1]>>, <<s, x[2]>>>>
  ELSE IF x[1] = x[2] THEN <<>> ELSE <<<<x[1], x[1]>>>>

(* The data of a finalised tile: its updates in the order of the panels,   *)
(* then its finalisation, each with final inputs.                          *)
WRONG == -1
Upto(s) == [q \in 1..s |-> q - 1]
Intact(x) == content[x] = Upto(x[1] + 1)

Outcome(x, s) ==
  IF /\ \A q \in DOMAIN Inputs(x, s) : Intact(Inputs(x, s)[q])
     /\ ~(x = <<s, s>> /\ s \in bad)
  THEN s ELSE WRONG

-----------------------------------------------------------------------------
(* The scan of the tiles.  A place is a program label with the scan, the   *)
(* tile and the position it belongs to.                                    *)
Place(label, scan, i, j, m) == [pc |-> label, phase |-> scan, tile |-> <<i, j>>, n |-> m]

Restart == Place("err", "diag", 0, 0, 0)

Rotation(t) == t % NT

(* Phase 2: the rows from column c on, from the thread's rotation; in row  *)
(* i the tiles j = i, ..., NT-1.                                           *)
NextRow(t, c, m) ==
  IF m < NT - c
  THEN LET i == c + ((m + Rotation(t)) % (NT - c)) IN Place("row", "row", i, i, m)
  ELSE Restart
NextInRow(t, c, i, j, m) ==
  IF j < NT THEN Place("row", "row", i, j, m) ELSE NextRow(t, c, m + 1)

(* Phase 1: the diagonals from column c on, and behind each one that is    *)
(* factored the tiles of its panel.                                        *)
NextDiagonal(t, c, i) ==
  IF i < NT THEN Place("load", "diag", i, i, 0) ELSE NextRow(t, c, 0)

\* Mutant: the scan of a panel misses its last tile.
NextInPanelShort(t, c, i, m) ==
  LET tiles == NT - (i + 1)
  IN  IF m + 1 < tiles
      THEN Place("panel", "panel", i, i + 1 + ((m + Rotation(t)) % tiles), m)
      ELSE NextDiagonal(t, c, i + 1)

NextInPanel(t, c, i, m) ==
  LET tiles == NT - (i + 1)
  IN  IF m < tiles
      THEN Place("panel", "panel", i, i + 1 + ((m + Rotation(t)) % tiles), m)
      ELSE NextDiagonal(t, c, i + 1)

(* Where a thread goes on when dpotrf_try has returned 0.                  *)
AfterFailedTry(t) ==
  LET i == tile[t][1]
  IN  CASE phase[t] = "diag"  -> Place("diag", "diag", i, i, 0)
        [] phase[t] = "panel" -> NextInPanel(t, column[t], i, n[t] + 1)
        [] phase[t] = "row"   -> NextInRow(t, column[t], i, tile[t][2] + 1, n[t])

Goto(t, label) ==
  /\ pc' = [pc EXCEPT ![t] = label]
  /\ UNCHANGED <<tile, phase, n>>

Move(t, p) ==
  /\ pc' = [pc EXCEPT ![t] = p.pc]
  /\ tile' = [tile EXCEPT ![t] = p.tile]
  /\ phase' = [phase EXCEPT ![t] = p.phase]
  /\ n' = [n EXCEPT ![t] = p.n]

Rescan(t, p) == Move(t, p) /\ seen' = [seen EXCEPT ![t] = 0] /\ k' = [k EXCEPT ![t] = 0]

-----------------------------------------------------------------------------
Init ==
  /\ step = [x \in Tile |-> 0] /\ coldone = [i \in Panel |-> 0]
  /\ done = 0 /\ err = 0 /\ info = 0 /\ ended = FALSE
  /\ bad \in SUBSET Panel
  /\ content = [x \in Tile |-> <<>>]
  /\ pc = [t \in Thread |-> "err"] /\ tile = [t \in Thread |-> <<0, 0>>]
  /\ phase = [t \in Thread |-> "diag"] /\ n = [t \in Thread |-> 0]
  /\ seen = [t \in Thread |-> 0] /\ k = [t \in Thread |-> 0]
  /\ column = [t \in Thread |-> 0]

-----------------------------------------------------------------------------
(* dpotrf_worker.                                                          *)

(* Stop on failure ...                                                     *)
CheckError(t) ==
  /\ pc[t] = "err"
  /\ Goto(t, IF err # 0 THEN "exit" ELSE "total")
  /\ UNCHANGED <<shared, caller, bad, content, seen, k, column>>

(* ... or when all tiles are done.                                         *)
CheckTotal(t) ==
  /\ pc[t] = "total"
  /\ Goto(t, IF done >= Total THEN "exit" ELSE "skip")
  /\ UNCHANGED <<shared, caller, bad, content, seen, k, column>>

(* Skip the panels that are finalised, then scan from the first other one. *)
SkipPanels(t) ==
  /\ pc[t] = "skip"
  /\ IF column[t] < NT /\ coldone[column[t]] = NT - column[t]
     THEN /\ column' = [column EXCEPT ![t] = @ + 1]
          /\ UNCHANGED <<pc, tile, phase, n>>
     ELSE /\ Move(t, NextDiagonal(t, column[t], column[t]))
          /\ UNCHANGED column
  /\ UNCHANGED <<shared, caller, bad, content, seen, k>>

(* The diagonal tile could not be advanced: when it is factored look at    *)
(* the tiles of its panel, else turn to the trailing updates.              *)
LookAtDiagonal(t) ==
  /\ pc[t] = "diag"
  /\ Move(t, IF Final(tile[t]) THEN NextInPanel(t, column[t], tile[t][1], 0)
                               ELSE NextRow(t, column[t], 0))
  /\ UNCHANGED <<shared, caller, bad, content, seen, k, column>>

(* A tile of the panel is tried when all that is left is its TRSM.         *)
LookAtPanel(t) ==
  /\ pc[t] = "panel"
  /\ IF step[tile[t]] = tile[t][1]
     THEN Goto(t, "load")
     ELSE Move(t, NextInPanel(t, column[t], tile[t][1], n[t] + 1))
  /\ UNCHANGED <<shared, caller, bad, content, seen, k, column>>

(* A tile of a row is tried when it still lacks an update; a claimed one   *)
(* counts as far advanced.                                                 *)
LookAtRow(t) ==
  /\ pc[t] = "row"
  /\ LET i == tile[t][1]
     IN  IF step[tile[t]] >= i
         THEN Move(t, NextInRow(t, column[t], i, tile[t][2] + 1, n[t]))
         ELSE Goto(t, "load")
  /\ UNCHANGED <<shared, caller, bad, content, seen, k, column>>

-----------------------------------------------------------------------------
(* dpotrf_try.                                                             *)

LoadStep(t) ==
  /\ pc[t] = "load"
  /\ LET x == tile[t]
     IN  IF Claimed(x) \/ Final(x)
         THEN Rescan(t, AfterFailedTry(t))
         ELSE /\ seen' = [seen EXCEPT ![t] = step[x]]
              /\ k' = [k EXCEPT ![t] = 1]
              /\ Goto(t, IF Inputs(x, step[x]) = <<>> THEN "claim" ELSE "ready")
  /\ UNCHANGED <<shared, caller, bad, content, column>>

(* dpotrf_producer_done for one producer after the other.                  *)
CheckReady(t) ==
  /\ pc[t] = "ready"
  /\ LET inputs == Inputs(tile[t], seen[t])
     IN  IF ~Final(inputs[k[t]])
         THEN Rescan(t, AfterFailedTry(t))
         ELSE IF k[t] = Len(inputs)
              THEN Goto(t, "claim") /\ UNCHANGED <<seen, k>>
              ELSE k' = [k EXCEPT ![t] = @ + 1] /\ UNCHANGED <<pc, tile, phase, n, seen>>
  /\ UNCHANGED <<shared, caller, bad, content, column>>

\* Mutant: the BUSY bit is set without comparing the step.
ClaimUnclaimed(t) ==
  /\ pc[t] = "claim"
  /\ IF ~Claimed(tile[t])
     THEN /\ step' = [step EXCEPT ![tile[t]] = @ + BUSY]
          /\ Goto(t, "execute") /\ UNCHANGED <<seen, k>>
     ELSE Rescan(t, AfterFailedTry(t)) /\ UNCHANGED step
  /\ UNCHANGED <<coldone, done, err, caller, bad, content, column>>

(* The compare-and-swap from the step loaded to the claimed one.           *)
Claim(t) ==
  /\ pc[t] = "claim"
  /\ IF step[tile[t]] = seen[t]
     THEN /\ step' = [step EXCEPT ![tile[t]] = seen[t] + BUSY]
          /\ Goto(t, "execute") /\ UNCHANGED <<seen, k>>
     ELSE Rescan(t, AfterFailedTry(t)) /\ UNCHANGED step
  /\ UNCHANGED <<coldone, done, err, caller, bad, content, column>>

(* dpotrf_execute up to the end of the BLAS or LAPACK call.                *)
Execute(t) ==
  /\ pc[t] = "execute"
  /\ LET x == tile[t]
     IN  /\ content' = [content EXCEPT ![x] = Append(@, Outcome(x, seen[t]))]
         /\ Goto(t, IF x = <<seen[t], seen[t]>> /\ seen[t] \in bad THEN "error" ELSE "publish")
  /\ UNCHANGED <<shared, caller, bad, seen, k, column>>

(* Not positive definite: record the first error position.                 *)
RecordError(t) ==
  /\ pc[t] = "error"
  /\ err' = IF err = 0 THEN tile[t][1] + 1 ELSE err
  /\ Goto(t, "publish")
  /\ UNCHANGED <<step, coldone, done, caller, bad, content, seen, k, column>>

\* Mutant: a tile that could not be factored is published before its error.
PublishUnrecorded(t) ==
  /\ pc[t] \in {"publish", "error"}
  /\ step' = [step EXCEPT ![tile[t]] = seen[t] + 1]
  /\ IF pc[t] = "error" THEN UNCHANGED <<pc, tile, phase, n, seen, k>>
     ELSE IF seen[t] = tile[t][1] THEN Goto(t, "count") /\ UNCHANGED <<seen, k>>
     ELSE Rescan(t, Restart)
  /\ UNCHANGED <<coldone, done, err, caller, bad, content, column>>

(* Publish the next step, which also clears the BUSY bit.                  *)
Publish(t) ==
  /\ pc[t] = "publish"
  /\ step' = [step EXCEPT ![tile[t]] = seen[t] + 1]
  /\ IF seen[t] = tile[t][1]
     THEN Goto(t, "count") /\ UNCHANGED <<seen, k>>
     ELSE Rescan(t, Restart)
  /\ UNCHANGED <<coldone, done, err, caller, bad, content, column>>

CountTile(t) ==
  /\ pc[t] = "count"
  /\ done' = done + 1
  /\ Goto(t, "column")
  /\ UNCHANGED <<step, coldone, err, caller, bad, content, seen, k, column>>

CountColumn(t) ==
  /\ pc[t] = "column"
  /\ coldone' = [coldone EXCEPT ![tile[t][1]] = @ + 1]
  /\ Rescan(t, Restart)
  /\ UNCHANGED <<step, done, err, caller, bad, content, column>>

-----------------------------------------------------------------------------
(* dpotrf_var2 after the region: the barrier at its end waits for all.     *)
EndRegion ==
  /\ ~ended /\ \A t \in Thread : pc[t] = "exit"
  /\ ended' = TRUE /\ info' = err
  /\ UNCHANGED <<shared, bad, content, locals>>

Returned == ended /\ UNCHANGED vars

Work(t) ==
  \/ CheckError(t) \/ CheckTotal(t) \/ SkipPanels(t)
  \/ LookAtDiagonal(t) \/ LookAtPanel(t) \/ LookAtRow(t)
  \/ LoadStep(t) \/ CheckReady(t) \/ Claim(t) \/ Execute(t) \/ RecordError(t)
  \/ Publish(t) \/ CountTile(t) \/ CountColumn(t)

Next == (\E t \in Thread : Work(t)) \/ EndRegion \/ Returned

Spec == Init /\ [][Next]_vars

(* The threads of the region are scheduled by the operating system.        *)
FairSpec == Spec /\ WF_vars(EndRegion) /\ \A t \in Thread : WF_vars(Work(t))

-----------------------------------------------------------------------------
Label == {"err", "total", "skip", "diag", "panel", "row", "load", "ready", "claim",
          "execute", "error", "publish", "count", "column", "exit"}

(* Counters and places are of the expected kind: a step is within its      *)
(* tile's life cycle, claimed or not.                                      *)
TypeOK ==
  /\ step \in [Tile -> 0..(BUSY + NT)]
  /\ \A x \in Tile : step[x] \in (0..(x[1] + 1)) \cup (BUSY..(BUSY + x[1]))
  /\ coldone \in [Panel -> Nat] /\ done \in Nat
  /\ err \in 0..NT /\ info \in 0..NT /\ ended \in BOOLEAN /\ bad \in SUBSET Panel
  /\ content \in [Tile -> Seq(Panel \cup {WRONG})]
  /\ pc \in [Thread -> Label] /\ tile \in [Thread -> Tile]
  /\ phase \in [Thread -> {"diag", "panel", "row"}] /\ n \in [Thread -> Nat]
  /\ seen \in [Thread -> Panel] /\ k \in [Thread -> 0..2]
  /\ column \in [Thread -> 0..NT]

(* What the thread's call in dpotrf_execute reads and writes.              *)
Executing(t) == pc[t] = "execute"
Written(t) == {tile[t]}
Read(t) == LET inputs == Inputs(tile[t], seen[t]) IN {inputs[q] : q \in DOMAIN inputs}

(* No two threads work on a tile at a time, and no tile is written while   *)
(* another thread reads it.                                                *)
NoTileRace ==
  \A t, u \in Thread :
    t # u /\ Executing(t) /\ Executing(u) =>
      Written(t) \cap (Written(u) \cup Read(u)) = {}

(* When the factorisation succeeds every tile holds what the sequential    *)
(* algorithm computes: all updates once, in the order of the panels, from  *)
(* finalised tiles, then its finalisation.                                 *)
Factored == ended /\ info = 0 => bad = {} /\ \A x \in Tile : Intact(x)

(* The failure recorded is that of the first panel that is not positive    *)
(* definite, and the panels' leading part in front of it is factored.      *)
FirstFailure ==
  /\ err # 0 => /\ err - 1 \in bad /\ \A i \in bad : err - 1 <= i
                /\ \A x \in Tile : x[2] < err - 1 => Intact(x)
  /\ ended => info = err

(* Every call of the tile Cholesky returns: no thread waits for ever for a *)
(* tile, whether a POTRF fails or not.                                     *)
Returns == <>ended

(* The dependences of the sequential algorithm.  Operation o comes before  *)
(* p when its panel does, or in a panel POTRF, TRSMs, updates; p depends   *)
(* on o when one writes what the other reads or writes.                    *)
Target(o) == o[1]
Sources(o) == LET x == o[1] s == o[2]
              IN  IF s < x[1] THEN {<<s, x[1]>>, <<s, x[2]>>} ELSE {<<s, s>>} \ {x}
Rank(o) == IF o[2] < o[1][1] THEN 2 ELSE IF o[1][1] = o[1][2] THEN 0 ELSE 1
Before(o, p) == o[2] < p[2] \/ (o[2] = p[2] /\ Rank(o) < Rank(p))
Conflict(o, p) ==
  \/ Target(o) = Target(p) \/ Target(o) \in Sources(p) \/ Target(p) \in Sources(o)
Dependences == [p \in Op |-> {o \in Op : Before(o, p) /\ Conflict(o, p)}]

(* The threads execute the operations as a scheduler of tasks may: each    *)
(* once, after all that it depends on in the sequential algorithm, and     *)
(* without an error no thread leaves before all have run.                  *)
Promise == INSTANCE TaskDAG WITH
  Task  <- Op,
  tasks <- Op,
  pred  <- Dependences,
  state <- [o \in Op |->
              IF o[2] < Reached(o[1]) THEN "done"
              ELSE IF step[o[1]] = BUSY + o[2] THEN "running" ELSE "waiting"],
  ended <- err = 0 /\ \E t \in Thread : pc[t] = "exit"

ObservesDependences == Promise!Spec

=============================================================================
