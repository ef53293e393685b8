------------------------- MODULE dpotrf_var2_proofs -------------------------
(***************************************************************************)
(* Theorems about dpotrf_var2, for every number of tiles and threads:      *)
(* its state is typed, the claim of a tile by compare-and-swap keeps any   *)
(* two threads from touching the same data, and the error that is recorded *)
(* first is that of the first panel that is not positive definite.         *)
(***************************************************************************)
EXTENDS dpotrf_var2, FiniteSetTheorems, WellFoundedInduction, TLAPS

(* A thread at one of these labels has claimed its tile.                   *)
Owns(t) == pc[t] \in {"execute", "error", "publish"}

(* A thread at one of these labels has loaded a step that its tile may     *)
(* undergo.                                                                *)
Chosen(t) == Owns(t) \/ pc[t] \in {"ready", "claim"}

(* What a thread knows of the tile and the step that it has chosen.        *)
ChosenInv ==
  \A t \in Thread :
    /\ Chosen(t) => seen[t] <= tile[t][1]
    /\ pc[t] = "ready" => k[t] \in 1..Len(Inputs(tile[t], seen[t]))

(* A claimed tile has one owner.                                           *)
OwnerInv ==
  \A t \in Thread : Owns(t) =>
    /\ step[tile[t]] = seen[t] + BUSY
    /\ \A u \in Thread \ {t} : Owns(u) => tile[u] # tile[t]

(* The producers that a thread has checked remain finalised.               *)
ReadyInv ==
  \A t \in Thread :
    /\ pc[t] = "ready" => \A q \in 1..(k[t] - 1) : Final(Inputs(tile[t], seen[t])[q])
    /\ Owns(t) \/ pc[t] = "claim" =>
         \A q \in DOMAIN Inputs(tile[t], seen[t]) : Final(Inputs(tile[t], seen[t])[q])

(* Every operation that is published has had finalised inputs.             *)
HistoryInv ==
  \A x \in Tile : \A s \in Panel : s < Reached(x) =>
    \A q \in DOMAIN Inputs(x, s) : Final(Inputs(x, s)[q])

(* The data of a tile has undergone the operations that are published, and *)
(* one more when its owner has executed it but not published it yet; in    *)
(* front of the first panel that is not positive definite they are right.  *)
LengthInv ==
  /\ \A x \in Tile : ~Claimed(x) => Len(content[x]) = step[x]
  /\ \A t \in Thread :
       /\ pc[t] = "execute" => Len(content[tile[t]]) = seen[t]
       /\ pc[t] \in {"error", "publish"} => Len(content[tile[t]]) = seen[t] + 1

ContentInv ==
  \A x \in Tile : \A q \in 1..Len(content[x]) :
    (\A b \in bad : q <= b) => content[x][q] = q - 1

(* A failed POTRF is recorded before its tile is published.                *)
ErrorInv ==
  /\ \A i \in bad : Final(<<i, i>>) => err # 0
  /\ \A t \in Thread :
       /\ pc[t] = "error" => tile[t] = <<seen[t], seen[t]>> /\ seen[t] \in bad
       /\ pc[t] = "publish" /\ tile[t] = <<seen[t], seen[t]>> /\ seen[t] \in bad => err # 0
  /\ ended => info = err /\ \A t \in Thread : pc[t] = "exit"

(* The error recorded is that of the first bad panel, and what lies in     *)
(* front of it is factored, and final.                                     *)
FirstInv ==
  err # 0 => /\ err - 1 \in bad /\ \A i \in bad : err - 1 <= i
             /\ \A x \in Tile : x[2] < err - 1 => Final(x) /\ Intact(x)

-----------------------------------------------------------------------------
(* Types.                                                                  *)

LEMMA Modulo == \A a \in Int : \A b \in Nat \ {0} : a % b \in 0..(b - 1)
BY SMT

LEMMA TileOf == \A i \in Nat : \A j \in Nat : i <= j /\ j < NT => <<i, j>> \in Tile
BY TilesAssumption DEF Tile, Panel

LEMMA TileHas == \A x \in Tile : /\ x = <<x[1], x[2]>> /\ x[1] \in Panel /\ x[2] \in Panel
                                 /\ x[1] \in Nat /\ x[2] \in Nat /\ x[1] <= x[2] /\ x[2] < NT
BY TilesAssumption DEF Tile, Panel

LEMMA InputsType ==
  ASSUME NEW x \in Tile, NEW s \in Nat, s <= x[1]
  PROVE  Inputs(x, s) \in Seq(Tile) /\ Len(Inputs(x, s)) \in 0..2
<1>1. CASE s < x[1] /\ x[1] = x[2]
  <2>1. <<s, x[1]>> \in Tile BY <1>1, TileOf, TileHas
  <2>2. QED BY <1>1, <2>1 DEF Inputs
<1>2. CASE s < x[1] /\ x[1] # x[2]
  <2>1. x[1] \in Nat /\ x[2] \in Nat /\ s <= x[1] /\ s <= x[2] /\ x[1] < NT /\ x[2] < NT
    BY <1>2, TileHas, TilesAssumption
  <2>2. <<s, x[1]>> \in Tile BY <2>1, TileOf
  <2>3. <<s, x[2]>> \in Tile BY <2>1, TileOf
  <2>4. Inputs(x, s) = <<<<s, x[1]>>, <<s, x[2]>>>> BY <1>2 DEF Inputs
  <2>5. QED BY <2>2, <2>3, <2>4
<1>3. CASE ~(s < x[1]) /\ x[1] = x[2] BY <1>3 DEF Inputs
<1>4. CASE ~(s < x[1]) /\ x[1] # x[2]
  <2>1. x[1] \in Nat /\ x[1] <= x[1] /\ x[1] < NT BY TileHas, TilesAssumption
  <2>2. <<x[1], x[1]>> \in Tile BY <2>1, TileOf
  <2>3. QED BY <1>4, <2>2 DEF Inputs
<1>5. QED BY <1>1, <1>2, <1>3, <1>4

(* A place of the scan is a tile.                                          *)
PlaceOK(p) ==
  /\ p.pc \in {"err", "diag", "panel", "row", "load"}
  /\ p.tile \in Tile /\ p.phase \in {"diag", "panel", "row"} /\ p.n \in Nat

LEMMA PlaceIsOK ==
  ASSUME NEW label \in {"err", "diag", "panel", "row", "load"},
         NEW scan \in {"diag", "panel", "row"}, NEW m \in Nat,
         NEW i \in Nat, NEW j \in Nat, i <= j, j < NT
  PROVE  PlaceOK(Place(label, scan, i, j, m))
BY TileOf DEF PlaceOK, Place

LEMMA RestartIsOK == PlaceOK(Restart)
BY PlaceIsOK, TilesAssumption DEF Restart

LEMMA RotationIsNat == \A t \in Thread : Rotation(t) \in Nat
BY TilesAssumption, Modulo DEF Rotation, Thread

LEMMA NextRowIsOK ==
  ASSUME NEW t \in Thread, NEW c \in 0..NT, NEW m \in Nat
  PROVE  PlaceOK(NextRow(t, c, m))
<1>1. CASE m < NT - c
  <2> DEFINE i == c + ((m + Rotation(t)) % (NT - c))
  <2>1. NT - c \in Nat \ {0} /\ m + Rotation(t) \in Int
    BY <1>1, TilesAssumption, RotationIsNat
  <2>2. (m + Rotation(t)) % (NT - c) \in 0..(NT - c - 1) BY <2>1, Modulo
  <2>3. i \in Nat /\ i < NT BY <2>2, TilesAssumption
  <2>4. PlaceOK(Place("row", "row", i, i, m)) BY <2>3, PlaceIsOK
  <2>5. QED BY <1>1, <2>4 DEF NextRow
<1>2. CASE ~(m < NT - c) BY <1>2, RestartIsOK DEF NextRow
<1>3. QED BY <1>1, <1>2

LEMMA NextInRowIsOK ==
  ASSUME NEW t \in Thread, NEW c \in 0..NT, NEW i \in Nat, NEW j \in Nat, i <= j, NEW m \in Nat
  PROVE  PlaceOK(NextInRow(t, c, i, j, m))
<1>1. CASE j < NT BY <1>1, PlaceIsOK DEF NextInRow
<1>2. CASE ~(j < NT) BY <1>2, NextRowIsOK DEF NextInRow
<1>3. QED BY <1>1, <1>2

LEMMA NextDiagonalIsOK ==
  ASSUME NEW t \in Thread, NEW c \in 0..NT, NEW i \in Nat
  PROVE  PlaceOK(NextDiagonal(t, c, i))
<1>1. CASE i < NT BY <1>1, PlaceIsOK DEF NextDiagonal
<1>2. CASE ~(i < NT) BY <1>2, NextRowIsOK DEF NextDiagonal
<1>3. QED BY <1>1, <1>2

LEMMA NextInPanelIsOK ==
  ASSUME NEW t \in Thread, NEW c \in 0..NT, NEW i \in Nat, NEW m \in Nat
  PROVE  PlaceOK(NextInPanel(t, c, i, m))
<1> DEFINE tiles == NT - (i + 1)
           j == i + 1 + ((m + Rotation(t)) % tiles)
<1>1. CASE m < tiles
  <2>1. tiles \in Nat \ {0} /\ m + Rotation(t) \in Int BY <1>1, TilesAssumption, RotationIsNat
  <2>2. (m + Rotation(t)) % tiles \in 0..(tiles - 1) BY <2>1, Modulo
  <2>3. j \in Nat /\ i <= j /\ j < NT BY <2>2, TilesAssumption
  <2>4. PlaceOK(Place("panel", "panel", i, j, m)) BY <2>3, PlaceIsOK
  <2>5. QED BY <1>1, <2>4 DEF NextInPanel
<1>2. CASE ~(m < tiles) BY <1>2, NextDiagonalIsOK DEF NextInPanel
<1>3. QED BY <1>1, <1>2

LEMMA AfterFailedTryIsOK ==
  ASSUME TypeOK, NEW t \in Thread
  PROVE  PlaceOK(AfterFailedTry(t))
<1> DEFINE i == tile[t][1]
<1>1. /\ tile[t] \in Tile /\ column[t] \in 0..NT /\ n[t] \in Nat
      /\ phase[t] \in {"diag", "panel", "row"}
  BY DEF TypeOK
<1> HIDE DEF i
<1>2. i \in Nat /\ tile[t][2] + 1 \in Nat /\ i <= tile[t][2] + 1 /\ i < NT /\ n[t] + 1 \in Nat
  <2>1. i \in Nat /\ tile[t][2] \in Nat /\ i <= tile[t][2] /\ tile[t][2] < NT BY <1>1, TileHas DEF i
  <2>2. QED BY <1>1, <2>1, TilesAssumption
<1> USE DEF i
<1>3. CASE phase[t] = "diag"
  <2>1. PlaceOK(Place("diag", "diag", i, i, 0)) BY <1>2, PlaceIsOK
  <2>2. QED BY <1>3, <2>1 DEF AfterFailedTry
<1>4. CASE phase[t] = "panel"
  <2>1. PlaceOK(NextInPanel(t, column[t], i, n[t] + 1)) BY <1>1, <1>2, NextInPanelIsOK
  <2>2. QED BY <1>4, <2>1 DEF AfterFailedTry
<1>5. CASE phase[t] = "row"
  <2>1. PlaceOK(NextInRow(t, column[t], i, tile[t][2] + 1, n[t])) BY <1>1, <1>2, NextInRowIsOK
  <2>2. QED BY <1>5, <2>1 DEF AfterFailedTry
<1>6. QED BY <1>1, <1>3, <1>4, <1>5

-----------------------------------------------------------------------------
(* Types and the choice of a thread are inductive.                         *)

SharedType ==
  /\ step \in [Tile -> 0..(BUSY + NT)]
  /\ \A x \in Tile : step[x] \in (0..(x[1] + 1)) \cup (BUSY..(BUSY + x[1]))
  /\ coldone \in [Panel -> Nat] /\ done \in Nat
  /\ err \in 0..NT /\ info \in 0..NT /\ ended \in BOOLEAN /\ bad \in SUBSET Panel
  /\ content \in [Tile -> Seq(Panel \cup {WRONG})]

LocalsType ==
  /\ pc \in [Thread -> Label] /\ tile \in [Thread -> Tile]
  /\ phase \in [Thread -> {"diag", "panel", "row"}] /\ n \in [Thread -> Nat]
  /\ seen \in [Thread -> Panel] /\ k \in [Thread -> 0..2]
  /\ column \in [Thread -> 0..NT]

LEMMA TypeParts == TypeOK <=> SharedType /\ LocalsType
BY DEF TypeOK, SharedType, LocalsType

(* The thread gives up its tile, or has none.                              *)
Leaves(t) == pc'[t] \notin {"ready", "claim", "execute", "error", "publish"}

LEMMA MoveType ==
  ASSUME LocalsType, NEW t \in Thread, NEW p, PlaceOK(p), Move(t, p)
  PROVE  /\ pc' \in [Thread -> Label] /\ tile' \in [Thread -> Tile]
         /\ phase' \in [Thread -> {"diag", "panel", "row"}] /\ n' \in [Thread -> Nat]
         /\ Leaves(t)
<1>1. pc' \in [Thread -> Label] /\ Leaves(t)
  BY DEF LocalsType, Move, PlaceOK, Label, Leaves
<1>2. tile' \in [Thread -> Tile] BY DEF LocalsType, Move, PlaceOK
<1>3. phase' \in [Thread -> {"diag", "panel", "row"}] BY DEF LocalsType, Move, PlaceOK
<1>4. n' \in [Thread -> Nat] BY DEF LocalsType, Move, PlaceOK
<1>5. QED BY <1>1, <1>2, <1>3, <1>4

LEMMA GotoType ==
  ASSUME LocalsType, NEW t \in Thread, NEW label \in Label, Goto(t, label)
  PROVE  /\ pc' \in [Thread -> Label] /\ tile' \in [Thread -> Tile]
         /\ phase' \in [Thread -> {"diag", "panel", "row"}] /\ n' \in [Thread -> Nat]
         /\ pc'[t] = label
BY DEF LocalsType, Goto

LEMMA RescanType ==
  ASSUME LocalsType, NEW t \in Thread, NEW p, PlaceOK(p), Rescan(t, p), UNCHANGED column
  PROVE  LocalsType' /\ Leaves(t)
<1>1. Move(t, p) BY DEF Rescan
<1>2. 0 \in Panel BY TilesAssumption DEF Panel
<1>3. seen' \in [Thread -> Panel] /\ k' \in [Thread -> 0..2] BY <1>2 DEF Rescan, LocalsType
<1>4. QED BY <1>1, <1>3, MoveType DEF LocalsType

(* The steps of a thread on its way to a tile, and when it is done with    *)
(* one: nothing that others depend on changes.                             *)
Scans(t) == LocalsType' /\ Leaves(t) /\ UNCHANGED <<step, err, caller, bad, content>>

LEMMA CheckErrorScans == ASSUME TypeOK, NEW t \in Thread, CheckError(t) PROVE Scans(t)
<1>1. LocalsType BY TypeParts
<1>2. PICK label \in {"exit", "total"} : Goto(t, label) BY DEF CheckError
<1>3. label \in Label BY DEF Label
<1>4. /\ pc' \in [Thread -> Label] /\ tile' \in [Thread -> Tile]
      /\ phase' \in [Thread -> {"diag", "panel", "row"}] /\ n' \in [Thread -> Nat]
      /\ pc'[t] = label
  BY <1>1, <1>2, <1>3, GotoType
<1>5. QED BY <1>1, <1>4 DEF Scans, Leaves, LocalsType, CheckError, shared

LEMMA CheckTotalScans == ASSUME TypeOK, NEW t \in Thread, CheckTotal(t) PROVE Scans(t)
<1>1. LocalsType BY TypeParts
<1>2. PICK label \in {"exit", "skip"} : Goto(t, label) BY DEF CheckTotal
<1>3. label \in Label BY DEF Label
<1>4. /\ pc' \in [Thread -> Label] /\ tile' \in [Thread -> Tile]
      /\ phase' \in [Thread -> {"diag", "panel", "row"}] /\ n' \in [Thread -> Nat]
      /\ pc'[t] = label
  BY <1>1, <1>2, <1>3, GotoType
<1>5. QED BY <1>1, <1>4 DEF Scans, Leaves, LocalsType, CheckTotal, shared

LEMMA SkipPanelsScans == ASSUME TypeOK, NEW t \in Thread, SkipPanels(t) PROVE Scans(t)
<1>1. LocalsType /\ column[t] \in 0..NT /\ column[t] \in Nat
  BY TypeParts, TilesAssumption DEF LocalsType
<1>2. CASE column[t] < NT /\ coldone[column[t]] = NT - column[t]
  <2>1. column' = [column EXCEPT ![t] = @ + 1] /\ UNCHANGED <<pc, tile, phase, n, seen, k>>
    BY <1>2 DEF SkipPanels
  <2>2. column[t] + 1 \in 0..NT BY <1>1, <1>2, TilesAssumption
  <2>3. column' \in [Thread -> 0..NT] BY <1>1, <2>1, <2>2 DEF LocalsType
  <2>4. pc[t] = "skip" BY DEF SkipPanels
  <2>5. QED BY <1>1, <2>1, <2>3, <2>4 DEF Scans, Leaves, LocalsType, SkipPanels, shared
<1>3. CASE ~(column[t] < NT /\ coldone[column[t]] = NT - column[t])
  <2>1. Move(t, NextDiagonal(t, column[t], column[t])) /\ UNCHANGED column
    BY <1>3 DEF SkipPanels
  <2>2. PlaceOK(NextDiagonal(t, column[t], column[t])) BY <1>1, NextDiagonalIsOK
  <2>3. QED BY <1>1, <2>1, <2>2, MoveType DEF Scans, LocalsType, SkipPanels, shared
<1>4. QED BY <1>2, <1>3

LEMMA ScanFacts ==
  ASSUME LocalsType, NEW t \in Thread
  PROVE  /\ tile[t] \in Tile /\ column[t] \in 0..NT /\ n[t] \in Nat /\ n[t] + 1 \in Nat
         /\ tile[t][1] \in Nat /\ tile[t][2] + 1 \in Nat /\ tile[t][1] <= tile[t][2] + 1
<1>1. tile[t] \in Tile /\ column[t] \in 0..NT /\ n[t] \in Nat BY DEF LocalsType
<1>2. tile[t][1] \in Nat /\ tile[t][2] \in Nat /\ tile[t][1] <= tile[t][2] BY <1>1, TileHas
<1>3. tile[t][2] + 1 \in Nat /\ tile[t][1] <= tile[t][2] + 1 BY <1>2
<1>4. QED BY <1>1, <1>2, <1>3

LEMMA LookAtDiagonalScans == ASSUME TypeOK, NEW t \in Thread, LookAtDiagonal(t) PROVE Scans(t)
<1>1. LocalsType BY TypeParts
<1>2. PlaceOK(NextInPanel(t, column[t], tile[t][1], 0)) /\ PlaceOK(NextRow(t, column[t], 0))
  BY <1>1, ScanFacts, NextInPanelIsOK, NextRowIsOK
<1>3. Move(t, NextInPanel(t, column[t], tile[t][1], 0)) \/ Move(t, NextRow(t, column[t], 0))
  BY DEF LookAtDiagonal
<1>4. QED BY <1>1, <1>2, <1>3, MoveType DEF Scans, LocalsType, LookAtDiagonal, shared

LEMMA LookAtPanelScans == ASSUME TypeOK, NEW t \in Thread, LookAtPanel(t) PROVE Scans(t)
<1>1. LocalsType BY TypeParts
<1>2. CASE Goto(t, "load")
  <2>1. /\ pc' \in [Thread -> Label] /\ tile' \in [Thread -> Tile]
        /\ phase' \in [Thread -> {"diag", "panel", "row"}] /\ n' \in [Thread -> Nat]
        /\ pc'[t] = "load"
    BY <1>1, <1>2, GotoType DEF Label
  <2>2. QED BY <1>1, <2>1 DEF Scans, Leaves, LocalsType, LookAtPanel, shared
<1>3. CASE Move(t, NextInPanel(t, column[t], tile[t][1], n[t] + 1))
  <2>1. PlaceOK(NextInPanel(t, column[t], tile[t][1], n[t] + 1))
    BY <1>1, ScanFacts, NextInPanelIsOK
  <2>2. QED BY <1>1, <1>3, <2>1, MoveType DEF Scans, LocalsType, LookAtPanel, shared
<1>4. QED BY <1>2, <1>3 DEF LookAtPanel

LEMMA LookAtRowScans == ASSUME TypeOK, NEW t \in Thread, LookAtRow(t) PROVE Scans(t)
<1>1. LocalsType BY TypeParts
<1>2. CASE Goto(t, "load")
  <2>1. /\ pc' \in [Thread -> Label] /\ tile' \in [Thread -> Tile]
        /\ phase' \in [Thread -> {"diag", "panel", "row"}] /\ n' \in [Thread -> Nat]
        /\ pc'[t] = "load"
    BY <1>1, <1>2, GotoType DEF Label
  <2>2. QED BY <1>1, <2>1 DEF Scans, Leaves, LocalsType, LookAtRow, shared
<1>3. CASE Move(t, NextInRow(t, column[t], tile[t][1], tile[t][2] + 1, n[t]))
  <2>1. PlaceOK(NextInRow(t, column[t], tile[t][1], tile[t][2] + 1, n[t]))
    BY <1>1, ScanFacts, NextInRowIsOK
  <2>2. QED BY <1>1, <1>3, <2>1, MoveType DEF Scans, LocalsType, LookAtRow, shared
<1>4. QED BY <1>2, <1>3 DEF LookAtRow

(* A tile that is loaded and neither claimed nor final has operations left.*)
LEMMA LoadedStep ==
  ASSUME SharedType, NEW x \in Tile, ~Claimed(x), ~Final(x)
  PROVE  step[x] \in Panel /\ step[x] \in Nat /\ step[x] <= x[1]
<1>1. x[1] \in Nat /\ x[1] < NT BY TileHas, TilesAssumption
<1>2. step[x] \in (0..(x[1] + 1)) \cup (BUSY..(BUSY + x[1])) BY DEF SharedType
<1>3. ~(step[x] >= BUSY) /\ step[x] # x[1] + 1 BY DEF Claimed, Final
<1>4. QED BY <1>1, <1>2, <1>3, TilesAssumption DEF Panel

LEMMA FailedTryScans ==
  ASSUME TypeOK, NEW t \in Thread, Rescan(t, AfterFailedTry(t)), UNCHANGED column,
         UNCHANGED <<step, err, caller, bad, content>>
  PROVE  Scans(t)
<1>1. LocalsType BY TypeParts
<1>2. PlaceOK(AfterFailedTry(t)) BY AfterFailedTryIsOK
<1>3. QED BY <1>1, <1>2, RescanType DEF Scans

(* The steps that are left, told by what they do to the thread's tile.     *)
Loads(t) ==
  /\ LocalsType' /\ UNCHANGED <<step, err, caller, bad, content>>
  /\ tile'[t] = tile[t] /\ seen'[t] = step[tile[t]] /\ seen'[t] <= tile[t][1] /\ k'[t] = 1
  /\ pc'[t] = IF Inputs(tile[t], step[tile[t]]) = <<>> THEN "claim" ELSE "ready"

LEMMA LoadStepDoes ==
  ASSUME TypeOK, NEW t \in Thread, LoadStep(t)
  PROVE  Scans(t) \/ Loads(t)
<1> DEFINE x == tile[t]
<1>1. SharedType /\ LocalsType /\ x \in Tile BY TypeParts DEF LocalsType
<1>2. UNCHANGED <<step, err, caller, bad, content>> /\ UNCHANGED column BY DEF LoadStep, shared
<1>3. CASE Claimed(x) \/ Final(x)
  <2>1. Rescan(t, AfterFailedTry(t)) BY <1>3 DEF LoadStep
  <2>2. QED BY <1>2, <2>1, FailedTryScans
<1>4. CASE ~(Claimed(x) \/ Final(x))
  <2>1. /\ seen' = [seen EXCEPT ![t] = step[x]] /\ k' = [k EXCEPT ![t] = 1]
        /\ Goto(t, IF Inputs(x, step[x]) = <<>> THEN "claim" ELSE "ready")
    BY <1>4 DEF LoadStep
  <2>2. step[x] \in Panel /\ step[x] <= x[1] BY <1>1, <1>4, LoadedStep
  <2>3. /\ pc' \in [Thread -> Label] /\ tile' \in [Thread -> Tile]
        /\ phase' \in [Thread -> {"diag", "panel", "row"}] /\ n' \in [Thread -> Nat]
        /\ pc'[t] = IF Inputs(x, step[x]) = <<>> THEN "claim" ELSE "ready"
    BY <1>1, <2>1, GotoType DEF Label
  <2>4. seen' \in [Thread -> Panel] /\ k' \in [Thread -> 0..2] BY <1>1, <2>1, <2>2 DEF LocalsType
  <2>5. tile'[t] = x /\ seen'[t] = step[x] /\ k'[t] = 1 BY <1>1, <2>1 DEF LocalsType, Goto
  <2>6. QED BY <1>1, <1>2, <2>2, <2>3, <2>4, <2>5 DEF Loads, LocalsType
<1>5. QED BY <1>3, <1>4

Checks(t) ==
  /\ LocalsType' /\ UNCHANGED <<step, err, caller, bad, content>>
  /\ pc[t] = "ready" /\ tile'[t] = tile[t] /\ seen'[t] = seen[t]
  /\ Final(Inputs(tile[t], seen[t])[k[t]])
  /\ \/ k[t] = Len(Inputs(tile[t], seen[t])) /\ pc'[t] = "claim"
     \/ k[t] # Len(Inputs(tile[t], seen[t])) /\ pc'[t] = "ready" /\ k'[t] = k[t] + 1

LEMMA CheckReadyDoes ==
  ASSUME TypeOK, ChosenInv, NEW t \in Thread, CheckReady(t)
  PROVE  Scans(t) \/ Checks(t)
<1> DEFINE inputs == Inputs(tile[t], seen[t])
<1>1. LocalsType /\ tile[t] \in Tile /\ seen[t] \in Nat
  BY TypeParts, TilesAssumption DEF LocalsType, Panel
<1>2. UNCHANGED <<step, err, caller, bad, content>> /\ UNCHANGED column BY DEF CheckReady, shared
<1>3. pc[t] = "ready" BY DEF CheckReady
<1>4. seen[t] <= tile[t][1] /\ k[t] \in 1..Len(inputs) BY <1>3 DEF ChosenInv, Chosen
<1>5. CASE ~Final(inputs[k[t]])
  <2>1. Rescan(t, AfterFailedTry(t)) BY <1>5 DEF CheckReady
  <2>2. QED BY <1>2, <2>1, FailedTryScans
<1>6. CASE Final(inputs[k[t]]) /\ k[t] = Len(inputs)
  <2>1. Goto(t, "claim") /\ UNCHANGED <<seen, k>> BY <1>6 DEF CheckReady
  <2>2. LocalsType' /\ pc'[t] = "claim" /\ tile'[t] = tile[t] /\ seen'[t] = seen[t]
    BY <1>1, <1>2, <2>1 DEF LocalsType, Label, Goto
  <2>3. QED BY <1>2, <1>3, <1>6, <2>2 DEF Checks
<1>7. CASE Final(inputs[k[t]]) /\ k[t] # Len(inputs)
  <2>1. k' = [k EXCEPT ![t] = @ + 1] /\ UNCHANGED <<pc, tile, phase, n, seen>>
    BY <1>7 DEF CheckReady
  <2>2. k[t] + 1 \in 0..2 /\ k[t] \in Nat
    <3> DEFINE len == Len(inputs)
    <3>1. len \in 0..2 BY <1>1, <1>4, InputsType
    <3>2. k[t] \in 1..len /\ k[t] # len BY <1>4, <1>7
    <3> HIDE DEF len
    <3>3. QED BY <3>1, <3>2
  <2>3. k' \in [Thread -> 0..2] /\ k'[t] = k[t] + 1 BY <1>1, <2>1, <2>2 DEF LocalsType
  <2>4. QED BY <1>1, <1>2, <1>3, <1>7, <2>1, <2>3 DEF Checks, LocalsType
<1>8. QED BY <1>5, <1>6, <1>7

Claims(t) ==
  /\ LocalsType' /\ UNCHANGED <<err, caller, bad, content>>
  /\ pc[t] = "claim" /\ pc'[t] = "execute" /\ tile'[t] = tile[t] /\ seen'[t] = seen[t]
  /\ step[tile[t]] = seen[t] /\ step' = [step EXCEPT ![tile[t]] = seen[t] + BUSY]

LEMMA ClaimDoes ==
  ASSUME TypeOK, NEW t \in Thread, Claim(t)
  PROVE  Scans(t) \/ Claims(t)
<1>1. LocalsType BY TypeParts
<1>2. UNCHANGED <<err, caller, bad, content>> /\ UNCHANGED column /\ pc[t] = "claim" BY DEF Claim
<1>3. CASE step[tile[t]] = seen[t]
  <2>1. /\ step' = [step EXCEPT ![tile[t]] = seen[t] + BUSY]
        /\ Goto(t, "execute") /\ UNCHANGED <<seen, k>>
    BY <1>3 DEF Claim
  <2>2. LocalsType' /\ pc'[t] = "execute" /\ tile'[t] = tile[t] /\ seen'[t] = seen[t]
    BY <1>1, <1>2, <2>1 DEF LocalsType, Label, Goto
  <2>3. QED BY <1>2, <1>3, <2>1, <2>2 DEF Claims
<1>4. CASE step[tile[t]] # seen[t]
  <2>1. Rescan(t, AfterFailedTry(t)) /\ UNCHANGED step BY <1>4 DEF Claim
  <2>2. QED BY <1>2, <2>1, FailedTryScans DEF caller
<1>5. QED BY <1>3, <1>4

Executes(t) ==
  /\ LocalsType' /\ UNCHANGED <<step, err, caller, bad>>
  /\ pc[t] = "execute" /\ tile'[t] = tile[t] /\ seen'[t] = seen[t]
  /\ content' = [content EXCEPT ![tile[t]] = Append(@, Outcome(tile[t], seen[t]))]
  /\ pc'[t] = IF tile[t] = <<seen[t], seen[t]>> /\ seen[t] \in bad THEN "error" ELSE "publish"

LEMMA ExecuteDoes == ASSUME TypeOK, NEW t \in Thread, Execute(t) PROVE Executes(t)
<1>1. LocalsType BY TypeParts
<1> DEFINE label == IF tile[t] = <<seen[t], seen[t]>> /\ seen[t] \in bad THEN "error" ELSE "publish"
<1>2. Goto(t, label) /\ UNCHANGED <<seen, k, column>> /\ pc[t] = "execute" BY DEF Execute
<1>3. LocalsType' /\ pc'[t] = label /\ tile'[t] = tile[t] /\ seen'[t] = seen[t]
  <2>1. label \in Label BY DEF Label
  <2> HIDE DEF label
  <2>2. QED BY <1>1, <1>2, <2>1 DEF LocalsType, Goto
<1>4. QED BY <1>2, <1>3 DEF Executes, Execute, shared

Records(t) ==
  /\ LocalsType' /\ UNCHANGED <<step, caller, bad, content>>
  /\ pc[t] = "error" /\ pc'[t] = "publish" /\ tile'[t] = tile[t] /\ seen'[t] = seen[t]
  /\ err' = IF err = 0 THEN tile[t][1] + 1 ELSE err

LEMMA RecordErrorDoes == ASSUME TypeOK, NEW t \in Thread, RecordError(t) PROVE Records(t)
<1>1. LocalsType BY TypeParts
<1>2. Goto(t, "publish") /\ UNCHANGED <<seen, k, column>> /\ pc[t] = "error" BY DEF RecordError
<1>3. LocalsType' /\ pc'[t] = "publish" /\ tile'[t] = tile[t] /\ seen'[t] = seen[t]
  BY <1>1, <1>2 DEF LocalsType, Goto, Label
<1>4. QED BY <1>2, <1>3 DEF Records, RecordError

Publishes(t) ==
  /\ LocalsType' /\ UNCHANGED <<err, caller, bad, content>>
  /\ pc[t] = "publish" /\ Leaves(t) /\ step' = [step EXCEPT ![tile[t]] = seen[t] + 1]

LEMMA PublishDoes == ASSUME TypeOK, NEW t \in Thread, Publish(t) PROVE Publishes(t)
<1>1. LocalsType BY TypeParts
<1>2. CASE Goto(t, "count") /\ UNCHANGED <<seen, k>>
  <2>1. LocalsType' /\ pc'[t] = "count"
    BY <1>1, <1>2 DEF LocalsType, Goto, Label, Publish
  <2>2. QED BY <2>1 DEF Publishes, Publish, Leaves
<1>3. CASE Rescan(t, Restart)
  <2>1. LocalsType' /\ Leaves(t) BY <1>1, <1>3, RestartIsOK, RescanType DEF Publish
  <2>2. QED BY <2>1 DEF Publishes, Publish
<1>4. QED BY <1>2, <1>3 DEF Publish

LEMMA CountTileScans == ASSUME TypeOK, NEW t \in Thread, CountTile(t) PROVE Scans(t)
<1>1. LocalsType BY TypeParts
<1>2. LocalsType' /\ pc'[t] = "column" BY <1>1 DEF CountTile, LocalsType, Goto, Label
<1>3. QED BY <1>2 DEF Scans, Leaves, CountTile

LEMMA CountColumnScans == ASSUME TypeOK, NEW t \in Thread, CountColumn(t) PROVE Scans(t)
<1>1. LocalsType BY TypeParts
<1>2. LocalsType' /\ Leaves(t) BY <1>1, RestartIsOK, RescanType DEF CountColumn
<1>3. QED BY <1>2 DEF Scans, CountColumn

LEMMA WorkDoes ==
  ASSUME TypeOK, ChosenInv, NEW t \in Thread, Work(t)
  PROVE  Scans(t) \/ Loads(t) \/ Checks(t) \/ Claims(t) \/ Executes(t) \/ Records(t) \/ Publishes(t)
BY CheckErrorScans, CheckTotalScans, SkipPanelsScans, LookAtDiagonalScans, LookAtPanelScans,
   LookAtRowScans, LoadStepDoes, CheckReadyDoes, ClaimDoes, ExecuteDoes, RecordErrorDoes,
   PublishDoes, CountTileScans, CountColumnScans DEF Work

LEMMA OthersStay ==
  ASSUME TypeOK, NEW t \in Thread, Work(t), NEW u \in Thread, u # t
  PROVE  /\ pc'[u] = pc[u] /\ tile'[u] = tile[u] /\ seen'[u] = seen[u] /\ k'[u] = k[u]
<1>1. LocalsType BY TypeParts
<1> USE DEF LocalsType, Goto, Move, Rescan
<1>2. CASE CheckError(t) \/ CheckTotal(t) BY <1>1, <1>2 DEF CheckError, CheckTotal
<1>3. CASE SkipPanels(t)
  <2>1. CASE UNCHANGED <<pc, tile, phase, n>> BY <2>1, <1>1, <1>3 DEF SkipPanels
  <2>2. CASE Move(t, NextDiagonal(t, column[t], column[t]))
    BY <2>2, <1>1, <1>3 DEF SkipPanels
  <2>3. QED BY <2>1, <2>2, <1>3 DEF SkipPanels
<1>4. CASE LookAtDiagonal(t) BY <1>1, <1>4 DEF LookAtDiagonal
<1>5. CASE LookAtPanel(t) BY <1>1, <1>5 DEF LookAtPanel
<1>6. CASE LookAtRow(t) BY <1>1, <1>6 DEF LookAtRow
<1>7. CASE LoadStep(t) BY <1>1, <1>7 DEF LoadStep
<1>8. CASE CheckReady(t) BY <1>1, <1>8 DEF CheckReady
<1>9. CASE Claim(t) BY <1>1, <1>9 DEF Claim
<1>10. CASE Execute(t) BY <1>1, <1>10 DEF Execute
<1>11. CASE RecordError(t) BY <1>1, <1>11 DEF RecordError
<1>12. CASE Publish(t) BY <1>1, <1>12 DEF Publish
<1>13. CASE CountTile(t) BY <1>1, <1>13 DEF CountTile
<1>14. CASE CountColumn(t) BY <1>1, <1>14 DEF CountColumn
<1>15. QED BY <1>2, <1>3, <1>4, <1>5, <1>6, <1>7, <1>8, <1>9, <1>10, <1>11, <1>12, <1>13, <1>14
  DEF Work

(* The counters.                                                           *)
LEMMA CountersTyped ==
  ASSUME TypeOK, NEW t \in Thread, Work(t)
  PROVE  coldone' \in [Panel -> Nat] /\ done' \in Nat
<1>1. coldone \in [Panel -> Nat] /\ done \in Nat /\ tile[t] \in Tile BY DEF TypeOK
<1>2. CASE CountTile(t) BY <1>1, <1>2 DEF CountTile
<1>3. CASE CountColumn(t)
  <2>1. tile[t][1] \in Panel BY <1>1, TileHas
  <2>2. coldone[tile[t][1]] + 1 \in Nat BY <1>1, <2>1
  <2>3. QED BY <1>1, <1>3, <2>2 DEF CountColumn
<1>4. CASE UNCHANGED <<coldone, done>> BY <1>1, <1>4
<1>5. QED BY <1>2, <1>3, <1>4 DEF Work, CheckError, CheckTotal, SkipPanels, LookAtDiagonal,
  LookAtPanel, LookAtRow, LoadStep, CheckReady, Claim, Execute, RecordError, Publish, shared

LEMMA StepTyped ==
  ASSUME SharedType, NEW x \in Tile, NEW s, s \in (0..(x[1] + 1)) \cup (BUSY..(BUSY + x[1])),
         step' = [step EXCEPT ![x] = s]
  PROVE  /\ step' \in [Tile -> 0..(BUSY + NT)]
         /\ \A y \in Tile : step'[y] \in (0..(y[1] + 1)) \cup (BUSY..(BUSY + y[1]))
<1>1. x[1] \in Nat /\ x[1] < NT BY TileHas, TilesAssumption
<1>2. s \in 0..(BUSY + NT) BY <1>1, TilesAssumption
<1>3. step \in [Tile -> 0..(BUSY + NT)] BY DEF SharedType
<1>4. step' \in [Tile -> 0..(BUSY + NT)] BY <1>2, <1>3
<1>5. ASSUME NEW y \in Tile
      PROVE  step'[y] \in (0..(y[1] + 1)) \cup (BUSY..(BUSY + y[1]))
  <2>1. CASE y = x
    <3>1. step'[y] = s BY <1>3, <2>1
    <3>2. QED BY <3>1, <2>1
  <2>2. CASE y # x
    <3>1. step'[y] = step[y] BY <1>3, <2>2
    <3>2. QED BY <3>1 DEF SharedType
  <2>3. QED BY <2>1, <2>2
<1>6. QED BY <1>4, <1>5

LEMMA SharedStep ==
  ASSUME TypeOK, ChosenInv, NEW t \in Thread, Work(t)
  PROVE  SharedType'
<1> DEFINE x == tile[t]
<1>1. /\ SharedType /\ LocalsType /\ x \in Tile /\ seen[t] \in Panel /\ seen[t] \in Nat
      /\ x[1] \in Panel /\ x[1] \in Nat /\ x[1] < NT
  BY TypeParts, TileHas, TilesAssumption DEF LocalsType, Panel
<1>2. coldone' \in [Panel -> Nat] /\ done' \in Nat BY CountersTyped
<1>3. CASE Scans(t) \/ Loads(t) \/ Checks(t)
  <2>1. UNCHANGED <<step, err, info, ended, bad, content>> BY <1>3 DEF Scans, Loads, Checks, caller
  <2>2. QED BY <1>1, <1>2, <2>1 DEF SharedType
<1>4. CASE Claims(t)
  <2>1. UNCHANGED <<err, info, ended, bad, content>> /\ step' = [step EXCEPT ![x] = seen[t] + BUSY]
        /\ pc[t] = "claim"
    BY <1>4 DEF Claims, caller
  <2>2. seen[t] <= x[1] BY <2>1 DEF ChosenInv, Chosen
  <2>3. seen[t] + BUSY \in BUSY..(BUSY + x[1]) BY <1>1, <2>2, TilesAssumption
  <2> HIDE DEF x
  <2>4. /\ step' \in [Tile -> 0..(BUSY + NT)]
        /\ \A y \in Tile : step'[y] \in (0..(y[1] + 1)) \cup (BUSY..(BUSY + y[1]))
    BY <1>1, <2>1, <2>3, StepTyped
  <2>5. QED BY <1>1, <1>2, <2>1, <2>4 DEF SharedType
<1>5. CASE Executes(t)
  <2>1. /\ UNCHANGED <<step, err, info, ended, bad>>
        /\ content' = [content EXCEPT ![x] = Append(@, Outcome(x, seen[t]))]
    BY <1>5 DEF Executes, caller
  <2>2. Outcome(x, seen[t]) \in Panel \cup {WRONG} BY <1>1 DEF Outcome
  <2>3. content[x] \in Seq(Panel \cup {WRONG}) BY <1>1 DEF SharedType
  <2> HIDE DEF x
  <2>4. Append(content[x], Outcome(x, seen[t])) \in Seq(Panel \cup {WRONG}) BY <2>2, <2>3
  <2>5. content' \in [Tile -> Seq(Panel \cup {WRONG})] BY <1>1, <2>1, <2>4 DEF SharedType
  <2>6. QED BY <1>1, <1>2, <2>1, <2>5 DEF SharedType
<1>6. CASE Records(t)
  <2>1. UNCHANGED <<step, info, ended, bad, content>> /\ (err' = err \/ err' = x[1] + 1)
    BY <1>6 DEF Records, caller
  <2>2. x[1] + 1 \in 0..NT BY <1>1, TilesAssumption
  <2>3. err' \in 0..NT BY <1>1, <2>1, <2>2 DEF SharedType
  <2>4. QED BY <1>1, <1>2, <2>1, <2>3 DEF SharedType
<1>7. CASE Publishes(t)
  <2>1. UNCHANGED <<err, info, ended, bad, content>> /\ step' = [step EXCEPT ![x] = seen[t] + 1]
        /\ pc[t] = "publish"
    BY <1>7 DEF Publishes, caller
  <2>2. seen[t] <= x[1] BY <2>1 DEF ChosenInv, Chosen, Owns
  <2>3. seen[t] + 1 \in 0..(x[1] + 1) BY <1>1, <2>2, TilesAssumption
  <2> HIDE DEF x
  <2>4. /\ step' \in [Tile -> 0..(BUSY + NT)]
        /\ \A y \in Tile : step'[y] \in (0..(y[1] + 1)) \cup (BUSY..(BUSY + y[1]))
    BY <1>1, <2>1, <2>3, StepTyped
  <2>5. QED BY <1>1, <1>2, <2>1, <2>4 DEF SharedType
<1>8. QED BY <1>3, <1>4, <1>5, <1>6, <1>7, WorkDoes

LEMMA TypeStep ==
  ASSUME TypeOK, ChosenInv, NEW t \in Thread, Work(t)
  PROVE  TypeOK'
<1>1. LocalsType'
  BY WorkDoes DEF Scans, Loads, Checks, Claims, Executes, Records, Publishes
<1>2. SharedType' BY SharedStep
<1>3. QED BY <1>1, <1>2 DEF TypeOK, SharedType, LocalsType

LEMMA InputsNotEmpty ==
  ASSUME NEW x, NEW s, Inputs(x, s) # <<>>
  PROVE  1 \in 1..Len(Inputs(x, s))
BY DEF Inputs

LEMMA ChosenStep ==
  ASSUME TypeOK, ChosenInv, NEW t \in Thread, Work(t)
  PROVE  ChosenInv'
<1> SUFFICES ASSUME NEW u \in Thread
             PROVE  /\ Chosen(u)' => seen'[u] <= tile'[u][1]
                    /\ pc'[u] = "ready" => k'[u] \in 1..Len(Inputs(tile'[u], seen'[u]))
  BY DEF ChosenInv
<1>1. CASE u # t
  <2>1. pc'[u] = pc[u] /\ tile'[u] = tile[u] /\ seen'[u] = seen[u] /\ k'[u] = k[u]
    BY <1>1, OthersStay
  <2>2. /\ Chosen(u) => seen[u] <= tile[u][1]
        /\ pc[u] = "ready" => k[u] \in 1..Len(Inputs(tile[u], seen[u]))
    BY DEF ChosenInv
  <2>3. QED BY <2>1, <2>2 DEF Chosen, Owns
<1>2. CASE u = t
  <2>1. CASE Scans(t) \/ Publishes(t)
    BY <1>2, <2>1 DEF Scans, Publishes, Leaves, Chosen, Owns
  <2>2. CASE Loads(t)
    <3> DEFINE inputs == Inputs(tile[t], step[tile[t]])
    <3>1. /\ tile'[t] = tile[t] /\ seen'[t] = step[tile[t]] /\ seen'[t] <= tile[t][1]
          /\ k'[t] = 1 /\ pc'[t] = IF inputs = <<>> THEN "claim" ELSE "ready"
      BY <2>2 DEF Loads
    <3>2. pc'[t] = "ready" => 1 \in 1..Len(inputs) BY <3>1, InputsNotEmpty
    <3>3. QED BY <1>2, <3>1, <3>2
  <2>3. CASE Checks(t)
    <3> DEFINE inputs == Inputs(tile[t], seen[t])
               len == Len(inputs)
    <3>1. /\ pc[t] = "ready" /\ tile'[t] = tile[t] /\ seen'[t] = seen[t]
          /\ \/ k[t] = len /\ pc'[t] = "claim"
             \/ k[t] # len /\ pc'[t] = "ready" /\ k'[t] = k[t] + 1
      BY <2>3 DEF Checks
    <3>2. seen[t] <= tile[t][1] /\ k[t] \in 1..len BY <3>1 DEF ChosenInv, Chosen
    <3>3. tile[t] \in Tile /\ seen[t] \in Nat BY TilesAssumption DEF TypeOK, Panel
    <3>4. len \in 0..2 BY <3>2, <3>3, InputsType
    <3>5. pc'[t] = "ready" => k'[t] \in 1..len
      <4> HIDE DEF len
      <4>1. QED BY <3>1, <3>2, <3>4
    <3>6. QED BY <1>2, <3>1, <3>2, <3>5
  <2>4. CASE Claims(t) \/ Executes(t) \/ Records(t)
    <3>1. /\ pc[t] \in {"claim", "execute", "error"} /\ pc'[t] # "ready"
          /\ tile'[t] = tile[t] /\ seen'[t] = seen[t]
      BY <2>4 DEF Claims, Executes, Records
    <3>2. seen[t] <= tile[t][1] BY <3>1 DEF ChosenInv, Chosen, Owns
    <3>3. QED BY <1>2, <3>1, <3>2
  <2>5. QED BY <2>1, <2>2, <2>3, <2>4, WorkDoes
<1>3. QED BY <1>1, <1>2

-----------------------------------------------------------------------------
(* A final tile stays final.                                               *)
LEMMA FinalStays ==
  ASSUME TypeOK, ChosenInv, OwnerInv, NEW t \in Thread, Work(t), NEW x \in Tile, Final(x)
  PROVE  Final(x)'
<1>1. /\ step \in [Tile -> 0..(BUSY + NT)] /\ step[x] = x[1] + 1 /\ x[1] \in Nat /\ x[1] < NT
      /\ seen[t] \in Nat /\ tile[t] \in Tile
  <2>1. x[1] \in Nat /\ x[1] < NT BY TileHas, TilesAssumption
  <2>2. seen[t] \in Nat /\ tile[t] \in Tile BY TilesAssumption DEF TypeOK, Panel
  <2>3. step \in [Tile -> 0..(BUSY + NT)] /\ step[x] = x[1] + 1 BY DEF TypeOK, Final
  <2>4. QED BY <2>1, <2>2, <2>3
<1>2. CASE UNCHANGED step BY <1>1, <1>2 DEF Final
<1>3. CASE Claims(t)
  <2>1. pc[t] = "claim" /\ step[tile[t]] = seen[t]
        /\ step' = [step EXCEPT ![tile[t]] = seen[t] + BUSY]
    BY <1>3 DEF Claims
  <2>2. seen[t] <= tile[t][1] BY <2>1 DEF ChosenInv, Chosen
  <2>3. tile[t] # x BY <1>1, <2>1, <2>2
  <2>4. step'[x] = step[x] BY <1>1, <2>1, <2>3
  <2>5. QED BY <1>1, <2>4 DEF Final
<1>4. CASE Publishes(t)
  <2>1. pc[t] = "publish" /\ step' = [step EXCEPT ![tile[t]] = seen[t] + 1]
    BY <1>4 DEF Publishes
  <2>2. step[tile[t]] = seen[t] + BUSY BY <2>1 DEF OwnerInv, Owns
  <2>3. tile[t] # x BY <1>1, <2>2, TilesAssumption
  <2>4. step'[x] = step[x] BY <1>1, <2>1, <2>3
  <2>5. QED BY <1>1, <2>4 DEF Final
<1>5. QED BY <1>2, <1>3, <1>4, WorkDoes DEF Scans, Loads, Checks, Executes, Records

(* A claim succeeds on a tile without owner only, and its owner alone      *)
(* writes the counter.                                                     *)
LEMMA OwnerStep ==
  ASSUME TypeOK, ChosenInv, OwnerInv, NEW t \in Thread, Work(t)
  PROVE  OwnerInv'
<1>1. /\ step \in [Tile -> 0..(BUSY + NT)] /\ seen[t] \in Nat
      /\ \A u \in Thread : tile[u] \in Tile
  BY TilesAssumption DEF TypeOK, Panel
<1>2. \A u \in Thread : u # t => /\ Owns(u)' <=> Owns(u)
                                 /\ tile'[u] = tile[u] /\ seen'[u] = seen[u]
  BY OthersStay DEF Owns
<1>3. CASE (Scans(t) \/ Loads(t) \/ Checks(t)) /\ ~Owns(t)'
  <2>1. step' = step BY <1>3 DEF Scans, Loads, Checks
  <2>2. QED BY <1>2, <1>3, <2>1 DEF OwnerInv
<1>4. CASE Executes(t) \/ Records(t)
  <2>1. step' = step /\ Owns(t) /\ tile'[t] = tile[t] /\ seen'[t] = seen[t]
    BY <1>4 DEF Executes, Records, Owns
  <2>2. QED BY <1>2, <2>1 DEF OwnerInv
<1>5. CASE Claims(t)
  <2>1. /\ step[tile[t]] = seen[t] /\ step' = [step EXCEPT ![tile[t]] = seen[t] + BUSY]
        /\ tile'[t] = tile[t] /\ seen'[t] = seen[t] /\ pc[t] = "claim"
    BY <1>5 DEF Claims
  <2>2. seen[t] <= tile[t][1] BY <2>1 DEF ChosenInv, Chosen
  <2>3. seen[t] < BUSY BY <1>1, <2>2, TileHas, TilesAssumption
  <2>4. ASSUME NEW u \in Thread, u # t, Owns(u)
        PROVE  tile[u] # tile[t] /\ step'[tile[u]] = seen[u] + BUSY
    <3>1. step[tile[u]] = seen[u] + BUSY /\ seen[u] \in Nat
      BY <2>4, TilesAssumption DEF OwnerInv, TypeOK, Panel
    <3>2. tile[u] # tile[t] BY <1>1, <2>1, <2>3, <3>1, TilesAssumption
    <3>3. step'[tile[u]] = step[tile[u]] BY <1>1, <2>1, <3>2
    <3>4. QED BY <3>1, <3>2, <3>3
  <2>5. step'[tile[t]] = seen[t] + BUSY BY <1>1, <2>1
  <2>6. \A u, v \in Thread : Owns(u) /\ Owns(v) /\ u # v => tile[u] # tile[v] BY DEF OwnerInv
  <2>7. QED BY <1>2, <2>1, <2>4, <2>5, <2>6 DEF OwnerInv
<1>6. CASE Publishes(t)
  <2>1. /\ step' = [step EXCEPT ![tile[t]] = seen[t] + 1] /\ Owns(t) /\ ~Owns(t)'
    BY <1>6 DEF Publishes, Owns, Leaves
  <2>2. \A u \in Thread : u # t /\ Owns(u) => tile[u] # tile[t] BY <2>1 DEF OwnerInv
  <2>3. \A u \in Thread : u # t /\ Owns(u) => step'[tile[u]] = step[tile[u]]
    BY <1>1, <2>1, <2>2
  <2>4. QED BY <1>2, <2>1, <2>3 DEF OwnerInv
<1>7. Scans(t) \/ Loads(t) \/ Checks(t) => ~Owns(t)'
  BY DEF Scans, Loads, Checks, Leaves, Owns
<1>8. QED BY <1>3, <1>4, <1>5, <1>6, <1>7, WorkDoes

(* What a thread has found final among the producers of its operation.     *)
LEMMA ProducersAreTiles ==
  ASSUME TypeOK, ChosenInv, NEW u \in Thread, Chosen(u)
  PROVE  /\ Inputs(tile[u], seen[u]) \in Seq(Tile)
         /\ \A q \in 1..Len(Inputs(tile[u], seen[u])) : Inputs(tile[u], seen[u])[q] \in Tile
         /\ DOMAIN Inputs(tile[u], seen[u]) = 1..Len(Inputs(tile[u], seen[u]))
         /\ Len(Inputs(tile[u], seen[u])) \in Nat
<1>1. tile[u] \in Tile /\ seen[u] \in Nat /\ seen[u] <= tile[u][1]
  BY TilesAssumption DEF TypeOK, ChosenInv, Panel
<1>2. Inputs(tile[u], seen[u]) \in Seq(Tile) BY <1>1, InputsType
<1> DEFINE inputs == Inputs(tile[u], seen[u])
<1> HIDE DEF inputs
<1>3. inputs \in Seq(Tile) => /\ \A q \in 1..Len(inputs) : inputs[q] \in Tile
                              /\ DOMAIN inputs = 1..Len(inputs) /\ Len(inputs) \in Nat
  OBVIOUS
<1>4. QED BY <1>2, <1>3 DEF inputs

LEMMA ReadyStep ==
  ASSUME TypeOK, ChosenInv, OwnerInv, ReadyInv, NEW t \in Thread, Work(t)
  PROVE  ReadyInv'
<1> SUFFICES ASSUME NEW u \in Thread
             PROVE  /\ pc'[u] = "ready" =>
                         \A q \in 1..(k'[u] - 1) : step'[Inputs(tile'[u], seen'[u])[q]]
                                                     = Inputs(tile'[u], seen'[u])[q][1] + 1
                    /\ Owns(u)' \/ pc'[u] = "claim" =>
                         \A q \in DOMAIN Inputs(tile'[u], seen'[u]) :
                           step'[Inputs(tile'[u], seen'[u])[q]] = Inputs(tile'[u], seen'[u])[q][1] + 1
  BY DEF ReadyInv, Final
<1> DEFINE inputs == Inputs(tile[u], seen[u])
           Stay == \A x \in Tile : step[x] = x[1] + 1 => step'[x] = x[1] + 1
<1>1. Stay BY FinalStays DEF Final
<1>2. /\ pc[u] = "ready" => \A q \in 1..(k[u] - 1) : step[inputs[q]] = inputs[q][1] + 1
      /\ Owns(u) \/ pc[u] = "claim" =>
           \A q \in DOMAIN inputs : step[inputs[q]] = inputs[q][1] + 1
  BY DEF ReadyInv, Final
<1>3. Chosen(u) => /\ \A q \in DOMAIN inputs : inputs[q] \in Tile
                   /\ DOMAIN inputs = 1..Len(inputs) /\ Len(inputs) \in Nat
  BY ProducersAreTiles
<1>4. pc[u] = "ready" => k[u] \in 1..Len(inputs) BY DEF ChosenInv
<1>5. CASE /\ tile'[u] = tile[u] /\ seen'[u] = seen[u] /\ Chosen(u)
           /\ Owns(u)' \/ pc'[u] = "claim" => Owns(u) \/ pc[u] = "claim"
           /\ pc'[u] = "ready" => pc[u] = "ready" /\ k'[u] = k[u]
  <2> HIDE DEF inputs
  <2>1. Owns(u) \/ pc[u] = "claim" => \A q \in DOMAIN inputs : step'[inputs[q]] = inputs[q][1] + 1
    BY <1>1, <1>2, <1>3, <1>5 DEF Chosen
  <2>2. pc[u] = "ready" => \A q \in 1..(k[u] - 1) : step'[inputs[q]] = inputs[q][1] + 1
    <3> SUFFICES ASSUME pc[u] = "ready", NEW q \in 1..(k[u] - 1)
                 PROVE  step'[inputs[q]] = inputs[q][1] + 1
      OBVIOUS
    <3>1. q \in DOMAIN inputs BY <1>3, <1>4, <1>5
    <3>2. QED BY <1>1, <1>2, <1>3, <1>5, <3>1
  <2>3. QED BY <1>5, <2>1, <2>2 DEF inputs
<1>6. CASE ~Chosen(u)' BY <1>6 DEF Chosen, Owns
<1>7. CASE u # t
  <2>1. pc'[u] = pc[u] /\ tile'[u] = tile[u] /\ seen'[u] = seen[u] /\ k'[u] = k[u]
    BY <1>7, OthersStay
  <2>2. CASE Chosen(u) BY <1>5, <2>1, <2>2 DEF Owns
  <2>3. CASE ~Chosen(u) BY <1>6, <2>1, <2>3 DEF Chosen, Owns
  <2>4. QED BY <2>2, <2>3
<1>8. CASE u = t /\ (Scans(t) \/ Publishes(t))
  BY <1>6, <1>8 DEF Scans, Publishes, Leaves, Chosen, Owns
<1>9. CASE u = t /\ Loads(t)
  <2>1. /\ tile'[u] = tile[u] /\ seen'[u] = step[tile[u]] /\ k'[u] = 1
        /\ pc'[u] = IF Inputs(tile[u], step[tile[u]]) = <<>> THEN "claim" ELSE "ready"
    BY <1>9 DEF Loads
  <2>2. pc'[u] = "claim" => DOMAIN Inputs(tile'[u], seen'[u]) = {} BY <2>1
  <2>3. 1..(k'[u] - 1) = {} BY <2>1
  <2>4. ~Owns(u)' BY <2>1 DEF Owns
  <2>5. QED BY <2>2, <2>3, <2>4
<1>10. CASE u = t /\ Checks(t)
  <2>1. /\ pc[u] = "ready" /\ tile'[u] = tile[u] /\ seen'[u] = seen[u] /\ step' = step
        /\ step[inputs[k[u]]] = inputs[k[u]][1] + 1
        /\ \/ k[u] = Len(inputs) /\ pc'[u] = "claim"
           \/ pc'[u] = "ready" /\ k'[u] = k[u] + 1
    BY <1>10 DEF Checks, Final
  <2>2. Chosen(u) /\ ~Owns(u)' BY <2>1 DEF Chosen, Owns
  <2> HIDE DEF inputs
  <2>3. \A q \in 1..k[u] : step[inputs[q]] = inputs[q][1] + 1 BY <1>2, <1>4, <2>1
  <2>4. CASE pc'[u] = "claim"
    <3>1. DOMAIN inputs = 1..k[u] BY <1>3, <2>1, <2>2, <2>4
    <3>2. QED BY <2>1, <2>3, <2>4, <3>1 DEF inputs
  <2>5. CASE pc'[u] = "ready"
    <3>1. k'[u] - 1 = k[u] BY <1>3, <1>4, <2>1, <2>2, <2>5
    <3>2. QED BY <2>1, <2>2, <2>3, <2>5, <3>1 DEF inputs
  <2>6. QED BY <2>1, <2>4, <2>5
<1>11. CASE u = t /\ (Claims(t) \/ Executes(t) \/ Records(t))
  BY <1>5, <1>11 DEF Claims, Executes, Records, Chosen, Owns
<1>12. QED BY <1>7, <1>8, <1>9, <1>10, <1>11, WorkDoes

-----------------------------------------------------------------------------
(* The claim of a tile.                                                    *)

ClaimInv == TypeOK /\ ChosenInv /\ OwnerInv /\ ReadyInv

LEMMA ClaimInit == Init => ClaimInv
<1> SUFFICES ASSUME Init PROVE ClaimInv OBVIOUS
<1> USE DEF Init
<1>1. <<0, 0>> \in Tile /\ 0 \in Panel BY TilesAssumption, TileOf DEF Panel
<1>2. SharedType
  <2>1. ASSUME NEW x \in Tile PROVE 0 \in 0..(x[1] + 1) BY TileHas
  <2>2. step \in [Tile -> 0..(BUSY + NT)] BY TilesAssumption
  <2>3. content \in [Tile -> Seq(Panel \cup {WRONG})] OBVIOUS
  <2>4. err \in 0..NT /\ info \in 0..NT BY TilesAssumption
  <2>5. QED BY <2>1, <2>2, <2>3, <2>4 DEF SharedType
<1>3. LocalsType BY <1>1, TilesAssumption DEF LocalsType, Label
<1>4. \A t \in Thread : pc[t] = "err" OBVIOUS
<1>5. ChosenInv /\ OwnerInv /\ ReadyInv
  BY <1>4 DEF ChosenInv, OwnerInv, ReadyInv, Chosen, Owns
<1>6. QED BY <1>2, <1>3, <1>5, TypeParts DEF ClaimInv

LEMMA ClaimRest ==
  ASSUME ClaimInv, EndRegion \/ UNCHANGED vars
  PROVE  ClaimInv'
<1>1. UNCHANGED <<shared, bad, content, locals>> BY DEF EndRegion, vars
<1>2. info' \in 0..NT /\ ended' \in BOOLEAN
  BY DEF EndRegion, vars, caller, ClaimInv, TypeOK
<1>3. TypeOK' BY <1>1, <1>2 DEF ClaimInv, TypeOK, shared, locals
<1>4. ChosenInv' BY <1>1 DEF ClaimInv, ChosenInv, Chosen, Owns, locals
<1>5. OwnerInv' BY <1>1 DEF ClaimInv, OwnerInv, Owns, shared, locals
<1>6. ReadyInv' BY <1>1 DEF ClaimInv, ReadyInv, Owns, Final, shared, locals
<1>7. QED BY <1>3, <1>4, <1>5, <1>6 DEF ClaimInv

LEMMA ClaimStep == ClaimInv /\ [Next]_vars => ClaimInv'
<1> SUFFICES ASSUME ClaimInv, [Next]_vars PROVE ClaimInv' OBVIOUS
<1>1. ASSUME NEW t \in Thread, Work(t) PROVE ClaimInv'
  BY <1>1, TypeStep, ChosenStep, OwnerStep, ReadyStep DEF ClaimInv
<1>2. CASE EndRegion \/ UNCHANGED vars BY <1>2, ClaimRest
<1>3. QED BY <1>1, <1>2 DEF Next, Returned

(* The state of the tile Cholesky is always of the expected kind: a step   *)
(* counter tells a step of its tile's life cycle, claimed or not, and a    *)
(* scan never leaves the active triangle.                                  *)
THEOREM TypeCorrect == Spec => []TypeOK
<1>1. ClaimInv => TypeOK BY DEF ClaimInv
<1>2. QED BY ClaimInit, ClaimStep, <1>1, PTL DEF Spec

(* The tile that a thread works on is not final, what it reads is.         *)
LEMMA RaceFree == ClaimInv => NoTileRace
<1> SUFFICES ASSUME ClaimInv, NEW t \in Thread, NEW u \in Thread, t # u, Executing(t), Executing(u)
             PROVE  Written(t) \cap (Written(u) \cup Read(u)) = {}
  BY DEF NoTileRace
<1>1. Owns(t) /\ Owns(u) BY DEF Executing, Owns
<1>2. tile[t] # tile[u] BY <1>1 DEF ClaimInv, OwnerInv
<1>3. ~Final(tile[t])
  <2>1. step[tile[t]] = seen[t] + BUSY BY <1>1 DEF ClaimInv, OwnerInv
  <2>2. tile[t] \in Tile /\ seen[t] \in Nat BY TilesAssumption DEF ClaimInv, TypeOK, Panel
  <2>3. tile[t][1] \in Nat /\ tile[t][1] < NT BY <2>2, TileHas, TilesAssumption
  <2>4. QED BY <2>1, <2>2, <2>3, TilesAssumption DEF Final
<1>4. \A q \in DOMAIN Inputs(tile[u], seen[u]) : Final(Inputs(tile[u], seen[u])[q])
  BY <1>1 DEF ClaimInv, ReadyInv
<1>5. tile[t] \notin Read(u) BY <1>3, <1>4 DEF Read
<1>6. QED BY <1>2, <1>5 DEF Written

(* The compare-and-swap on a tile's step, after its producers have been    *)
(* seen final, keeps the calls of any two threads apart: no tile is        *)
(* written by two, or by one while another reads it.                       *)
THEOREM TileRaceFree == Spec => []NoTileRace
BY ClaimInit, ClaimStep, RaceFree, PTL DEF Spec

-----------------------------------------------------------------------------
(* The first failure.                                                      *)

LEMMA TileStep ==
  ASSUME ClaimInv, NEW t \in Thread, Work(t), NEW x \in Tile
  PROVE  \/ step'[x] = step[x]
         \/ /\ Claims(t) /\ x = tile[t] /\ step[x] = seen[t] /\ step'[x] = seen[t] + BUSY
            /\ seen[t] \in Nat /\ seen[t] <= x[1] /\ seen[t] < BUSY
         \/ /\ Publishes(t) /\ x = tile[t] /\ step[x] = seen[t] + BUSY /\ step'[x] = seen[t] + 1
            /\ seen[t] \in Nat /\ seen[t] <= x[1] /\ seen[t] + 1 < BUSY
<1>1. /\ step \in [Tile -> 0..(BUSY + NT)] /\ seen[t] \in Nat /\ x[1] \in Nat /\ x[1] < NT
  <2>1. x[1] \in Nat /\ x[1] < NT BY TileHas, TilesAssumption
  <2>2. step \in [Tile -> 0..(BUSY + NT)] /\ seen[t] \in Nat
    BY TilesAssumption DEF ClaimInv, TypeOK, Panel
  <2>3. QED BY <2>1, <2>2
<1>2. CASE Claims(t)
  <2>1. pc[t] = "claim" /\ step[tile[t]] = seen[t]
        /\ step' = [step EXCEPT ![tile[t]] = seen[t] + BUSY]
    BY <1>2 DEF Claims
  <2>2. CASE x = tile[t]
    <3>1. seen[t] <= x[1] BY <2>1, <2>2 DEF ClaimInv, ChosenInv, Chosen
    <3>2. step'[x] = seen[t] + BUSY BY <1>1, <2>1, <2>2
    <3>3. QED BY <1>1, <1>2, <2>1, <2>2, <3>1, <3>2, TilesAssumption
  <2>3. CASE x # tile[t] BY <1>1, <2>1, <2>3
  <2>4. QED BY <2>2, <2>3
<1>3. CASE Publishes(t)
  <2>1. pc[t] = "publish" /\ step' = [step EXCEPT ![tile[t]] = seen[t] + 1]
    BY <1>3 DEF Publishes
  <2>2. CASE x = tile[t]
    <3>1. seen[t] <= x[1] /\ step[x] = seen[t] + BUSY
      BY <2>1, <2>2 DEF ClaimInv, ChosenInv, OwnerInv, Chosen, Owns
    <3>2. step'[x] = seen[t] + 1 BY <1>1, <2>1, <2>2
    <3>3. QED BY <1>1, <1>3, <2>2, <3>1, <3>2, TilesAssumption
  <2>3. CASE x # tile[t] BY <1>1, <2>1, <2>3
  <2>4. QED BY <2>2, <2>3
<1>4. QED BY <1>2, <1>3, WorkDoes DEF ClaimInv, Scans, Loads, Checks, Executes, Records

LEMMA ReachedFacts ==
  ASSUME SharedType, NEW x \in Tile
  PROVE  /\ Reached(x) \in Nat /\ Reached(x) <= x[1] + 1 /\ x[1] \in Nat /\ x[1] < NT
         /\ step[x] < BUSY => Reached(x) = step[x]
         /\ step[x] >= BUSY => Reached(x) = step[x] - BUSY
         /\ Final(x) => ~Claimed(x)
<1>1. x[1] \in Nat /\ x[1] < NT BY TileHas, TilesAssumption
<1>2. step[x] \in (0..(x[1] + 1)) \cup (BUSY..(BUSY + x[1])) BY DEF SharedType
<1>3. QED BY <1>1, <1>2, TilesAssumption DEF Reached, Claimed, Final

LEMMA InputsAreTiles ==
  ASSUME NEW x \in Tile, NEW s \in Nat, s <= x[1]
  PROVE  \A q \in DOMAIN Inputs(x, s) : Inputs(x, s)[q] \in Tile
<1> DEFINE inputs == Inputs(x, s)
<1>1. inputs \in Seq(Tile) BY InputsType
<1> HIDE DEF inputs
<1>2. \A q \in DOMAIN inputs : inputs[q] \in Tile BY <1>1
<1>3. QED BY <1>2 DEF inputs

LEMMA HistoryStep ==
  ASSUME ClaimInv, HistoryInv, NEW t \in Thread, Work(t)
  PROVE  HistoryInv'
<1>1. ClaimInv' BY TypeStep, ChosenStep, OwnerStep, ReadyStep DEF ClaimInv
<1> SUFFICES ASSUME NEW x \in Tile, NEW s \in Panel, s < Reached(x)',
                    NEW q \in DOMAIN Inputs(x, s)
             PROVE  Final(Inputs(x, s)[q])'
  BY DEF HistoryInv, Final
<1>2. SharedType /\ s \in Nat BY TypeParts, TilesAssumption DEF ClaimInv, Panel
<1>3. s <= x[1]
  <2>1. x[1] \in Nat BY TileHas
  <2>2. Reached(x)' \in Nat /\ Reached(x)' <= x[1] + 1
    <3>1. step'[x] \in (0..(x[1] + 1)) \cup (BUSY..(BUSY + x[1])) BY <1>1 DEF ClaimInv, TypeOK
    <3>2. x[1] < NT BY TileHas, TilesAssumption
    <3>3. QED BY <2>1, <3>1, <3>2, TilesAssumption DEF Reached, Claimed
  <2>3. QED BY <1>2, <2>1, <2>2
<1>4. Inputs(x, s)[q] \in Tile BY <1>2, <1>3, InputsAreTiles
<1>5. SUFFICES Final(Inputs(x, s)[q]) BY <1>4, FinalStays DEF ClaimInv
<1>6. CASE s < Reached(x) BY <1>6 DEF HistoryInv
<1>7. CASE ~(s < Reached(x))
  <2>1. step'[x] # step[x] BY <1>7 DEF Reached, Claimed
  <2>2. CASE Claims(t) /\ step[x] = seen[t] /\ step'[x] = seen[t] + BUSY /\ seen[t] \in Nat
             /\ seen[t] < BUSY
    BY <1>2, <1>7, <2>2, TilesAssumption DEF Reached, Claimed
  <2>3. CASE /\ Publishes(t) /\ x = tile[t] /\ step[x] = seen[t] + BUSY /\ step'[x] = seen[t] + 1
             /\ seen[t] \in Nat /\ seen[t] + 1 < BUSY
    <3>1. s = seen[t] BY <1>2, <1>7, <2>3, TilesAssumption DEF Reached, Claimed
    <3>2. Owns(t) BY <2>3 DEF Publishes, Owns
    <3>3. QED BY <2>3, <3>1, <3>2 DEF ClaimInv, ReadyInv
  <2>4. QED BY <2>1, <2>2, <2>3, TileStep
<1>8. QED BY <1>6, <1>7

(* Content changes when its owner has executed.                            *)
LEMMA ContentOf ==
  ASSUME ClaimInv, NEW t \in Thread, Work(t)
  PROVE  \/ content' = content /\ ~Executes(t)
         \/ /\ Executes(t) /\ tile[t] \in Tile /\ Owns(t)
            /\ \A x \in Tile : x # tile[t] => content'[x] = content[x]
            /\ content'[tile[t]] = Append(content[tile[t]], Outcome(tile[t], seen[t]))
            /\ Len(content'[tile[t]]) = Len(content[tile[t]]) + 1
            /\ content[tile[t]] \in Seq(Panel \cup {WRONG}) /\ Outcome(tile[t], seen[t]) \in Panel \cup {WRONG}
<1>1. /\ content \in [Tile -> Seq(Panel \cup {WRONG})] /\ tile[t] \in Tile /\ seen[t] \in Panel
  BY DEF ClaimInv, TypeOK
<1>2. CASE Executes(t)
  <2>1. content' = [content EXCEPT ![tile[t]] = Append(@, Outcome(tile[t], seen[t]))] /\ Owns(t)
    BY <1>2 DEF Executes, Owns
  <2>2. content'[tile[t]] = Append(content[tile[t]], Outcome(tile[t], seen[t]))
    BY <1>1, <2>1
  <2>3. Outcome(tile[t], seen[t]) \in Panel \cup {WRONG} BY <1>1 DEF Outcome
  <2>4. content[tile[t]] \in Seq(Panel \cup {WRONG}) BY <1>1
  <2>5. Len(content'[tile[t]]) = Len(content[tile[t]]) + 1 BY <2>2, <2>3, <2>4
  <2>6. \A x \in Tile : x # tile[t] => content'[x] = content[x] BY <1>1, <2>1
  <2>7. QED BY <1>1, <1>2, <2>1, <2>2, <2>3, <2>4, <2>5, <2>6
<1>3. CASE ~Executes(t)
  BY <1>3, WorkDoes DEF ClaimInv, Scans, Loads, Checks, Claims, Records, Publishes
<1>4. QED BY <1>2, <1>3

LEMMA LengthStep ==
  ASSUME ClaimInv, LengthInv, NEW t \in Thread, Work(t)
  PROVE  LengthInv'
<1>1. /\ SharedType /\ OwnerInv
      /\ \A u \in Thread : tile[u] \in Tile /\ seen[u] \in Nat
  <2>1. SharedType /\ OwnerInv BY TypeParts DEF ClaimInv
  <2>2. \A u \in Thread : tile[u] \in Tile /\ seen[u] \in Nat
    BY TilesAssumption DEF ClaimInv, TypeOK, Panel
  <2>3. QED BY <2>1, <2>2
<1>2. /\ \A x \in Tile : ~Claimed(x) => Len(content[x]) = step[x]
      /\ \A u \in Thread :
           /\ pc[u] = "execute" => Len(content[tile[u]]) = seen[u]
           /\ pc[u] \in {"error", "publish"} => Len(content[tile[u]]) = seen[u] + 1
  BY DEF LengthInv
<1>3. \A u \in Thread : Owns(u) => Claimed(tile[u])
  BY <1>1, TilesAssumption DEF OwnerInv, Claimed
<1>4. \A x \in Tile : x # tile[t] \/ ~Executes(t) => content'[x] = content[x]
  BY ContentOf
<1>5. ASSUME NEW x \in Tile, ~Claimed(x)'
      PROVE  Len(content'[x]) = step'[x]
  <2>1. CASE step'[x] = step[x]
    <3>1. ~Claimed(x) BY <1>5, <2>1 DEF Claimed
    <3>2. x # tile[t] \/ ~Executes(t) BY <1>3, <3>1 DEF Executes, Owns
    <3>3. QED BY <1>2, <1>4, <2>1, <3>1, <3>2
  <2>2. CASE step'[x] = seen[t] + BUSY /\ seen[t] \in Nat
    BY <1>5, <2>2, TilesAssumption DEF Claimed
  <2>3. CASE Publishes(t) /\ x = tile[t] /\ step'[x] = seen[t] + 1
    <3>1. pc[t] = "publish" /\ content' = content BY <2>3 DEF Publishes
    <3>2. QED BY <1>2, <2>3, <3>1
  <2>4. QED BY <2>1, <2>2, <2>3, TileStep
<1>6. ASSUME NEW u \in Thread
      PROVE  /\ pc'[u] = "execute" => Len(content'[tile'[u]]) = seen'[u]
             /\ pc'[u] \in {"error", "publish"} => Len(content'[tile'[u]]) = seen'[u] + 1
  <2>1. CASE u # t
    <3>1. pc'[u] = pc[u] /\ tile'[u] = tile[u] /\ seen'[u] = seen[u] BY <2>1, OthersStay DEF ClaimInv
    <3>2. CASE Owns(u)
      <4>1. tile[u] # tile[t] \/ ~Executes(t) BY <1>1, <2>1, <3>2 DEF OwnerInv, Executes, Owns
      <4>2. content'[tile[u]] = content[tile[u]] BY <1>1, <1>4, <4>1
      <4>3. QED BY <1>2, <3>1, <4>2
    <3>3. CASE ~Owns(u) BY <3>1, <3>3 DEF Owns
    <3>4. QED BY <3>2, <3>3
  <2>2. CASE u = t
    <3>1. CASE Scans(t) \/ Loads(t) \/ Checks(t) \/ Publishes(t)
      BY <2>2, <3>1 DEF Scans, Loads, Checks, Publishes, Leaves
    <3>2. CASE Claims(t)
      <4>1. /\ step[tile[t]] = seen[t] /\ pc[t] = "claim" /\ pc'[t] = "execute" /\ content' = content
            /\ tile'[t] = tile[t] /\ seen'[t] = seen[t]
        BY <3>2 DEF Claims
      <4>2. seen[t] <= tile[t][1] BY <4>1 DEF ClaimInv, ChosenInv, Chosen
      <4>3. tile[t][1] \in Nat /\ tile[t][1] < NT BY <1>1, TileHas, TilesAssumption
      <4>4. ~Claimed(tile[t]) BY <1>1, <4>1, <4>2, <4>3, TilesAssumption DEF Claimed
      <4>5. Len(content[tile[t]]) = seen[t] BY <1>1, <1>2, <4>1, <4>4
      <4>6. QED BY <2>2, <4>1, <4>5
    <3>3. CASE Executes(t)
      <4>1. pc[t] = "execute" /\ pc'[t] # "execute" /\ tile'[t] = tile[t] /\ seen'[t] = seen[t]
        BY <3>3 DEF Executes
      <4>2. Len(content'[tile[t]]) = Len(content[tile[t]]) + 1 BY <3>3, ContentOf
      <4>3. QED BY <1>2, <2>2, <4>1, <4>2
    <3>4. CASE Records(t)
      <4>1. /\ pc[t] = "error" /\ pc'[t] = "publish" /\ tile'[t] = tile[t] /\ seen'[t] = seen[t]
            /\ content' = content
        BY <3>4 DEF Records
      <4>2. QED BY <1>2, <2>2, <4>1
    <3>5. QED BY <3>1, <3>2, <3>3, <3>4, WorkDoes DEF ClaimInv
  <2>3. QED BY <2>1, <2>2
<1>7. QED BY <1>5, <1>6 DEF LengthInv

(* A final tile in front of the first bad panel holds what it should.      *)
LEMMA FinalIsIntact ==
  ASSUME ClaimInv, LengthInv, ContentInv, NEW x \in Tile, Final(x), \A b \in bad : x[1] < b
  PROVE  Intact(x)
<1>1. SharedType BY TypeParts DEF ClaimInv
<1>2. x[1] \in Nat /\ ~Claimed(x) /\ step[x] = x[1] + 1 BY <1>1, ReachedFacts DEF Final
<1>3. content[x] \in Seq(Panel \cup {WRONG}) BY <1>1 DEF SharedType
<1>4. Len(content[x]) = x[1] + 1 BY <1>2 DEF LengthInv
<1>5. ASSUME NEW q \in 1..(x[1] + 1) PROVE content[x][q] = q - 1
  <2>1. \A b \in bad : b \in Nat BY <1>1, TilesAssumption DEF SharedType, Panel
  <2>2. \A b \in bad : q <= b BY <1>2, <2>1
  <2>3. QED BY <1>4, <1>5, <2>2 DEF ContentInv
<1> DEFINE c == content[x]
<1>6. c = Upto(x[1] + 1)
  <2>1. c = [q \in 1..Len(c) |-> c[q]] BY <1>3
  <2> HIDE DEF c
  <2>2. Len(c) = x[1] + 1 BY <1>4 DEF c
  <2>3. \A q \in 1..(x[1] + 1) : c[q] = q - 1 BY <1>5 DEF c
  <2>4. QED BY <2>1, <2>2, <2>3 DEF Upto
<1>7. QED BY <1>6 DEF Intact

(* An operation in front of the first bad panel goes right.                *)
LEMMA OutcomeIsRight ==
  ASSUME ClaimInv, LengthInv, ContentInv, NEW t \in Thread, Owns(t), \A b \in bad : seen[t] + 1 <= b
  PROVE  Outcome(tile[t], seen[t]) = seen[t]
<1> DEFINE x == tile[t]
           s == seen[t]
<1>1. /\ x \in Tile /\ s \in Nat /\ s <= x[1] /\ x[1] \in Nat /\ bad \in SUBSET Panel
  <2>1. x \in Tile /\ s \in Nat /\ bad \in SUBSET Panel
    BY TilesAssumption DEF ClaimInv, TypeOK, Panel
  <2>2. s <= x[1] BY DEF ClaimInv, ChosenInv, Chosen
  <2>3. QED BY <2>1, <2>2, TileHas
<1>2. \A b \in bad : b \in Nat /\ s < b BY <1>1, TilesAssumption DEF Panel
<1>3. s \notin bad BY <1>2
<1>4. ASSUME NEW q \in DOMAIN Inputs(x, s) PROVE Intact(Inputs(x, s)[q])
  <2>1. Inputs(x, s)[q] \in Tile BY <1>1, InputsAreTiles
  <2>2. Final(Inputs(x, s)[q]) BY DEF ClaimInv, ReadyInv
  <2>3. Inputs(x, s)[q][1] = s BY <1>1 DEF Inputs
  <2>4. QED BY <1>2, <2>1, <2>2, <2>3, FinalIsIntact
<1>5. QED BY <1>3, <1>4 DEF Outcome

LEMMA ContentStep ==
  ASSUME ClaimInv, LengthInv, ContentInv, NEW t \in Thread, Work(t)
  PROVE  ContentInv'
<1>1. bad' = bad BY WorkDoes DEF ClaimInv, Scans, Loads, Checks, Claims, Executes, Records, Publishes
<1>2. CASE content' = content BY <1>1, <1>2 DEF ContentInv
<1>3. CASE Executes(t)
  <2> DEFINE x == tile[t]
             c == content[x]
             o == Outcome(x, seen[t])
  <2>1. /\ x \in Tile /\ Owns(t) /\ \A y \in Tile : y # x => content'[y] = content[y]
        /\ content'[x] = Append(c, o)
        /\ c \in Seq(Panel \cup {WRONG}) /\ o \in Panel \cup {WRONG}
    BY <1>3, ContentOf
  <2>2. Len(c) = seen[t] /\ seen[t] \in Nat
    BY <1>3, TilesAssumption DEF LengthInv, Executes, ClaimInv, TypeOK, Panel
  <2>3. (\A b \in bad : seen[t] + 1 <= b) => o = seen[t] BY <2>1, OutcomeIsRight
  <2>4. \A q \in 1..Len(c) : (\A b \in bad : q <= b) => c[q] = q - 1 BY <2>1 DEF ContentInv
  <2>5. \A q \in 1..Len(Append(c, o)) : (\A b \in bad : q <= b) => Append(c, o)[q] = q - 1
    <3> HIDE DEF c, o
    <3>1. /\ Len(Append(c, o)) = Len(c) + 1 /\ Append(c, o)[Len(c) + 1] = o
          /\ \A q \in 1..Len(c) : Append(c, o)[q] = c[q]
      BY <2>1
    <3> SUFFICES ASSUME NEW q \in 1..(seen[t] + 1), \A b \in bad : q <= b
                 PROVE  Append(c, o)[q] = q - 1
      BY <2>2, <3>1
    <3>2. CASE q = seen[t] + 1 BY <2>2, <2>3, <3>1, <3>2
    <3>3. CASE q # seen[t] + 1
      <4>1. q \in 1..Len(c) BY <2>2, <3>3
      <4>2. QED BY <2>4, <3>1, <4>1
    <3>4. QED BY <3>2, <3>3
  <2> HIDE DEF c, o
  <2>6. ASSUME NEW y \in Tile, NEW q \in 1..Len(content'[y]), \A b \in bad : q <= b
        PROVE  content'[y][q] = q - 1
    <3>1. CASE y = x BY <2>1, <2>5, <2>6, <3>1
    <3>2. CASE y # x BY <2>1, <2>6, <3>2 DEF ContentInv
    <3>3. QED BY <3>1, <3>2
  <2>7. QED BY <1>1, <2>6 DEF ContentInv
<1>4. QED BY <1>2, <1>3, ContentOf

LEMMA ErrorChange ==
  ASSUME ClaimInv, NEW t \in Thread, Work(t)
  PROVE  /\ bad' = bad /\ info' = info /\ ended' = ended
         /\ err' = err \/ (Records(t) /\ err' = IF err = 0 THEN tile[t][1] + 1 ELSE err)
<1>1. CASE Records(t)
  <2>1. bad' = bad /\ info' = info /\ ended' = ended /\ err' = IF err = 0 THEN tile[t][1] + 1 ELSE err
    BY <1>1 DEF Records, caller
  <2>2. QED BY <1>1, <2>1
<1>2. CASE Scans(t) \/ Loads(t) \/ Checks(t)
  <2>1. bad' = bad /\ info' = info /\ ended' = ended /\ err' = err BY <1>2 DEF Scans, Loads, Checks, caller
  <2>2. QED BY <2>1
<1>3. CASE Claims(t) \/ Executes(t) \/ Publishes(t)
  <2>1. bad' = bad /\ info' = info /\ ended' = ended /\ err' = err
    BY <1>3 DEF Claims, Executes, Publishes, caller
  <2>2. QED BY <2>1
<1>4. QED BY <1>1, <1>2, <1>3, WorkDoes DEF ClaimInv

LEMMA ErrorStep ==
  ASSUME ClaimInv, ErrorInv, NEW t \in Thread, Work(t)
  PROVE  ErrorInv'
<1>1. /\ bad' = bad /\ info' = info /\ ended' = ended
      /\ err' = err \/ (Records(t) /\ err' = IF err = 0 THEN tile[t][1] + 1 ELSE err)
  BY ErrorChange
<1>2. /\ err \in Nat /\ tile[t][1] \in Nat /\ bad \in SUBSET Panel
      /\ \A i \in bad : i \in Nat /\ <<i, i>> \in Tile
  <2>1. err \in Nat /\ tile[t] \in Tile /\ bad \in SUBSET Panel
    BY TilesAssumption DEF ClaimInv, TypeOK
  <2>2. \A i \in Panel : i \in Nat /\ i < NT BY TilesAssumption DEF Panel
  <2>3. QED BY <2>1, <2>2, TileHas, TileOf
<1>3. err # 0 => err' # 0 BY <1>1
<1>4. Records(t) => err' # 0 BY <1>1, <1>2 DEF Records
<1>5. ASSUME NEW i \in bad, Final(<<i, i>>)' PROVE err' # 0
  <2> DEFINE x == <<i, i>>
  <2>1. x \in Tile /\ step'[x] = i + 1 /\ i \in Nat /\ i < NT
    BY <1>2, <1>5, TilesAssumption DEF Final, Panel
  <2>2. CASE step'[x] = step[x] BY <1>3, <2>1, <2>2 DEF ErrorInv, Final
  <2>3. CASE step'[x] = seen[t] + BUSY /\ seen[t] \in Nat BY <2>1, <2>3, TilesAssumption
  <2>4. CASE Publishes(t) /\ x = tile[t] /\ step'[x] = seen[t] + 1 /\ seen[t] \in Nat
    <3>1. seen[t] = i /\ pc[t] = "publish" BY <2>1, <2>4 DEF Publishes
    <3>2. QED BY <1>3, <2>4, <3>1 DEF ErrorInv
  <2> HIDE DEF x
  <2>5. QED BY <2>1, <2>2, <2>3, <2>4, TileStep
<1>6. ASSUME NEW u \in Thread
      PROVE  /\ pc'[u] = "error" => tile'[u] = <<seen'[u], seen'[u]>> /\ seen'[u] \in bad
             /\ pc'[u] = "publish" /\ tile'[u] = <<seen'[u], seen'[u]>> /\ seen'[u] \in bad => err' # 0
  <2>1. CASE u # t
    <3>1. pc'[u] = pc[u] /\ tile'[u] = tile[u] /\ seen'[u] = seen[u]
      BY <2>1, OthersStay DEF ClaimInv
    <3>2. QED BY <1>3, <3>1 DEF ErrorInv
  <2>2. CASE u = t
    <3>1. CASE Scans(t) \/ Loads(t) \/ Checks(t) \/ Claims(t) \/ Publishes(t)
      BY <2>2, <3>1 DEF Scans, Loads, Checks, Claims, Publishes, Leaves
    <3>2. CASE Executes(t) BY <2>2, <3>2 DEF Executes
    <3>3. CASE Records(t) BY <1>4, <2>2, <3>3 DEF Records
    <3>4. QED BY <3>1, <3>2, <3>3, WorkDoes DEF ClaimInv
  <2>3. QED BY <2>1, <2>2
<1>7. ~ended'
  <2>1. pc[t] # "exit"
    BY DEF Work, CheckError, CheckTotal, SkipPanels, LookAtDiagonal, LookAtPanel, LookAtRow,
      LoadStep, CheckReady, Claim, Execute, RecordError, Publish, CountTile, CountColumn
  <2>2. QED BY <1>1, <2>1 DEF ErrorInv
<1>8. QED BY <1>1, <1>5, <1>6, <1>7 DEF ErrorInv

(* What is in front of a panel whose POTRF runs is final.                  *)
LEMMA FrontIsFinal ==
  ASSUME ClaimInv, HistoryInv, NEW s \in Panel, <<s, s>> \in Tile, s <= Reached(<<s, s>>),
         NEW x \in Tile, x[2] < s
  PROVE  Final(x)
<1> DEFINE i == x[1]
           j == x[2]
<1>1. /\ x = <<i, j>> /\ i \in Panel /\ j \in Panel /\ i \in Nat /\ j \in Nat /\ i <= j
      /\ s \in Nat /\ s < NT
  BY TileHas, TilesAssumption DEF Panel
<1>2. SharedType BY TypeParts DEF ClaimInv
<1>3. <<j, s>> \in Tile BY <1>1, TileOf
<1>4. Final(<<j, s>>)
  <2>1. Reached(<<s, s>>) \in Nat BY <1>2, ReachedFacts
  <2>2. j < Reached(<<s, s>>) BY <1>1, <2>1
  <2>3. \A q \in DOMAIN Inputs(<<s, s>>, j) : Final(Inputs(<<s, s>>, j)[q])
    BY <1>1, <2>2 DEF HistoryInv
  <2>4. Inputs(<<s, s>>, j) = <<<<j, s>>>> BY DEF Inputs
  <2>5. QED BY <2>3, <2>4
<1>5. \A r \in Panel : r <= j => \A q \in DOMAIN Inputs(<<j, s>>, r) : Final(Inputs(<<j, s>>, r)[q])
  <2>1. step[<<j, s>>] = j + 1 BY <1>4 DEF Final
  <2>2. Reached(<<j, s>>) = j + 1
    BY <1>1, <2>1, TilesAssumption DEF Reached, Claimed
  <2>3. \A r \in Panel : r <= j => r < Reached(<<j, s>>) BY <1>1, <2>2, TilesAssumption DEF Panel
  <2>4. QED BY <1>3, <2>3 DEF HistoryInv
<1>6. CASE i < j
  <2>1. Inputs(<<j, s>>, i) = <<<<i, j>>, <<i, s>>>> BY <1>1, <1>6 DEF Inputs
  <2>2. 1 \in DOMAIN Inputs(<<j, s>>, i) /\ Inputs(<<j, s>>, i)[1] = <<i, j>> BY <2>1
  <2>3. Final(<<i, j>>) BY <1>1, <1>5, <2>2
  <2>4. QED BY <1>1, <2>3
<1>7. CASE i = j
  <2>1. Inputs(<<j, s>>, j) = <<<<j, j>>>> BY <1>1 DEF Inputs
  <2>2. 1 \in DOMAIN Inputs(<<j, s>>, j) /\ Inputs(<<j, s>>, j)[1] = <<j, j>> BY <2>1
  <2>3. Final(<<j, j>>) BY <1>1, <1>5, <2>2
  <2>4. QED BY <1>1, <1>7, <2>3
<1>8. QED BY <1>1, <1>6, <1>7

LEMMA FirstStep ==
  ASSUME ClaimInv, HistoryInv, LengthInv, ContentInv, ErrorInv, FirstInv, NEW t \in Thread, Work(t)
  PROVE  FirstInv'
<1>1. /\ bad' = bad
      /\ err' = err \/ (Records(t) /\ err' = IF err = 0 THEN tile[t][1] + 1 ELSE err)
  BY ErrorChange
<1>2. ASSUME NEW x \in Tile, Final(x), Intact(x)
      PROVE  Final(x)' /\ Intact(x)'
  <2>1. Final(x)' BY <1>2, FinalStays DEF ClaimInv
  <2>2. content'[x] = content[x]
    <3>1. CASE Executes(t)
      <4>1. Owns(t) BY <3>1 DEF Executes, Owns
      <4>2. Claimed(tile[t]) BY <4>1, TilesAssumption DEF ClaimInv, OwnerInv, Claimed, TypeOK, Panel
      <4>3. ~Claimed(x) BY <1>2, ReachedFacts, TypeParts DEF ClaimInv
      <4>4. QED BY <3>1, <4>2, <4>3, ContentOf
    <3>2. QED BY <3>1, ContentOf
  <2>3. QED BY <1>2, <2>1, <2>2 DEF Intact
<1>3. CASE err # 0
  <2>1. err' = err BY <1>1, <1>3
  <2>2. QED BY <1>1, <1>2, <1>3, <2>1 DEF FirstInv
<1>4. CASE err = 0 /\ err' = 0 BY <1>4 DEF FirstInv
<1>5. CASE err = 0 /\ Records(t) /\ err' = tile[t][1] + 1
  <2> DEFINE s == seen[t]
  <2>1. /\ pc[t] = "error" /\ tile[t] = <<s, s>> /\ s \in bad /\ step' = step /\ content' = content
    BY <1>5 DEF Records, ErrorInv
  <2>2. s \in Panel /\ <<s, s>> \in Tile /\ s \in Nat /\ s < NT
    <3>1. s \in Panel /\ tile[t] \in Tile BY DEF ClaimInv, TypeOK
    <3>2. s \in Nat /\ s < NT BY <3>1, TilesAssumption DEF Panel
    <3>3. QED BY <2>1, <3>1, <3>2
  <2>3. s <= Reached(<<s, s>>)
    <3>1. step[<<s, s>>] = s + BUSY BY <2>1 DEF ClaimInv, OwnerInv, Owns
    <3>2. QED BY <2>2, <3>1, TilesAssumption DEF Reached, Claimed
  <2>4. \A i \in bad : i \in Nat /\ i < NT BY TilesAssumption DEF ClaimInv, TypeOK, Panel
  <2>5. ASSUME NEW i \in bad PROVE s <= i
    <3> SUFFICES ASSUME i < s PROVE FALSE BY <2>2, <2>4
    <3>1. <<i, i>> \in Tile BY <2>4, TileOf
    <3>2. Final(<<i, i>>) BY <2>2, <2>3, <3>1, FrontIsFinal
    <3>3. QED BY <1>5, <3>2 DEF ErrorInv
  <2>6. ASSUME NEW x \in Tile, x[2] < s PROVE Final(x) /\ Intact(x)
    <3>1. Final(x) BY <2>2, <2>3, <2>6, FrontIsFinal
    <3>2. x[1] \in Nat /\ x[2] \in Nat /\ x[1] <= x[2] BY TileHas
    <3>3. \A b \in bad : x[1] < b BY <2>2, <2>4, <2>5, <2>6, <3>2
    <3>4. QED BY <3>1, <3>3, FinalIsIntact
  <2>7. err' - 1 = s BY <1>5, <2>1, <2>2
  <2>8. \A x \in Tile : Final(x) /\ Intact(x) => Final(x)' /\ Intact(x)' BY <1>2
  <2>9. QED BY <1>1, <2>1, <2>5, <2>6, <2>7, <2>8 DEF FirstInv
<1>6. QED BY <1>1, <1>3, <1>4, <1>5

FailureInv == ClaimInv /\ HistoryInv /\ LengthInv /\ ContentInv /\ ErrorInv /\ FirstInv

LEMMA FailureInit == Init => FailureInv
<1> SUFFICES ASSUME Init PROVE FailureInv OBVIOUS
<1>1. ClaimInv BY ClaimInit
<1>2. \A x \in Tile : step[x] = 0 /\ content[x] = <<>> BY DEF Init
<1>3. \A t \in Thread : pc[t] = "err" BY DEF Init
<1>4. HistoryInv
  <2>1. \A x \in Tile : Reached(x) = 0 BY <1>2, TilesAssumption DEF Reached, Claimed
  <2>2. \A s \in Panel : ~(s < 0) BY TilesAssumption DEF Panel
  <2>3. QED BY <2>1, <2>2 DEF HistoryInv
<1>5. LengthInv BY <1>2, <1>3 DEF LengthInv
<1>6. ContentInv BY <1>2 DEF ContentInv
<1>7. ErrorInv
  <2>1. \A i \in bad : ~Final(<<i, i>>)
    <3> SUFFICES ASSUME NEW i \in bad PROVE ~Final(<<i, i>>) OBVIOUS
    <3>1. i \in Nat /\ i < NT BY TilesAssumption DEF Init, Panel
    <3>2. <<i, i>> \in Tile BY <3>1, TileOf
    <3>3. QED BY <1>2, <3>1, <3>2 DEF Final
  <2>2. QED BY <1>3, <2>1 DEF ErrorInv, Init
<1>8. FirstInv BY DEF FirstInv, Init
<1>9. QED BY <1>1, <1>4, <1>5, <1>6, <1>7, <1>8 DEF FailureInv

LEMMA FailureRest ==
  ASSUME FailureInv, EndRegion \/ UNCHANGED vars
  PROVE  FailureInv'
<1>1. UNCHANGED <<shared, bad, content, locals>> BY DEF EndRegion, vars
<1>2. ClaimInv' BY ClaimRest DEF FailureInv
<1>3. HistoryInv' BY <1>1 DEF FailureInv, HistoryInv, Reached, Claimed, Final, shared
<1>4. LengthInv' BY <1>1 DEF FailureInv, LengthInv, Claimed, shared, locals
<1>5. ContentInv' BY <1>1 DEF FailureInv, ContentInv
<1>6. ErrorInv'
  <2>1. ended' => info' = err /\ \A t \in Thread : pc[t] = "exit"
    BY DEF EndRegion, vars, caller, FailureInv, ErrorInv
  <2>2. QED BY <1>1, <2>1 DEF FailureInv, ErrorInv, Final, shared, locals
<1>7. FirstInv' BY <1>1 DEF FailureInv, FirstInv, Final, Intact, shared
<1>8. QED BY <1>2, <1>3, <1>4, <1>5, <1>6, <1>7 DEF FailureInv

LEMMA FailureStep == FailureInv /\ [Next]_vars => FailureInv'
<1> SUFFICES ASSUME FailureInv, [Next]_vars PROVE FailureInv' OBVIOUS
<1>1. ASSUME NEW t \in Thread, Work(t) PROVE FailureInv'
  <2>1. ClaimInv' BY <1>1, TypeStep, ChosenStep, OwnerStep, ReadyStep DEF FailureInv, ClaimInv
  <2>2. QED
    BY <1>1, <2>1, HistoryStep, LengthStep, ContentStep, ErrorStep, FirstStep DEF FailureInv
<1>2. CASE EndRegion \/ UNCHANGED vars BY <1>2, FailureRest
<1>3. QED BY <1>1, <1>2 DEF Next, Returned

(* Whichever thread fails first in time, the failure that is recorded and  *)
(* returned is that of the first panel that is not positive definite, and  *)
(* all tiles in front of it are those of the factor.                       *)
THEOREM FirstFailureReported == Spec => []FirstFailure
<1>1. FailureInv => FirstFailure BY DEF FailureInv, ErrorInv, FirstInv, FirstFailure
<1>2. QED BY FailureInit, FailureStep, <1>1, PTL DEF Spec

-----------------------------------------------------------------------------
(* The tiles are counted when they are final.                              *)

(* Induction on the order as the least counterexample.                     *)
LEMMA LeastNat ==
  ASSUME NEW S, S \subseteq Nat, S # {}
  PROVE  \E c \in S : \A d \in S : c <= d
<1> DEFINE Less == {e \in Nat \X Nat : e[1] < e[2]}
<1>1. IsWellFoundedOn(Less, Nat)
  BY NatLessThanWellFounded DEF OpToRel
<1>2. \A a \in Nat, b \in Nat : a < b => <<a, b>> \in Less
  OBVIOUS
<1> HIDE DEF Less
<1>3. PICK c \in S : \A d \in S : <<d, c>> \notin Less
  BY <1>1, WFMin
<1>4. \A d \in S : c <= d
  <2> SUFFICES ASSUME NEW d \in S, ~(c <= d) PROVE FALSE
    OBVIOUS
  <2>1. c \in Nat /\ d \in Nat
    OBVIOUS
  <2>2. d < c
    BY <2>1
  <2> QED
    BY <1>2, <1>3, <2>1, <2>2
<1> QED
  BY <1>4

Triangle(a) == {x \in Nat \X Nat : x[1] <= x[2] /\ x[2] < a}

(* A triangle gets its last column, which has as many tiles as the order.  *)
LEMMA TriangleGrows ==
  ASSUME NEW a \in Nat, IsFiniteSet(Triangle(a))
  PROVE  /\ IsFiniteSet(Triangle(a + 1))
         /\ Cardinality(Triangle(a + 1)) = Cardinality(Triangle(a)) + a + 1
<1> DEFINE last == {x \in Nat \X Nat : x[1] <= x[2] /\ x[2] = a}
           f == [i \in 0..a |-> <<i, a>>]
<1>1. Triangle(a + 1) = Triangle(a) \cup last /\ Triangle(a) \cap last = {}
  BY DEF Triangle
<1>2. f \in Bijection(0..a, last)
  <2>1. \A i \in 0..a : <<i, a>> \in last
    OBVIOUS
  <2>2. ASSUME NEW x \in last PROVE x[1] \in 0..a /\ x = <<x[1], a>>
    BY <2>2
  <2>3. f \in [0..a -> last] /\ \A x \in last : x[1] \in 0..a /\ f[x[1]] = x
    BY <2>1, <2>2
  <2>4. \A i \in 0..a, j \in 0..a : f[i] = f[j] => i = j
    OBVIOUS
  <2> HIDE DEF f, last
  <2>5. f \in Injection(0..a, last)
    BY <2>3, <2>4 DEF Injection, IsInjective
  <2>6. f \in Surjection(0..a, last)
    BY <2>3 DEF Surjection
  <2> QED
    BY <2>5, <2>6 DEF Bijection
<1>3. IsFiniteSet(0..a) /\ Cardinality(0..a) = a + 1
  BY FS_Interval
<1>4. IsFiniteSet(last) /\ Cardinality(last) = a + 1
  <2>1. ExistsBijection(0..a, last)
    BY <1>2 DEF ExistsBijection
  <2> QED
    BY <1>3, <2>1, FS_Bijection
<1>5. /\ IsFiniteSet(Triangle(a) \cup last)
      /\ Cardinality(Triangle(a) \cup last)
           = Cardinality(Triangle(a)) + (a + 1) - Cardinality(Triangle(a) \cap last)
  BY <1>4, FS_Union
<1>6. Cardinality(Triangle(a) \cap last) = 0
  BY <1>1, FS_EmptySet
<1>7. PICK z \in Nat : z = Cardinality(Triangle(a))
  BY FS_CardinalityType
<1> HIDE DEF last
<1>8. Cardinality(Triangle(a) \cup last) = z + (a + 1) - 0
  BY <1>5, <1>6, <1>7
<1>9. z + (a + 1) - 0 = z + a + 1
  OBVIOUS
<1> QED
  BY <1>1, <1>5, <1>7, <1>8, <1>9

LEMMA TriangleCount ==
  ASSUME NEW a \in Nat
  PROVE  IsFiniteSet(Triangle(a)) /\ 2 * Cardinality(Triangle(a)) = a * (a + 1)
<1> DEFINE Counts(b) == IsFiniteSet(Triangle(b)) /\ 2 * Cardinality(Triangle(b)) = b * (b + 1)
           S == {b \in Nat : ~Counts(b)}
<1> SUFFICES ASSUME S # {} PROVE FALSE
  OBVIOUS
<1>1. PICK c \in S : \A d \in S : c <= d
  <2>1. S \subseteq Nat
    OBVIOUS
  <2> HIDE DEF S
  <2> QED
    BY <2>1, LeastNat
<1>2. c # 0
  <2>1. Triangle(0) = {}
    BY DEF Triangle
  <2>2. IsFiniteSet(Triangle(0)) /\ Cardinality(Triangle(0)) = 0
    BY <2>1, FS_EmptySet
  <2>3. 2 * 0 = 0 * (0 + 1)
    OBVIOUS
  <2>4. Counts(0)
    BY <2>2, <2>3
  <2> QED
    BY <2>4
<1>3. PICK b \in Nat : c = b + 1
  <2>1. c \in Nat /\ c - 1 \in Nat /\ c = (c - 1) + 1
    BY <1>2
  <2> QED
    BY <2>1
<1>4. Counts(b)
  <2>1. b \notin S
    <3> SUFFICES ASSUME b \in S PROVE FALSE
      OBVIOUS
    <3>1. c <= b
      BY <1>1
    <3> QED
      BY <1>3, <3>1
  <2> QED
    BY <2>1
<1>5. /\ IsFiniteSet(Triangle(b + 1))
      /\ Cardinality(Triangle(b + 1)) = Cardinality(Triangle(b)) + b + 1
  BY <1>4, TriangleGrows
<1>6. PICK z \in Nat : z = Cardinality(Triangle(b))
  BY <1>4, FS_CardinalityType
<1>7. 2 * (z + b + 1) = (b + 1) * ((b + 1) + 1)
  <2>1. 2 * z = b * (b + 1)
    BY <1>4, <1>6
  <2>2. (b + 1) * ((b + 1) + 1) = b * (b + 1) + 2 * (b + 1)
    OBVIOUS
  <2> QED
    BY <2>1, <2>2
<1>8. Counts(b + 1)
  BY <1>5, <1>6, <1>7
<1> QED
  BY <1>3, <1>8

LEMMA TotalIsAll == IsFiniteSet(Tile) /\ Cardinality(Tile) = Total
<1>1. Tile = Triangle(NT)
  BY TilesAssumption DEF Tile, Panel, Triangle
<1>2. IsFiniteSet(Tile) /\ 2 * Cardinality(Tile) = NT * (NT + 1)
  BY <1>1, TriangleCount, TilesAssumption
<1>3. PICK z \in Nat : z = Cardinality(Tile)
  BY <1>2, FS_CardinalityType
<1>4. (2 * z) \div 2 = z
  OBVIOUS
<1> QED
  BY <1>2, <1>3, <1>4 DEF Total

FinalTiles == {x \in Tile : Final(x)}
Counters == {t \in Thread : pc[t] = "count"}

(* Every final tile is counted or its owner is about to count it, ...      *)
CountInv == done + Cardinality(Counters) = Cardinality(FinalTiles)

(* ... so a thread that leaves without an error leaves all tiles final.    *)
ExitInv == \A t \in Thread : pc[t] = "exit" => err # 0 \/ FinalTiles = Tile

LEMMA CountersAreFinite == IsFiniteSet(Counters) /\ Cardinality(Counters) \in Nat
<1>1. IsFiniteSet(Thread)
  BY FS_Interval, TilesAssumption DEF Thread
<1>2. Counters \in SUBSET Thread
  BY DEF Counters
<1> QED
  BY <1>1, <1>2, FS_Subset, FS_CardinalityType

LEMMA FinalsAreFinite == IsFiniteSet(FinalTiles) /\ Cardinality(FinalTiles) \in Nat
<1>1. FinalTiles \in SUBSET Tile
  BY DEF FinalTiles
<1> QED
  BY <1>1, TotalIsAll, FS_Subset, FS_CardinalityType

LEMMA AllCounted ==
  ASSUME TypeOK, CountInv, done >= Total
  PROVE  FinalTiles = Tile
<1>1. FinalTiles \in SUBSET Tile
  BY DEF FinalTiles
<1>2. Cardinality(FinalTiles) <= Cardinality(Tile) /\ Cardinality(Tile) \in Nat
  BY <1>1, TotalIsAll, FS_Subset, FS_CardinalityType
<1>3. done \in Nat /\ Cardinality(Counters) \in Nat /\ Cardinality(FinalTiles) \in Nat
  BY CountersAreFinite, FinalsAreFinite DEF TypeOK
<1>4. Cardinality(FinalTiles) = Cardinality(Tile)
  BY <1>2, <1>3, TotalIsAll DEF CountInv
<1> QED
  BY <1>1, <1>4, TotalIsAll, FS_Subset

(* What a step does to the final tiles and to those who count them.        *)
CountsOne(t) ==
  /\ pc[t] = "count" /\ pc'[t] # "count" /\ done' = done + 1 /\ step' = step
Finalises(t) ==
  /\ pc[t] = "publish" /\ pc'[t] = "count" /\ done' = done
  /\ seen[t] = tile[t][1] /\ Publishes(t)
CountsNone(t) ==
  /\ pc[t] # "count" /\ pc'[t] # "count" /\ done' = done
  /\ Publishes(t) => seen[t] # tile[t][1]

LEMMA WorkCounts ==
  ASSUME ClaimInv, NEW t \in Thread, Work(t)
  PROVE  CountsOne(t) \/ Finalises(t) \/ CountsNone(t)
<1>1. TypeOK /\ LocalsType
  BY TypeParts DEF ClaimInv
<1>2. CASE CountTile(t)
  BY <1>1, <1>2 DEF CountTile, Goto, LocalsType, CountsOne
<1>3. CASE Publish(t) /\ seen[t] = tile[t][1]
  <2>1. Publishes(t)
    BY <1>1, <1>3, PublishDoes
  <2> QED
    BY <1>1, <1>3, <2>1 DEF Publish, Goto, LocalsType, Finalises
<1>4. CASE Publish(t) /\ seen[t] # tile[t][1]
  <2>1. pc'[t] = "err" /\ pc[t] = "publish" /\ done' = done
    BY <1>1, <1>4 DEF Publish, Rescan, Move, Restart, Place, LocalsType
  <2> QED
    BY <1>4, <2>1 DEF CountsNone
<1>5. CASE ~CountTile(t) /\ ~Publish(t)
  <2>1. pc[t] \notin {"count", "publish"} /\ done' = done
    BY <1>5 DEF Work, CheckError, CheckTotal, SkipPanels, LookAtDiagonal, LookAtPanel, LookAtRow,
       LoadStep, CheckReady, Claim, Execute, RecordError, Publish, CountTile, CountColumn, shared
  <2>2. pc'[t] # "count"
    <3>1. CASE CheckError(t)
      BY <1>1, <3>1 DEF CheckError, Goto, LocalsType
    <3>2. CASE CheckTotal(t)
      BY <1>1, <3>2 DEF CheckTotal, Goto, LocalsType
    <3>3. CASE SkipPanels(t) /\ UNCHANGED pc
      BY <2>1, <3>3
    <3>4. CASE SkipPanels(t) /\ ~UNCHANGED pc
      <4>1. Move(t, NextDiagonal(t, column[t], column[t]))
        BY <3>4 DEF SkipPanels
      <4>2. PlaceOK(NextDiagonal(t, column[t], column[t]))
        BY <1>1, TilesAssumption, NextDiagonalIsOK DEF LocalsType
      <4> QED
        BY <1>1, <4>1, <4>2 DEF Move, PlaceOK, LocalsType
    <3>5. CASE LookAtDiagonal(t)
      <4>1. \/ Move(t, NextInPanel(t, column[t], tile[t][1], 0))
            \/ Move(t, NextRow(t, column[t], 0))
        BY <3>5 DEF LookAtDiagonal
      <4>2. PlaceOK(NextInPanel(t, column[t], tile[t][1], 0)) /\ PlaceOK(NextRow(t, column[t], 0))
        BY <1>1, ScanFacts, NextInPanelIsOK, NextRowIsOK
      <4> QED
        BY <1>1, <4>1, <4>2 DEF Move, PlaceOK, LocalsType
    <3>6. CASE LookAtPanel(t)
      <4>1. \/ Move(t, NextInPanel(t, column[t], tile[t][1], n[t] + 1))
            \/ Goto(t, "load")
        BY <3>6 DEF LookAtPanel
      <4>2. PlaceOK(NextInPanel(t, column[t], tile[t][1], n[t] + 1))
        BY <1>1, ScanFacts, NextInPanelIsOK
      <4> QED
        BY <1>1, <4>1, <4>2 DEF Move, Goto, PlaceOK, LocalsType
    <3>7. CASE LookAtRow(t)
      <4>1. \/ Move(t, NextInRow(t, column[t], tile[t][1], tile[t][2] + 1, n[t]))
            \/ Goto(t, "load")
        BY <3>7 DEF LookAtRow
      <4>2. PlaceOK(NextInRow(t, column[t], tile[t][1], tile[t][2] + 1, n[t]))
        BY <1>1, ScanFacts, NextInRowIsOK
      <4> QED
        BY <1>1, <4>1, <4>2 DEF Move, Goto, PlaceOK, LocalsType
    <3>8. CASE LoadStep(t) \/ CheckReady(t) \/ Claim(t)
      <4>1. \/ Rescan(t, AfterFailedTry(t)) \/ Goto(t, "claim") \/ Goto(t, "ready")
            \/ Goto(t, "execute") \/ UNCHANGED pc
        BY <3>8 DEF LoadStep, CheckReady, Claim
      <4>2. PlaceOK(AfterFailedTry(t))
        BY <1>1, AfterFailedTryIsOK
      <4> QED
        BY <1>1, <2>1, <4>1, <4>2 DEF Rescan, Move, Goto, PlaceOK, LocalsType
    <3>9. CASE Execute(t) \/ RecordError(t)
      BY <1>1, <3>9 DEF Execute, RecordError, Goto, LocalsType
    <3>10. CASE CountColumn(t)
      BY <1>1, <3>10 DEF CountColumn, Rescan, Move, Restart, Place, LocalsType
    <3> QED
      BY <1>5, <3>1, <3>2, <3>3, <3>4, <3>5, <3>6, <3>7, <3>8, <3>9, <3>10 DEF Work
  <2>3. ~Publishes(t)
    BY <2>1 DEF Publishes
  <2> QED
    BY <2>1, <2>2, <2>3 DEF CountsNone
<1> QED
  BY <1>2, <1>3, <1>4, <1>5

LEMMA CountStep ==
  ASSUME ClaimInv, CountInv, NEW t \in Thread, Work(t)
  PROVE  CountInv'
<1>1. \A u \in Thread : u # t => pc'[u] = pc[u]
  BY OthersStay DEF ClaimInv
<1>2. IsFiniteSet(Counters) /\ Cardinality(Counters) \in Nat /\ done \in Nat
      /\ IsFiniteSet(FinalTiles) /\ Cardinality(FinalTiles) \in Nat
  BY CountersAreFinite, FinalsAreFinite DEF ClaimInv, TypeOK
<1>3. CASE CountsOne(t)
  <2>1. Counters' = Counters \ {t} /\ t \in Counters
    BY <1>1, <1>3 DEF Counters, CountsOne
  <2>2. Cardinality(Counters') = Cardinality(Counters) - 1
    BY <1>2, <2>1, FS_RemoveElement
  <2>3. FinalTiles' = FinalTiles /\ done' = done + 1
    BY <1>3 DEF FinalTiles, Final, CountsOne
  <2> QED
    BY <1>2, <2>2, <2>3 DEF CountInv
<1>4. CASE Finalises(t)
  <2> DEFINE x == tile[t]
  <2>1. /\ x \in Tile /\ seen[t] = x[1] /\ step' = [step EXCEPT ![x] = seen[t] + 1] /\ Owns(t)
        /\ step \in [Tile -> 0..(BUSY + NT)] /\ x[1] \in Nat /\ x[1] < NT
    BY <1>4, TileHas, TilesAssumption, SMTT(30) DEF Finalises, Publishes, ClaimInv, TypeOK, Owns
  <2>2. step[x] = seen[t] + BUSY
    BY <2>1 DEF ClaimInv, OwnerInv
  <2>3. ~Final(x)
    BY <2>1, <2>2, TilesAssumption DEF Final
  <2>4. FinalTiles' = FinalTiles \cup {x} /\ x \notin FinalTiles
    <3> HIDE DEF x
    <3>1. \A y \in Tile : step'[y] = IF y = x THEN x[1] + 1 ELSE step[y]
      BY <2>1
    <3> QED
      BY <2>1, <2>3, <3>1 DEF FinalTiles, Final
  <2>5. Counters' = Counters \cup {t} /\ t \notin Counters
    BY <1>1, <1>4 DEF Counters, Finalises
  <2>6. Cardinality(Counters') = Cardinality(Counters) + 1
    BY <1>2, <2>5, FS_AddElement
  <2>7. Cardinality(FinalTiles') = Cardinality(FinalTiles) + 1
    <3> HIDE DEF x
    <3> QED
      BY <1>2, <2>4, FS_AddElement
  <2> QED
    BY <1>2, <1>4, <2>6, <2>7 DEF CountInv, Finalises
<1>5. CASE CountsNone(t)
  <2>1. Counters' = Counters /\ done' = done
    BY <1>1, <1>5 DEF Counters, CountsNone
  <2>2. ASSUME NEW x \in Tile PROVE Final(x)' <=> Final(x)
    <3>1. x[1] \in Nat /\ x[1] < NT
      BY TileHas, TilesAssumption
    <3>2. CASE step'[x] = step[x]
      BY <3>2 DEF Final
    <3>3. CASE /\ step[x] = seen[t] /\ step'[x] = seen[t] + BUSY
               /\ seen[t] \in Nat /\ seen[t] <= x[1]
      BY <3>1, <3>3, TilesAssumption DEF Final
    <3>4. CASE /\ Publishes(t) /\ x = tile[t] /\ step[x] = seen[t] + BUSY
               /\ step'[x] = seen[t] + 1 /\ seen[t] \in Nat /\ seen[t] <= x[1]
      BY <1>5, <3>1, <3>4, TilesAssumption DEF Final, CountsNone
    <3> QED
      BY <3>2, <3>3, <3>4, TileStep
  <2>3. FinalTiles' = FinalTiles
    BY <2>2 DEF FinalTiles
  <2> QED
    BY <2>1, <2>3 DEF CountInv
<1> QED
  BY <1>3, <1>4, <1>5, WorkCounts

LEMMA FinalTilesStay ==
  ASSUME ClaimInv, NEW t \in Thread, Work(t)
  PROVE  FinalTiles = Tile => FinalTiles' = Tile
<1>1. \A x \in Tile : Final(x) => Final(x)'
  BY FinalStays DEF ClaimInv
<1> QED
  BY <1>1 DEF FinalTiles

LEMMA ErrorStays ==
  ASSUME ClaimInv, NEW t \in Thread, Work(t)
  PROVE  err # 0 => err' # 0
BY ErrorChange

(* Only a thread that finds an error or all tiles counted leaves.          *)
LEMMA OnlyChecksExit ==
  ASSUME ClaimInv, NEW t \in Thread, Work(t), pc'[t] = "exit"
  PROVE  CheckError(t) \/ CheckTotal(t)
<1> SUFFICES ASSUME ~CheckError(t), ~CheckTotal(t) PROVE FALSE
  OBVIOUS
<1>0. TypeOK /\ LocalsType
  BY TypeParts DEF ClaimInv
<1>1. pc[t] # "exit"
  BY DEF Work, CheckError, CheckTotal, SkipPanels, LookAtDiagonal, LookAtPanel, LookAtRow,
    LoadStep, CheckReady, Claim, Execute, RecordError, Publish, CountTile, CountColumn
<1>2. UNCHANGED pc \/ \E label \in Label \ {"exit"} : pc' = [pc EXCEPT ![t] = label]
  <2>1. PlaceOK(AfterFailedTry(t)) /\ PlaceOK(Restart)
    BY <1>0, AfterFailedTryIsOK, RestartIsOK
  <2>2. PlaceOK(NextDiagonal(t, column[t], column[t]))
    BY <1>0, TilesAssumption, NextDiagonalIsOK DEF LocalsType
  <2>3. /\ PlaceOK(NextInPanel(t, column[t], tile[t][1], 0))
        /\ PlaceOK(NextInPanel(t, column[t], tile[t][1], n[t] + 1))
        /\ PlaceOK(NextRow(t, column[t], 0))
        /\ PlaceOK(NextInRow(t, column[t], tile[t][1], tile[t][2] + 1, n[t]))
    BY <1>0, ScanFacts, NextInPanelIsOK, NextRowIsOK, NextInRowIsOK
  <2>4. \A p : PlaceOK(p) /\ Move(t, p) =>
          \E label \in Label \ {"exit"} : pc' = [pc EXCEPT ![t] = label]
    BY DEF PlaceOK, Move, Label
  <2>5. \A label \in Label \ {"exit"} : Goto(t, label) =>
          \E l \in Label \ {"exit"} : pc' = [pc EXCEPT ![t] = l]
    BY DEF Goto
  <2> DEFINE Moved == \E label \in Label \ {"exit"} : pc' = [pc EXCEPT ![t] = label]
  <2> HIDE DEF Moved
  <2>6. \A p : PlaceOK(p) /\ Rescan(t, p) => Moved
    BY <2>4 DEF Rescan, Moved
  <2>7. /\ \A p : PlaceOK(p) /\ Move(t, p) => Moved
        /\ \A label \in {"load", "ready", "claim", "execute", "error", "publish", "count", "column"} :
             Goto(t, label) => Moved
    BY <2>4, <2>5 DEF Moved, Label
  <2>8. CASE SkipPanels(t) \/ LookAtDiagonal(t) \/ LookAtPanel(t) \/ LookAtRow(t)
    <3>1. SkipPanels(t) => UNCHANGED pc \/ Moved
      BY <2>2, <2>7 DEF SkipPanels
    <3>2. LookAtDiagonal(t) => Moved
      BY <2>3, <2>7 DEF LookAtDiagonal
    <3>3. LookAtPanel(t) => Moved
      BY <2>3, <2>7 DEF LookAtPanel
    <3>4. LookAtRow(t) => Moved
      BY <2>3, <2>7 DEF LookAtRow
    <3> QED
      BY <2>8, <3>1, <3>2, <3>3, <3>4 DEF Moved
  <2>9. CASE LoadStep(t) \/ CheckReady(t) \/ Claim(t)
    <3>1. LoadStep(t) => Moved
      BY <2>1, <2>6, <2>7 DEF LoadStep
    <3>2. CheckReady(t) => UNCHANGED pc \/ Moved
      BY <2>1, <2>6, <2>7 DEF CheckReady
    <3>3. Claim(t) => Moved
      BY <2>1, <2>6, <2>7 DEF Claim
    <3> QED
      BY <2>9, <3>1, <3>2, <3>3 DEF Moved
  <2>10. CASE Execute(t) \/ RecordError(t) \/ CountTile(t)
    <3>1. Execute(t) => Moved
      BY <2>7 DEF Execute
    <3>2. RecordError(t) => Moved
      BY <2>7 DEF RecordError
    <3>3. CountTile(t) => Moved
      BY <2>7 DEF CountTile
    <3> QED
      BY <2>10, <3>1, <3>2, <3>3 DEF Moved
  <2>11. CASE Publish(t) \/ CountColumn(t)
    <3>1. Publish(t) => Moved
      BY <2>1, <2>6, <2>7 DEF Publish
    <3>2. CountColumn(t) => Moved
      BY <2>1, <2>6 DEF CountColumn
    <3> QED
      BY <2>11, <3>1, <3>2 DEF Moved
  <2> QED
    BY <2>8, <2>9, <2>10, <2>11 DEF Work
<1> QED
  BY <1>0, <1>1, <1>2 DEF LocalsType

LEMMA ExitStep ==
  ASSUME ClaimInv, CountInv, ExitInv, NEW t \in Thread, Work(t)
  PROVE  ExitInv'
<1>1. \A u \in Thread : u # t => pc'[u] = pc[u]
  BY OthersStay DEF ClaimInv
<1>2. (err # 0 => err' # 0) /\ (FinalTiles = Tile => FinalTiles' = Tile)
  BY ErrorStays, FinalTilesStay
<1>3. ASSUME pc'[t] = "exit" PROVE err # 0 \/ FinalTiles = Tile
  <2>1. TypeOK /\ LocalsType
    BY TypeParts DEF ClaimInv
  <2>2. CASE CheckError(t)
    BY <1>3, <2>1, <2>2 DEF CheckError, Goto, LocalsType
  <2>3. CASE CheckTotal(t)
    <3>1. done >= Total
      BY <1>3, <2>1, <2>3 DEF CheckTotal, Goto, LocalsType
    <3> QED
      BY <2>1, <3>1, AllCounted
  <2> QED
    BY <1>3, <2>2, <2>3, OnlyChecksExit
<1> QED
  BY <1>1, <1>2, <1>3 DEF ExitInv

WholeInv == FailureInv /\ CountInv /\ ExitInv

LEMMA WholeInit == Init => WholeInv
<1> SUFFICES ASSUME Init PROVE WholeInv
  OBVIOUS
<1>1. FailureInv
  BY FailureInit
<1>2. Counters = {} /\ ExitInv /\ done = 0
  BY DEF Init, Counters, ExitInv
<1>3. FinalTiles = {}
  BY TileHas DEF Init, FinalTiles, Final
<1> QED
  BY <1>1, <1>2, <1>3, FS_EmptySet DEF WholeInv, CountInv

LEMMA WholeStep == WholeInv /\ [Next]_vars => WholeInv'
<1> SUFFICES ASSUME WholeInv, [Next]_vars PROVE WholeInv'
  OBVIOUS
<1>1. FailureInv'
  BY FailureStep DEF WholeInv
<1>2. ASSUME NEW t \in Thread, Work(t) PROVE CountInv' /\ ExitInv'
  BY <1>2, CountStep, ExitStep DEF WholeInv, FailureInv
<1>3. CASE EndRegion \/ UNCHANGED vars
  <2>1. UNCHANGED <<shared, locals>>
    BY <1>3 DEF EndRegion, vars
  <2>2. FinalTiles' = FinalTiles /\ Counters' = Counters
    BY <2>1 DEF FinalTiles, Counters, Final, shared, locals
  <2>3. done' = done /\ err' = err /\ pc' = pc
    BY <2>1 DEF shared, locals
  <2>4. CountInv' /\ ExitInv'
    BY <2>2, <2>3 DEF WholeInv, CountInv, ExitInv
  <2> QED
    BY <1>1, <2>4 DEF WholeInv
<1> QED
  BY <1>1, <1>2, <1>3 DEF Next, Returned, WholeInv

(* A factorisation that returns without an error has no bad panel, and its *)
(* tiles are those of the sequential factorisation: the threads leave only *)
(* when the count of final tiles says that all of the triangle are.        *)
THEOREM FactorIsRight == Spec => []Factored
<1>1. WholeInv => Factored
  <2> SUFFICES ASSUME WholeInv, ended, info = 0
               PROVE  bad = {} /\ \A x \in Tile : Intact(x)
    BY DEF Factored
  <2>1. err = 0 /\ \A t \in Thread : pc[t] = "exit"
    BY DEF WholeInv, FailureInv, ErrorInv
  <2>2. 0 \in Thread
    BY TilesAssumption DEF Thread
  <2>3. FinalTiles = Tile
    BY <2>1, <2>2 DEF WholeInv, ExitInv
  <2>4. bad = {}
    <3> SUFFICES ASSUME NEW i \in bad PROVE FALSE
      OBVIOUS
    <3>1. i \in Nat /\ i < NT
      BY TilesAssumption DEF WholeInv, FailureInv, ClaimInv, TypeOK, Panel
    <3>2. <<i, i>> \in Tile
      BY <3>1, TileOf
    <3>3. Final(<<i, i>>)
      BY <2>3, <3>2 DEF FinalTiles
    <3> QED
      BY <2>1, <3>3 DEF WholeInv, FailureInv, ErrorInv
  <2>5. ASSUME NEW x \in Tile PROVE Intact(x)
    BY <2>3, <2>4, FinalIsIntact DEF FinalTiles, WholeInv, FailureInv
  <2> QED
    BY <2>4, <2>5
<1>2. QED
  BY WholeInit, WholeStep, <1>1, PTL DEF Spec

-----------------------------------------------------------------------------
(* The threads execute the operations as a scheduler of tasks.             *)

Started(o) == IF o[2] < Reached(o[1]) THEN "done"
              ELSE IF step[o[1]] = BUSY + o[2] THEN "running" ELSE "waiting"
Left == err = 0 /\ \E t \in Thread : pc[t] = "exit"

LEMMA OpHas ==
  ASSUME NEW o \in Op
  PROVE  /\ o = <<o[1], o[2]>> /\ o[1] \in Tile /\ o[1] = <<o[1][1], o[1][2]>>
         /\ o[2] \in Panel /\ o[2] \in Nat /\ o[2] < NT /\ o[2] <= o[1][1]
         /\ o[1][1] \in Nat /\ o[1][1] < NT /\ o[1][2] \in Nat /\ o[1][1] <= o[1][2]
<1>1. o \in Tile \X Panel /\ o[2] <= o[1][1]
  BY DEF Op
<1>2. o = <<o[1], o[2]>> /\ o[1] \in Tile /\ o[2] \in Panel
  BY <1>1
<1>3. o[2] \in Nat /\ o[2] < NT
  BY <1>2, TilesAssumption DEF Panel
<1>4. /\ o[1] = <<o[1][1], o[1][2]>> /\ o[1][1] \in Nat /\ o[1][2] \in Nat
      /\ o[1][1] <= o[1][2] /\ o[1][2] < NT
  BY <1>2, TileHas
<1>5. o[1][1] < NT
  BY <1>4, TilesAssumption
<1> QED
  BY <1>1, <1>2, <1>3, <1>4, <1>5

LEMMA FinalIsDone ==
  ASSUME SharedType, NEW o \in Op, Final(o[1])
  PROVE  Started(o) = "done"
<1>1. o[1] \in Tile /\ o[2] <= o[1][1] /\ o[2] \in Nat /\ o[1][1] \in Nat
  BY OpHas
<1>2. Reached(o[1]) = o[1][1] + 1
  BY <1>1, ReachedFacts, TilesAssumption DEF Final
<1> QED
  BY <1>1, <1>2 DEF Started

(* What an operation depends on lies on its own tile or is a producer that *)
(* its thread has found final: an earlier operation on another tile does   *)
(* not read the tile it writes.                                            *)
LEMMA DependsOnInputs ==
  ASSUME NEW p \in Op, NEW o \in Dependences[p]
  PROVE  /\ o \in Op
         /\ \/ o[1] = p[1] /\ o[2] < p[2]
            \/ \E q \in DOMAIN Inputs(p[1], p[2]) : o[1] = Inputs(p[1], p[2])[q]
<1>1. o \in Op /\ Before(o, p) /\ Conflict(o, p)
  BY DEF Dependences
<1> DEFINE x == p[1]
           s == p[2]
           y == o[1]
           r == o[2]
<1>2. /\ x = <<x[1], x[2]>> /\ s \in Nat /\ s <= x[1] /\ x[1] \in Nat /\ x[2] \in Nat /\ x[1] <= x[2]
      /\ y = <<y[1], y[2]>> /\ r \in Nat /\ r <= y[1] /\ y[1] \in Nat /\ y[2] \in Nat /\ y[1] <= y[2]
  BY <1>1, OpHas
<1>3. r < s \/ (r = s /\ Rank(o) < Rank(p))
  BY <1>1 DEF Before
<1>4. Rank(o) \in {0, 1, 2} /\ Rank(p) \in {0, 1, 2}
  BY DEF Rank
<1>5. CASE Target(o) = Target(p)
  <2>1. y = x
    BY <1>5 DEF Target
  <2>2. r = s => Rank(o) = Rank(p)
    BY <2>1 DEF Rank
  <2>3. r < s
    <3> HIDE DEF x, y, r, s
    <3> QED
      BY <1>2, <1>3, <1>4, <2>2
  <2> QED
    BY <1>1, <2>1, <2>3
<1>6. CASE Target(o) \in Sources(p)
  <2>1. CASE s < x[1]
    <3>1. y = <<s, x[1]>> \/ y = <<s, x[2]>>
      BY <1>6, <2>1 DEF Target, Sources
    <3>2. CASE x[1] = x[2]
      <4>1. Inputs(x, s) = << <<s, x[1]>> >>
        BY <2>1, <3>2 DEF Inputs
      <4>2. y = <<s, x[1]>>
        BY <3>1, <3>2
      <4>3. 1 \in DOMAIN Inputs(x, s) /\ Inputs(x, s)[1] = y
        BY <4>1, <4>2
      <4> QED
        BY <1>1, <4>3
    <3>3. CASE x[1] # x[2]
      <4>1. Inputs(x, s) = << <<s, x[1]>>, <<s, x[2]>> >>
        BY <2>1, <3>3 DEF Inputs
      <4>2. 1 \in DOMAIN Inputs(x, s) /\ 2 \in DOMAIN Inputs(x, s)
            /\ Inputs(x, s)[1] = <<s, x[1]>> /\ Inputs(x, s)[2] = <<s, x[2]>>
        BY <4>1
      <4> QED
        BY <1>1, <3>1, <4>2
    <3> QED
      BY <3>2, <3>3
  <2>2. CASE ~(s < x[1])
    <3>1. s = x[1]
      BY <1>2, <2>2
    <3>2. y = <<s, s>> /\ y # x
      BY <1>6, <2>2 DEF Target, Sources
    <3>3. x[1] # x[2]
      BY <1>2, <3>1, <3>2
    <3>4. Inputs(x, s) = << <<x[1], x[1]>> >>
      BY <2>2, <3>3 DEF Inputs
    <3>5. 1 \in DOMAIN Inputs(x, s) /\ Inputs(x, s)[1] = y
      BY <3>1, <3>2, <3>4
    <3> QED
      BY <1>1, <3>5
  <2> QED
    BY <2>1, <2>2
<1>7. CASE Target(p) \in Sources(o)
  <2>1. CASE r < y[1]
    <3>1. x = <<r, y[1]>> \/ x = <<r, y[2]>>
      BY <1>7, <2>1 DEF Target, Sources
    <3>2. x[1] = r
      BY <3>1
    <3>3. Rank(o) = 2
      BY <2>1 DEF Rank
    <3> HIDE DEF x, y, r, s
    <3> QED
      BY <1>2, <1>3, <1>4, <3>2, <3>3
  <2>2. CASE ~(r < y[1])
    <3>1. r = y[1]
      BY <1>2, <2>2
    <3>2. x = <<r, r>> /\ x # y
      BY <1>7, <2>2 DEF Target, Sources
    <3>3. x[1] = r /\ x[2] = r
      BY <3>2
    <3>4. s = r
      <4> HIDE DEF x, y, r, s
      <4> QED
        BY <1>2, <1>3, <3>3
    <3>5. Rank(p) = 0
      BY <1>2, <3>3, <3>4 DEF Rank
    <3> HIDE DEF x, y, r, s
    <3> QED
      BY <1>2, <1>3, <1>4, <3>4, <3>5
  <2> QED
    BY <2>1, <2>2
<1> QED
  BY <1>1, <1>5, <1>6, <1>7 DEF Conflict

LEMMA DependencesDone ==
  ASSUME ClaimInv, NEW t \in Thread, Owns(t) \/ pc[t] = "claim",
         NEW p \in Op, p[1] = tile[t], p[2] = seen[t], seen[t] <= Reached(tile[t]),
         NEW o \in Dependences[p]
  PROVE  Started(o) = "done"
<1>1. SharedType
  BY TypeParts DEF ClaimInv
<1>2. o \in Op
  BY DependsOnInputs
<1>3. CASE o[1] = p[1] /\ o[2] < p[2]
  <2>1. /\ o[2] \in Nat /\ seen[t] \in Nat /\ Reached(tile[t]) \in Nat
        /\ o[2] < seen[t] /\ o[1] = tile[t]
    BY <1>1, <1>2, <1>3, OpHas, ReachedFacts
  <2>2. o[2] < Reached(o[1])
    BY <2>1
  <2> QED
    BY <2>2 DEF Started
<1>4. CASE \E q \in DOMAIN Inputs(p[1], p[2]) : o[1] = Inputs(p[1], p[2])[q]
  <2>1. Final(o[1])
    BY <1>4 DEF ClaimInv, ReadyInv
  <2> QED
    BY <1>1, <1>2, <2>1, FinalIsDone
<1> QED
  BY <1>3, <1>4, DependsOnInputs

(* A step of a thread starts or finishes the operation of its claim, or    *)
(* changes the state of none.                                              *)
LEMMA StepStarts ==
  ASSUME ClaimInv, NEW t \in Thread, Work(t)
  PROVE  \/ \A o \in Op : Started(o)' = Started(o)
         \/ \E p \in Op :
              /\ \/ /\ Claims(t) /\ Started(p) = "waiting" /\ Started(p)' = "running"
                    /\ \A o \in Dependences[p] : Started(o) = "done"
                 \/ Publishes(t) /\ Started(p) = "running" /\ Started(p)' = "done"
              /\ \A o \in Op : o # p => Started(o)' = Started(o)
<1>0. /\ SharedType /\ tile[t] \in Tile /\ seen[t] \in Panel
      /\ step \in [Tile -> 0..(BUSY + NT)]
  BY TypeParts DEF ClaimInv, TypeOK
<1>1. PICK x \in Tile, s \in Panel : x = tile[t] /\ s = seen[t] /\ s \in Nat
  BY <1>0, TilesAssumption DEF Panel
<1> DEFINE p == <<x, s>>
<1>2. CASE step' = step
  BY <1>2 DEF Started, Reached, Claimed
<1>3. CASE Claims(t)
  <2>1. /\ pc[t] = "claim" /\ step[x] = s /\ step'[x] = s + BUSY
        /\ \A y \in Tile : y # x => step'[y] = step[y]
    BY <1>0, <1>1, <1>3 DEF Claims
  <2>2. s <= x[1] /\ p \in Op
    BY <1>1, <2>1 DEF ClaimInv, ChosenInv, Chosen, Op
  <2>3. x[1] \in Nat /\ x[1] < NT
    BY <1>1, TileHas, TilesAssumption
  <2>4. Reached(x) = s /\ Reached(x)' = s
    BY <1>1, <2>1, <2>2, <2>3, TilesAssumption DEF Reached, Claimed
  <2>5. Started(p) = "waiting"
    BY <1>1, <2>1, <2>2, <2>4, TilesAssumption DEF Started
  <2>6. Started(p)' = "running"
    BY <1>1, <2>1, <2>4, TilesAssumption DEF Started
  <2>7. ASSUME NEW o \in Op, o # p PROVE Started(o)' = Started(o)
    <3>1. o = <<o[1], o[2]>> /\ o[1] \in Tile /\ o[2] \in Nat /\ o[2] < NT
      BY OpHas
    <3>2. CASE o[1] = x
      <4>1. o[2] # s
        BY <2>7, <3>1, <3>2
      <4>2. step[x] # BUSY + o[2] /\ step'[x] # BUSY + o[2]
        BY <1>1, <2>1, <2>2, <2>3, <3>1, <4>1, TilesAssumption
      <4> QED
        BY <2>4, <3>2, <4>2 DEF Started
    <3>3. CASE o[1] # x
      BY <2>1, <3>1, <3>3 DEF Started, Reached, Claimed
    <3> QED
      BY <3>2, <3>3
  <2>8. ASSUME NEW o \in Dependences[p] PROVE Started(o) = "done"
    <3>1. p[1] = tile[t] /\ p[2] = seen[t] /\ seen[t] <= Reached(tile[t])
      BY <1>1, <2>4
    <3> HIDE DEF p
    <3> QED
      BY <2>1, <2>2, <2>8, <3>1, DependencesDone
  <2> QED
    BY <1>3, <2>2, <2>5, <2>6, <2>7, <2>8
<1>4. CASE Publishes(t)
  <2>1. /\ pc[t] = "publish" /\ step'[x] = s + 1 /\ \A y \in Tile : y # x => step'[y] = step[y]
    BY <1>0, <1>1, <1>4 DEF Publishes
  <2>2. s <= x[1] /\ p \in Op /\ step[x] = s + BUSY
    BY <1>1, <2>1 DEF ClaimInv, ChosenInv, OwnerInv, Chosen, Owns, Op
  <2>3. x[1] \in Nat /\ x[1] < NT
    BY <1>1, TileHas, TilesAssumption
  <2>4. Reached(x) = s /\ Reached(x)' = s + 1
    BY <1>1, <2>1, <2>2, <2>3, TilesAssumption DEF Reached, Claimed
  <2>5. Started(p) = "running"
    BY <1>1, <2>2, <2>4, TilesAssumption DEF Started
  <2>6. Started(p)' = "done"
    BY <1>1, <2>4, TilesAssumption DEF Started
  <2>7. ASSUME NEW o \in Op, o # p PROVE Started(o)' = Started(o)
    <3>1. o = <<o[1], o[2]>> /\ o[1] \in Tile /\ o[2] \in Nat /\ o[2] < NT
      BY OpHas
    <3>2. CASE o[1] = x
      <4>1. o[2] # s
        BY <2>7, <3>1, <3>2
      <4>2. /\ step[x] # BUSY + o[2] /\ step'[x] # BUSY + o[2]
            /\ (o[2] < s <=> o[2] < s + 1)
        BY <1>1, <2>1, <2>2, <2>3, <3>1, <4>1, TilesAssumption
      <4> QED
        BY <2>4, <3>2, <4>2 DEF Started
    <3>3. CASE o[1] # x
      BY <2>1, <3>1, <3>3 DEF Started, Reached, Claimed
    <3> QED
      BY <3>2, <3>3
  <2> QED
    BY <1>4, <2>2, <2>5, <2>6, <2>7
<1> QED
  BY <1>2, <1>3, <1>4, WorkDoes DEF ClaimInv, Scans, Loads, Checks, Executes, Records

(* Nobody has left without an error while a tile is claimed, and an error  *)
(* recorded is not taken back.                                             *)
LEMMA StepLeaves ==
  ASSUME WholeInv, WholeInv', NEW t \in Thread, Work(t)
  PROVE  /\ Left => Left'
         /\ Left' /\ ~Left => \A o \in Op : Started(o) = "done" /\ Started(o)' = "done"
         /\ Claims(t) \/ Publishes(t) => Left' = Left
<1>1. /\ ClaimInv /\ FailureInv /\ SharedType /\ ExitInv
      /\ ClaimInv' /\ SharedType' /\ ExitInv'
  BY TypeParts DEF WholeInv, FailureInv, ClaimInv, TypeOK, SharedType
<1>2. \A u \in Thread : u # t => pc'[u] = pc[u]
  BY <1>1, OthersStay DEF ClaimInv
<1>3. pc[t] # "exit"
  BY DEF Work, CheckError, CheckTotal, SkipPanels, LookAtDiagonal, LookAtPanel, LookAtRow,
    LoadStep, CheckReady, Claim, Execute, RecordError, Publish, CountTile, CountColumn
<1>4. err' = err \/ Records(t)
  BY <1>1, ErrorChange
<1>5. Left => ~Records(t)
  <2> SUFFICES ASSUME Left, Records(t) PROVE FALSE
    OBVIOUS
  <2>1. FinalTiles = Tile
    BY <1>1 DEF Left, ExitInv
  <2>2. tile[t] \in Tile /\ Owns(t)
    BY <1>1 DEF ClaimInv, TypeOK, Records, Owns
  <2>3. Final(tile[t])
    BY <2>1, <2>2 DEF FinalTiles
  <2>4. step[tile[t]] = seen[t] + BUSY /\ seen[t] \in Panel
    BY <1>1, <2>2 DEF ClaimInv, OwnerInv, TypeOK
  <2>5. tile[t][1] \in Nat /\ tile[t][1] < NT
    BY <2>2, TileHas, TilesAssumption
  <2> QED
    BY <2>3, <2>4, <2>5, TilesAssumption DEF Final, Panel
<1>6. Left => Left'
  BY <1>2, <1>3, <1>4, <1>5 DEF Left
<1>7. ASSUME Left', ~Left, NEW o \in Op PROVE Started(o) = "done" /\ Started(o)' = "done"
  <2>1. err' = 0 /\ err = 0
    BY <1>1, <1>7, ErrorStays DEF Left
  <2>2. pc'[t] = "exit"
    BY <1>2, <1>7, <2>1 DEF Left
  <2>3. FinalTiles' = Tile
    BY <1>1, <2>1, <2>2 DEF ExitInv
  <2>4. step' = step
    BY <1>1, <2>2, OnlyChecksExit DEF CheckError, CheckTotal, shared
  <2>5. Final(o[1]) /\ Final(o[1])'
    BY <2>3, <2>4, OpHas DEF FinalTiles, Final
  <2>6. Started(o) = "done"
    BY <1>1, <2>5, FinalIsDone
  <2> QED
    BY <2>4, <2>6 DEF Started, Reached, Claimed
<1>8. ASSUME Claims(t) \/ Publishes(t) PROVE Left' = Left
  <2>1. err' = err
    BY <1>8 DEF Claims, Publishes
  <2>2. pc'[t] # "exit"
    BY <1>1, <1>8, OnlyChecksExit DEF Claims, Publishes, CheckError, CheckTotal
  <2> QED
    BY <1>2, <1>3, <2>1, <2>2 DEF Left
<1> QED
  BY <1>6, <1>7, <1>8

(* Whatever the threads' interleaving and whatever fails, every operation  *)
(* starts once, after all that it depends on in the sequential algorithm,  *)
(* and without an error no thread leaves before all of them are done: the  *)
(* scan without locks or queues implements the scheduler of tasks.         *)
THEOREM ImplementsTaskDAG == Spec => ObservesDependences
<1> DEFINE State == [o \in Op |-> Started(o)]
<1>1. Dependences \in [Op -> SUBSET Op]
  BY DEF Dependences
<1>2. Init => Promise!Init
  <2> SUFFICES ASSUME Init PROVE Promise!Init
    OBVIOUS
  <2>1. \A o \in Op : Started(o) = "waiting"
    <3> SUFFICES ASSUME NEW o \in Op PROVE Started(o) = "waiting"
      OBVIOUS
    <3>1. o[1] \in Tile /\ o[2] \in Nat
      BY OpHas
    <3>2. step[o[1]] = 0
      BY <3>1 DEF Init
    <3> QED
      BY <3>1, <3>2, TilesAssumption DEF Started, Reached, Claimed
  <2>2. State = [o \in Op |-> "waiting"]
    BY <2>1
  <2>3. ~Left
    BY DEF Init, Left
  <2> QED
    BY <1>1, <2>2, <2>3 DEF Promise!Init, Started, Left
<1>3. WholeInv /\ WholeInv' /\ [Next]_vars => [Promise!Next]_(Promise!dagVars)
  <2> SUFFICES ASSUME WholeInv, WholeInv', [Next]_vars
               PROVE  Promise!Next \/ UNCHANGED Promise!dagVars
    OBVIOUS
  <2>1. CASE EndRegion \/ UNCHANGED vars
    <3>1. UNCHANGED <<step, err, pc>>
      BY <2>1 DEF EndRegion, vars, shared, locals
    <3>2. State' = State /\ Left' = Left
      BY <3>1 DEF Started, Reached, Claimed, Left
    <3> QED
      BY <3>2 DEF Promise!dagVars, Started, Left
  <2>2. ASSUME NEW t \in Thread, Work(t) PROVE Promise!Next \/ UNCHANGED Promise!dagVars
    <3>1. ClaimInv
      BY DEF WholeInv, FailureInv
    <3>2. CASE \A o \in Op : Started(o)' = Started(o)
      <4>1. State' = State
        BY <3>2
      <4>2. CASE Left' = Left
        BY <4>1, <4>2 DEF Promise!dagVars, Started, Left
      <4>3. CASE Left' # Left
        <5>1. Left' /\ ~Left
          BY <2>2, <4>3, StepLeaves DEF Left
        <5>2. \A o \in Op : Started(o) = "done"
          BY <2>2, <5>1, StepLeaves
        <5>3. \A o \in Op : State[o] = "done"
          BY <5>2
        <5>4. Promise!End
          BY <4>1, <5>1, <5>3 DEF Promise!End, Started, Left
        <5> QED
          BY <5>4 DEF Promise!Next
      <4> QED
        BY <4>2, <4>3
    <3>3. ASSUME NEW p \in Op, \A o \in Op : o # p => Started(o)' = Started(o),
                 Claims(t), Started(p) = "waiting", Started(p)' = "running",
                 \A o \in Dependences[p] : Started(o) = "done"
          PROVE  Promise!Next
      <4>1. State' = [State EXCEPT ![p] = "running"] /\ State[p] = "waiting"
        BY <3>3
      <4>2. \A o \in Dependences[p] : State[o] = "done"
        BY <1>1, <3>3
      <4>3. Left' = Left
        BY <2>2, <3>3, StepLeaves
      <4>4. Promise!Start(p)
        BY <4>1, <4>2, <4>3 DEF Promise!Start, Started, Left
      <4> QED
        BY <4>4 DEF Promise!Next
    <3>4. ASSUME NEW p \in Op, \A o \in Op : o # p => Started(o)' = Started(o),
                 Publishes(t), Started(p) = "running", Started(p)' = "done"
          PROVE  Promise!Next
      <4>1. State' = [State EXCEPT ![p] = "done"] /\ State[p] = "running"
        BY <3>4
      <4>2. Left' = Left
        BY <2>2, <3>4, StepLeaves
      <4>3. Promise!Finish(p)
        BY <4>1, <4>2 DEF Promise!Finish, Started, Left
      <4> QED
        BY <4>3 DEF Promise!Next
    <3> QED
      BY <2>2, <3>1, <3>2, <3>3, <3>4, StepStarts
  <2> QED
    BY <2>1, <2>2 DEF Next, Returned
<1>4. QED
  BY WholeInit, WholeStep, <1>2, <1>3, PTL DEF Spec, ObservesDependences, Promise!Spec

=============================================================================
