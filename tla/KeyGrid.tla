------------------------------ MODULE KeyGrid ------------------------------
(***************************************************************************)
(* The grid of keys of stmm-input-btkb: how BtkbWindow loads it from the   *)
(* configuration, lets the user edit it and saves it, and how              *)
(* KeyboardScreen draws it and finds the key under a click.                *)
(*                                                                         *)
(* What the code does once for columns and once for rows is done here for  *)
(* each of the two dimensions.                                             *)
(***************************************************************************)
EXTENDS Integers, Sequences, FiniteSets

CONSTANTS
  MaxGrid,        \* s_nEditMaxGridW, s_nEditMaxGridH
  Keys,           \* HARDWARE_KEY codes with a name, HK_NULL among them
  DefaultKeys,    \* the keys of the constructor's grid, in m_aEditHK
  Weights,        \* the weights entered by the user
  MinWeight, MaxWeight, DefaultWeight,   \* s_nEditMinWeight, ...
  Percents,       \* the percentages entered by the user
  Margin,         \* s_nMargin
  ExitSize,       \* s_nExitButtonPixW, s_nExitButtonPixH
  Canvases,       \* the sizes the canvas is drawn with, both 50 at least
  Configs,        \* the configurations found when the program starts
  MaxEdits        \* bound: changes made by the user

Dims == {"column", "row"}
HK_NULL == 0
MaxCode == 2147483647

\* What a configuration file may say: any numbers.
Configuration ==
  [tot : [Dims -> Int], weights : [Dims -> Seq(Int)], cells : Seq(Int), inCell : BOOLEAN,
   exitCell : [Dims -> Int], percent : [Dims -> Int]]

ASSUME GridAssumption ==
  /\ MaxGrid \in [Dims -> Nat \ {0}]
  /\ Keys \subseteq 0..MaxCode /\ HK_NULL \in Keys
  /\ DefaultKeys \in [1..(MaxGrid["column"] * MaxGrid["row"]) -> Keys]
  /\ {MinWeight, DefaultWeight} \cup Weights \subseteq MinWeight..MaxWeight
  /\ Canvases \subseteq [Dims -> Nat]
  /\ {Margin, ExitSize, MaxEdits, MinWeight, MaxWeight} \subseteq Nat /\ MinWeight > 0
  /\ Margin < ExitSize \div 2
  /\ Percents \subseteq 0..100
  /\ Configs \subseteq Configuration

VARIABLES
  tot,        \* m_nTotColumns, m_nTotRows
  weights,    \* m_aEditColumnsWeight, m_aEditRowsWeight
  cells,      \* m_aEditHK, row after row
  inCell,     \* m_bKeysExitInCell
  exitCell,   \* m_nKeysExitButtonInCellColumn, ...Row
  percent,    \* m_nKeysExitButtonPercX, ...Y
  keyList,    \* m_refTreeModelCellKey
  weightList, \* m_refTreeModelColumnWeight, m_refTreeModelRowWeight
  screen,     \* m_nCurrentScreen, "off" while the program does not run
  edited,     \* the row of the list whose key or weight is entered
  pos,        \* m_aColumnPosX, m_aRowPosY
  center,     \* m_nExitButtonCenterX, ...Y
  canvas,     \* the canvas the keyboard was last drawn on
  drawn,      \* the keyboard was drawn since it was opened
  conf,       \* the stored configuration
  edits       \* the number of changes made

grid == <<tot, weights, cells, inCell, exitCell, percent>>
lists == <<keyList, weightList>>
drawing == <<pos, center, canvas, drawn>>
vars == <<grid, lists, screen, edited, drawing, conf, edits>>

Clamped(n, lo, hi) == CASE n < lo -> lo [] n > hi -> hi [] OTHER -> n

\* The place of a cell in m_aEditHK, counted from 1.
Index(x, y, t) == x + y * t["column"] + 1

Cells(t) == (0..(t["column"] - 1)) \X (0..(t["row"] - 1))

\* The rows of the lists made by recreateCellsKeyList(), recreateWeightsList().
KeyRows(c, t) == [p \in Cells(t) |-> c[Index(p[1], p[2], t)]]

\* What the user sees of m_aEditHK.
Visible == KeyRows(cells, tot)

-----------------------------------------------------------------------------
(* Loading and saving.                                                     *)

\* The tokens within range.
Valid(s, lo, hi) ==
  LET valid[i \in 0..Len(s)] ==
        IF i = 0 THEN <<>>
        ELSE IF s[i] \in lo..hi THEN Append(valid[i - 1], s[i]) ELSE valid[i - 1]
  IN  valid[Len(s)]

\* stringToVector(): tokens out of range are left out, the rest moves up.
StringToVector(s, n, lo, hi, default) ==
  LET valid == Valid(s, lo, hi)
  IN  [i \in 1..n |-> IF i <= Len(valid) THEN valid[i] ELSE default]

\* Mutant: only the cells that can be seen are stored, in the lists' order.
StoredCellsByColumn ==
  [i \in 1..(tot["column"] * tot["row"]) |->
     cells[Index((i - 1) \div tot["row"], (i - 1) % tot["row"], tot)]]

\* All of m_aEditHK is stored, the cells beyond the grid too.
StoredCells == cells

\* saveStateToConfig()
Stored ==
  [tot |-> tot, weights |-> weights, cells |-> StoredCells, inCell |-> inCell,
   exitCell |-> exitCell, percent |-> percent]

\* Codes without a name become HK_NULL; -1 and missing codes leave the default.
KeyOfCode(code, i) == CASE code < 0 -> DefaultKeys[i]
                        [] code \in Keys -> code
                        [] OTHER -> HK_NULL

\* loadStateFromConfig() and the rest of the window's constructor
Start ==
  LET t == [d \in Dims |-> Clamped(conf.tot[d], 1, MaxGrid[d])]
      codes == StringToVector(conf.cells, t["column"] * t["row"], -1, MaxCode, -1)
  IN
  /\ screen = "off"
  /\ screen' = "main"
  /\ tot' = t
  /\ weights' = [d \in Dims |->
       StringToVector(conf.weights[d], t[d], MinWeight, MaxWeight, DefaultWeight)]
  /\ cells' = [i \in DOMAIN codes |-> KeyOfCode(codes[i], i)]
  /\ inCell' = conf.inCell
  /\ exitCell' = [d \in Dims |-> Clamped(conf.exitCell[d], 0, t[d] - 1)]
  /\ percent' = [d \in Dims |-> Clamped(conf.percent[d], 0, 100)]
  /\ keyList' = KeyRows(cells', tot') /\ weightList' = weights'
  /\ drawn' = FALSE
  /\ pos' = [d \in Dims |-> <<>>] /\ center' = [d \in Dims |-> 0]
  /\ UNCHANGED <<edited, canvas, conf, edits>>

\* The window is closed, whatever it shows.
Quit ==
  /\ screen # "off"
  /\ screen' = "off" /\ edited' = <<0, 0>>
  /\ conf' = Stored
  /\ UNCHANGED <<grid, lists, drawing, edits>>

-----------------------------------------------------------------------------
(* Editing the grid.                                                       *)

Edits ==
  /\ edits < MaxEdits
  /\ edits' = edits + 1

\* Mutant: the exit cell is left where it was.
ExitCellKept(c, t) == c

\* recreateCellsKeyList() lets m_aEditHK grow, never shrink.
Grown(c, n) == [i \in 1..(IF n > Len(c) THEN n ELSE Len(c)) |->
                  IF i <= Len(c) THEN c[i] ELSE HK_NULL]

ExitCellWithin(c, t) == [d \in Dims |-> Clamped(c[d], 0, t[d] - 1)]

\* onSpinNrColumnsChanged(), onSpinNrRowsChanged()
SpinNr(d, n) ==
  /\ screen = "main" /\ Edits
  /\ n # tot[d]
  /\ tot' = [tot EXCEPT ![d] = n]
  /\ weights' = [weights EXCEPT ![d] =
       [i \in 1..n |-> IF i <= Len(weights[d]) THEN weights[d][i] ELSE DefaultWeight]]
  /\ cells' = Grown(cells, tot'["column"] * tot'["row"])
  /\ keyList' = KeyRows(cells', tot') /\ weightList' = weights'
  /\ exitCell' = ExitCellWithin(exitCell, tot')
  /\ UNCHANGED <<inCell, percent, screen, edited, drawing, conf>>

\* onColumnWeightActivated(), onRowWeightActivated(), onCellNameActivated(): a
\* row of a list is activated and the screen for its value is shown.
ActivateWeight(d, i) ==
  /\ screen = "main" /\ edits < MaxEdits
  /\ screen' = "weight" /\ edited' = <<d, i>>
  /\ UNCHANGED <<grid, lists, drawing, conf, edits>>

ActivateCell(x, y) ==
  /\ screen = "main" /\ edits < MaxEdits
  /\ screen' = "key" /\ edited' = <<x, y>>
  /\ UNCHANGED <<grid, lists, drawing, conf, edits>>

\* Back to the main screen: no row is edited any more.
Closed == screen' = "main" /\ edited' = <<0, 0>>

\* onButtonAnswerOk() of the weight screen, setWeight()
EnterWeight(w) ==
  /\ screen = "weight" /\ Edits
  /\ Closed
  /\ weights' = [weights EXCEPT ![edited[1]][edited[2]] = w]
  /\ weightList' = [weightList EXCEPT ![edited[1]][edited[2]] = w]
  /\ UNCHANGED <<tot, cells, inCell, exitCell, percent, keyList, drawing, conf>>

\* Mutant: the index is counted with the number of rows.
EditedIndexRows == edited[1] + edited[2] * Len(weights["row"]) + 1

\* nIdx of setKey()
EditedIndex == edited[1] + edited[2] * Len(weights["column"]) + 1

\* onButtonAnswerOk() of the key screen, setKey()
EnterKey(k) ==
  /\ screen = "key" /\ Edits
  /\ Closed
  /\ cells' = [cells EXCEPT ![EditedIndex] = k]
  /\ keyList' = [keyList EXCEPT ![edited] = k]
  /\ UNCHANGED <<tot, weights, inCell, exitCell, percent, weightList, drawing, conf>>

\* onButtonAnswerCancel()
Cancel ==
  /\ screen \in {"weight", "key"}
  /\ Closed
  /\ UNCHANGED <<grid, lists, drawing, conf, edits>>

\* onSpinExitPositionXChanged(), onSpinExitPositionYChanged()
SpinExitPosition(d, p) ==
  /\ screen = "main" /\ Edits
  /\ percent' = [percent EXCEPT ![d] = p]
  /\ UNCHANGED <<tot, weights, cells, inCell, exitCell, lists, screen, edited, drawing, conf>>

\* onKeysExitInCellChanged()
KeysExitInCell ==
  /\ screen = "main" /\ Edits
  /\ inCell' = ~inCell
  /\ UNCHANGED <<tot, weights, cells, exitCell, percent, lists, screen, edited, drawing, conf>>

\* onSpinExitInCellColumnChanged(), onSpinExitInCellRowChanged(), of fields that
\* are insensitive while the button is not in a cell
SpinExitInCell(d, i) ==
  /\ screen = "main" /\ inCell /\ Edits
  /\ exitCell' = [exitCell EXCEPT ![d] = i]
  /\ UNCHANGED <<tot, weights, cells, inCell, percent, lists, screen, edited, drawing, conf>>

-----------------------------------------------------------------------------
(* The keyboard screen.                                                    *)

\* onButtonKeyboard(), changeTo(): a redraw is requested.
OpenKeyboard ==
  /\ screen = "main"
  /\ screen' = "keyboard" /\ drawn' = FALSE
  /\ UNCHANGED <<grid, lists, edited, pos, center, canvas, conf, edits>>

Total(s) == LET sum[i \in 0..Len(s)] == IF i = 0 THEN 0 ELSE sum[i - 1] + s[i]
            IN  sum[Len(s)]

\* The share of pix pixels a weight gets.  The quotient is computed in floating
\* point: where it is a whole number the result may be one less.
Shares(w, total, pix) ==
  LET q == (w * pix) \div total
  IN  {q} \cup {p \in {q - 1} : p >= 0 /\ (w * pix) % total = 0}

\* calcCellPositions() in one dimension: where each cell begins, and the end.
Positions(ws, pix) ==
  LET share(i) == Shares(ws[i], Total(ws), pix)
      sizes == {s \in [DOMAIN ws -> UNION {share(i) : i \in DOMAIN ws}] :
                  \A i \in DOMAIN ws : s[i] \in share(i)}
  IN  {[i \in 1..(Len(ws) + 1) |-> Total(SubSeq(s, 1, i - 1))] : s \in sizes}

\* Division of C++, towards zero.
Percentage(n, p) == IF n >= 0 THEN (n * p) \div 100 ELSE -(((-n) * p) \div 100)

\* Mutant: the exit button is placed from the end of its cell.
CenterAfter(d, at, size) ==
  IF inCell
    THEN at[d][exitCell[d] + 2] + Percentage(at[d][exitCell[d] + 2] - at[d][exitCell[d] + 1] + ExitSize, percent[d])
    ELSE Percentage(size[d], percent[d])

\* The center of the exit button, in its cell or on the canvas.
Center(d, at, size) ==
  LET i == exitCell[d] + 1
  IN  IF inCell THEN at[d][i] + Percentage(at[d][i + 1] - Margin - at[d][i], percent[d])
                ELSE Percentage(size[d], percent[d])

\* onCustomDraw(), on a canvas of any size, any number of times
Draw ==
  /\ screen = "keyboard"
  /\ \E size \in Canvases :
       /\ canvas' = size
       /\ \E ps \in Positions(weights["column"], size["column"] + Margin),
             qs \in Positions(weights["row"], size["row"] + Margin) :
            pos' = [d \in Dims |-> IF d = "column" THEN ps ELSE qs]
       /\ center' = [d \in Dims |-> Center(d, pos', size)]
  /\ drawn' = TRUE
  /\ UNCHANGED <<grid, lists, screen, edited, conf, edits>>

\* The exit button is clicked, where it was drawn last.
ExitKeyboard ==
  /\ screen = "keyboard" /\ pos["column"] # <<>>
  /\ screen' = "main"
  /\ UNCHANGED <<grid, lists, edited, drawing, conf, edits>>

\* Mutant: the key is looked up where the list has it.
HitsByRow(at, p) ==
  {<<c, cells[c[2] + c[1] * tot["row"] + 1]>> : c \in {c \in Cells(tot) :
     /\ at["column"][c[1] + 1] <= p[1] /\ p[1] < at["column"][c[1] + 2] - Margin
     /\ at["row"][c[2] + 1] <= p[2] /\ p[2] < at["row"][c[2] + 2] - Margin}}

\* getKeyFromCoords(): the cells at a point, each with its key.
Hits(at, p) ==
  {<<c, cells[Index(c[1], c[2], tot)]>> : c \in {c \in Cells(tot) :
     /\ at["column"][c[1] + 1] <= p[1] /\ p[1] < at["column"][c[1] + 2] - Margin
     /\ at["row"][c[2] + 1] <= p[2] /\ p[2] < at["row"][c[2] + 2] - Margin}}

-----------------------------------------------------------------------------
Init ==
  /\ screen = "off" /\ conf \in Configs
  /\ tot = [d \in Dims |-> 1]
  /\ weights = [d \in Dims |-> <<DefaultWeight>>]
  /\ cells = <<DefaultKeys[1]>>
  /\ inCell = FALSE
  /\ exitCell = [d \in Dims |-> 0] /\ percent = [d \in Dims |-> 50]
  /\ keyList = KeyRows(cells, tot) /\ weightList = weights
  /\ edited = <<0, 0>>
  /\ pos = [d \in Dims |-> <<>>] /\ center = [d \in Dims |-> 0]
  /\ canvas = [d \in Dims |-> 0] /\ drawn = FALSE
  /\ edits = 0

Next ==
  \/ Start \/ Quit
  \/ \E d \in Dims :
       \/ \E n \in 1..MaxGrid[d] : SpinNr(d, n)
       \/ \E i \in 1..tot[d] : ActivateWeight(d, i)
       \/ \E p \in Percents : SpinExitPosition(d, p)
       \/ \E i \in 0..(tot[d] - 1) : SpinExitInCell(d, i)
  \/ \E c \in Cells(tot) : ActivateCell(c[1], c[2])
  \/ (\E w \in Weights : EnterWeight(w)) \/ (\E k \in Keys : EnterKey(k)) \/ Cancel
  \/ KeysExitInCell
  \/ OpenKeyboard \/ Draw \/ ExitKeyboard

Spec == Init /\ [][Next]_vars

-----------------------------------------------------------------------------
\* Every index the code computes is within its array: the exit cell is a cell
\* of the grid, each column and row has a weight and each cell an entry.
TypeOK ==
  /\ \A d \in Dims : tot[d] \in 1..MaxGrid[d]
  /\ \A d \in Dims : weights[d] \in Seq(MinWeight..MaxWeight) /\ Len(weights[d]) = tot[d]
  /\ cells \in Seq(Keys) /\ Len(cells) >= tot["column"] * tot["row"]
  /\ inCell \in BOOLEAN /\ drawn \in BOOLEAN
  /\ \A d \in Dims : exitCell[d] \in 0..(tot[d] - 1) /\ percent[d] \in 0..100
  /\ screen \in {"off", "main", "weight", "key", "keyboard"}
  /\ drawn /\ screen = "keyboard" => \A d \in Dims : Len(pos[d]) = tot[d] + 1
  /\ edits \in 0..MaxEdits

\* The lists show the grid: the assertions of the three handlers that open a
\* row (btkbwindow.cc:745-785) hold whatever was resized and edited before, and
\* the row that is being edited exists until the value is entered.
ListsShowGrid ==
  /\ screen # "off" => keyList = Visible /\ weightList = weights
  /\ screen = "key" => edited \in Cells(tot)
  /\ screen = "weight" => edited[2] \in 1..tot[edited[1]]

\* What is stored when the program ends is what it starts with again: the grid,
\* every key that can be seen, the weights and the exit button, although cells
\* beyond the grid are stored too and values out of range are dropped.
GridSurvives ==
  [][Start /\ conf = Stored =>
       /\ UNCHANGED <<tot, weights, inCell, exitCell, percent>>
       /\ KeyRows(cells', tot') = Visible]_vars

\* Every click finds the key drawn under it: no point belongs to two cells, and
\* a cell is found at its corner, with the key its row of the list shows, unless
\* its weight is too small for it to be seen.
ClickFindsKey ==
  drawn /\ screen = "keyboard" =>
    \A c \in Cells(tot) :
      LET at == <<pos["column"][c[1] + 1], pos["row"][c[2] + 1]>>
          seen == /\ pos["column"][c[1] + 2] - Margin > at[1]
                  /\ pos["row"][c[2] + 2] - Margin > at[2]
          hits == Hits(pos, at)
      IN  /\ Cardinality(hits) <= 1
          /\ seen => hits = {<<c, keyList[c]>>}

\* The keyboard can be left with the mouse: part of the exit button is on the
\* canvas, wherever the configuration puts it and however small its cell is.
ExitReachable ==
  drawn /\ screen = "keyboard" =>
    \A d \in Dims : /\ center[d] - ExitSize \div 2 < canvas[d]
                    /\ center[d] + ExitSize \div 2 > 0
=============================================================================
