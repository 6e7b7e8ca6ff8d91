--------------------------- MODULE FanTableEditor ---------------------------
(***************************************************************************)
(* Editing one fan table in the web page: the buttons and cells of         *)
(* FanTableEditor.tsx, the row inserted by utils/fanTable.ts and the check *)
(* of utils/misc.ts before FanTable.tsx sends the table.                   *)
(*                                                                         *)
(* A cell of a number input holds a number or Blank.  Neighbouring         *)
(* integers stand for neighbouring IEEE doubles as well: a midpoint        *)
(* between them is rounded onto one of them.                               *)
(***************************************************************************)
EXTENDS FanCurve

CONSTANTS
    Blank, MaxRows,                   \* an empty cell; bound on the rows
    TypedTemperatures, TypedSpeeds    \* what is typed
ASSUME RowsAssumption == Blank \notin Int /\ MaxRows \in Nat \ {0}
ASSUME TypedAssumption == TypedTemperatures \cup TypedSpeeds \subseteq Int \cup {Blank}

VARIABLE rows   \* the draft: <<temperature, speed>> as typed

Number(cell) == IF cell = Blank THEN 0 ELSE cell

\* FanTable's useBackendDraft(): the rows show the server's table.
Shows(table) == rows = table

Midpoint(i) == IF i = 1 THEN rows[1][1] \div 2 ELSE (rows[i - 1][1] + rows[i][1]) \div 2

InsertableUnchecked(i) == rows[i][1] # Blank /\ (i > 1 => rows[i - 1][1] # Blank)

\* The rows whose neighbours leave room for a temperature between them.
Insertable(i) ==
    LET current == rows[i][1] IN
    /\ current # Blank /\ current > 0 /\ current <= 110
    /\ i > 1 => LET previous == rows[i - 1][1] IN
                /\ previous # Blank /\ previous >= 0 /\ previous < current
                /\ Midpoint(i) > previous /\ Midpoint(i) < current

Clamped(cell) == IF Number(cell) < 0 THEN 0 ELSE IF Number(cell) > 100 THEN 100 ELSE Number(cell)

InsertBefore(i) ==
    /\ Len(rows) < MaxRows /\ Insertable(i)
    /\ rows' = SubSeq(rows, 1, i - 1) \o <<<<Midpoint(i), Clamped(rows[i][2])>>>> \o SubSeq(rows, i, Len(rows))

Remove(i) == Len(rows) > 1 /\ rows' = SubSeq(rows, 1, i - 1) \o SubSeq(rows, i + 1, Len(rows))

\* "Add row" copies the last speed one degree higher.
Add ==
    LET last == rows[Len(rows)] IN
    /\ Len(rows) < MaxRows /\ Number(last[1]) < 110
    /\ rows' = Append(rows, <<Number(last[1]) + 1, last[2]>>)

Type(i, cell, column) == rows' = [rows EXCEPT ![i][column] = cell]

NotBelow(previous, temperature) == previous <= temperature
Ascends(previous, temperature) == previous < temperature

\* getFanTableRowError(): the rows it stops at.
RowErrors ==
    {i \in DOMAIN rows :
        \/ rows[i][1] = Blank \/ rows[i][1] < 0 \/ rows[i][1] > 110
        \/ i > 1 /\ ~Ascends(Number(rows[i - 1][1]), rows[i][1])
        \/ rows[i][2] = Blank \/ rows[i][2] < 0 \/ rows[i][2] > 100}

\* onSubmit(): what is sent, once no row has an error.
Accepted == rows # <<>> /\ RowErrors = {}
Submitted == [i \in DOMAIN rows |-> <<Number(rows[i][1]), Number(rows[i][2])>>]

Buttons == rows # <<>> /\ (Add \/ \E i \in DOMAIN rows : InsertBefore(i) \/ Remove(i))
Types ==
    \E i \in DOMAIN rows :
        (\E cell \in TypedTemperatures : Type(i, cell, 1)) \/ (\E cell \in TypedSpeeds : Type(i, cell, 2))

EditorInit == \E table \in Seq(Temperature \X Percent) : ValidFanTable(table) /\ Shows(table)
EditorSpec == EditorInit /\ [][Buttons \/ Types]_rows

-----------------------------------------------------------------------------
\* The page sends exactly the tables the server accepts: no valid edit is
\* held back, and none is sent only to be refused.  A blank cell is not zero.
PageAgreesWithServer ==
    Accepted <=> ValidFanTable(Submitted) /\ \A i \in DOMAIN rows : Blank \notin {rows[i][1], rows[i][2]}

\* The buttons of the table editor never turn a curve that could be submitted
\* into one that could not, also between neighbouring numbers and at both ends
\* of the range; only typing can.
ButtonsKeepCurveValid == [][Accepted => Accepted' \/ Types]_rows
=============================================================================
