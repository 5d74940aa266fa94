------------------------- MODULE SlipsReadsRowsProofs --------------------------
(*****************************************************************************)
(* The three parts that are checked side by side do not disturb each other:  *)
(* a behaviour of the whole is one of each part, so that what the theorems   *)
(* about a part say is true of the whole.                                    *)
(*****************************************************************************)
EXTENDS MCSlipsReadsRows, SlipDeskProofs, RunReadsProofs, GeneratedRowsProofs

\* A step of the whole is one of the part at work, and the others stand still.
LEMMA PartsMove ==
  ASSUME [MCNext]_allVars
  PROVE  [Next]_vars /\ [ReadNext]_readVars /\ [RowNext]_rowVars
<1>1. CASE part = "slips" /\ Next /\ UNCHANGED <<part, readVars, rowVars>>
  BY <1>1
<1>2. CASE part = "reads" /\ ReadNext /\ UNCHANGED <<part, vars, rowVars>>
  BY <1>2
<1>3. CASE part = "rows" /\ RowNext /\ UNCHANGED <<part, vars, readVars>>
  BY <1>3
<1>4. CASE UNCHANGED allVars
  BY <1>4 DEF allVars
<1> QED
  BY <1>1, <1>2, <1>3, <1>4 DEF MCNext

\* Side by side the parts behave as each does alone.
THEOREM PartsStandAlone == MCSpec => Spec /\ ReadSpec /\ RowSpec
<1>1. MCInit => Init /\ ReadInit /\ RowInit
  BY DEF MCInit
<1>2. [MCNext]_allVars => [Next]_vars /\ [ReadNext]_readVars /\ [RowNext]_rowVars
  BY PartsMove
<1> QED
  BY <1>1, <1>2, PTL DEF MCSpec, Spec, ReadSpec, RowSpec

\* Every variable of every part keeps to its type, in any state of the whole:
\* tables, requests and slips, comparisons and payslips, rows and their trails.
THEOREM EveryPartTyped == MCSpec => []AllTyped
<1>1. Spec => []TypeOK
  BY DeskTypes
<1>2. ReadSpec => []ReadTypeOK
  BY ReadsAreGiven, ReadsTypes
<1>3. RowSpec => []RowTypeOK
  BY RowsAreGiven, RowTypes
<1>4. TypeOK /\ ReadTypeOK /\ RowTypeOK => AllTyped
  BY DEF AllTyped
<1> QED
  BY <1>1, <1>2, <1>3, <1>4, PartsStandAlone, PTL

\* What is checked of the parts side by side holds for every value of their
\* constants that is as ReadsAreGiven, RowsAreGiven and DeskIsGiven say.
THEOREM EveryPartHolds ==
  MCSpec => /\ [](TaxIsPerUnit /\ OvertimeIsPerHour /\ LoadedLawComputes /\ SlipAddsUp)
            /\ [](RunIsVouchedFor /\ LawSeenWasInForce)
            /\ UndisturbedSlipIsOneReading /\ PreviewIsTheSlip
            /\ [](ComparisonAddsUp /\ PagesCoverEveryone)
            /\ [](PreviousWasLatest /\ PayslipsStand)
            /\ [](WritesAgree /\ AsOfIsTheRow) /\ NothingSpoils
<1>1. Spec => /\ []TaxIsPerUnit /\ []OvertimeIsPerHour
              /\ []LoadedLawComputes /\ []SlipAddsUp
  BY DeskIsGiven, TaxByUnit, OvertimeByHour, LawComputes, SlipAdds
<1>2. Spec => /\ []RunIsVouchedFor /\ []LawSeenWasInForce
              /\ UndisturbedSlipIsOneReading /\ PreviewIsTheSlip
  BY DeskIsGiven, VouchedFor, LawInForce, OneReading, PreviewSaved
<1>3. ReadSpec => /\ []ComparisonAddsUp /\ []PagesCoverEveryone
                  /\ []PreviousWasLatest /\ []PayslipsStand
  BY ReadsAreGiven, FiguresAgree, PagesComplete, LatestIsFinal, PayslipsAreFinal
<1>4. RowSpec => []WritesAgree /\ []AsOfIsTheRow /\ NothingSpoils
  BY RowsAreGiven, WritesAgreeAlways, HistoryIsTheRow, NothingEverSpoils
<1> QED
  BY <1>1, <1>2, <1>3, <1>4, PartsStandAlone, PTL

===============================================================================
