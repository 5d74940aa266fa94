--------------------------- MODULE MCSlipsReadsRows ----------------------------
(* Three parts that share nothing, checked side by side: the slip desk on the  *)
(* instance of MCSlipDesk, the reads of runs and slips, and one row behind its *)
(* generated surface.  A behaviour is one of them, the others standing still.  *)
EXTENDS MCSlipDesk, RunReads, GeneratedRows

CONSTANTS a1, a2, b1

VARIABLE part

allVars == <<part, vars, readVars, rowVars>>

-------------------------------------------------------------------------------
\* Two runs of one month and one of the next, not yet closed.
MCRuns == {a1, a2, b1}
MCPeriod == [r \in MCRuns |-> IF r = b1 THEN 2 ELSE 1]
MCPeople == {1, 2, 3}

LineOf(name, ct, amount) == [name |-> name, ct |-> ct, amount |-> amount]
OneLine == <<LineOf("Basic", "earning", 10)>>
ThreeLines == <<LineOf("Basic", "earning", 11), LineOf("Meal", "earning", 1),
                LineOf("Tax", "deduction", 2)>>
MCSlips == {OneLine, ThreeLines}

\* The earlier runs have ended or not, or are yet to be opened; one of the two
\* has a leaver's slip.
MCReadWorlds ==
  {[run |-> (a1 :> s1 @@ a2 :> s2 @@ b1 :> "draft"),
    slips |-> (a1 :> (1 :> OneLine @@ 2 :> ThreeLines)
               @@ a2 :> (IF s2 = "absent" THEN <<>> ELSE 3 :> ThreeLines)
               @@ b1 :> (1 :> s))] :
     s1 \in {"draft", "posted"}, s2 \in {"absent", "draft", "processed"},
     s \in MCSlips}

\* Entries of transactions 9, 10 and 11: as text "10" < "11" < "9".
MCTextPlace == (0 :> 3 @@ 1 :> 1 @@ 2 :> 2)

MCRequests ==
  {[id |-> b1, limit |-> 0, offset |-> 1], [id |-> b1, limit |-> 9, offset |-> -1]}

\* What the proofs about the three parts assume holds of this instance.
ASSUME DeskIsGiven ==
  LawIsSorted /\ HoursHaveOneBand /\ OneCap /\ QuotientsSuffice
ASSUME ReadsAreGiven == ReadsAssumption
ASSUME RowsAreGiven == RowsAssumption

-------------------------------------------------------------------------------
MCInit ==
  /\ part \in {"slips", "reads", "rows"}
  /\ Init /\ ReadInit /\ RowInit
  /\ part # "slips" => facts = World.facts /\ approvals = World.approvals
                       /\ run = World.run
  /\ part # "reads" => runs = [r \in MCRuns |-> "draft"] /\ slipsOf[b1][1] = OneLine
  /\ part # "rows" => row = Gone /\ <<surface, entity.name>> = <<"guarded", "line">>

MCNext ==
  \/ part = "slips" /\ Next /\ UNCHANGED <<part, readVars, rowVars>>
  \/ part = "reads" /\ ReadNext /\ UNCHANGED <<part, vars, rowVars>>
  \/ part = "rows" /\ RowNext /\ UNCHANGED <<part, vars, readVars>>

MCSpec == MCInit /\ [][MCNext]_allVars

\* Every variable of every part has its type.
AllTyped == TypeOK /\ ReadTypeOK /\ RowTypeOK

===============================================================================
