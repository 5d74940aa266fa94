----------------------------- MODULE GeneratedRows -----------------------------
(***************************************************************************)
(* One row behind its generated surface: create, PUT, PATCH, delete,       *)
(* restore and purge of the seven entities, the row rules that guard them, *)
(* which routers mount them, and the history read off the audit trail.     *)
(*                                                                         *)
(* Five descriptions of each entity are generated side by side: what the   *)
(* Create and Update DTOs take; what the response and summary DTOs show    *)
(* and the conversions copy; what new(), its setters and apply_patch make; *)
(* what the builder asks for; the rules.  A value is one of its kind's few *)
(* distinctions below; ids and metadata but deletion are left out.         *)
(***************************************************************************)
EXTENDS Integers, Sequences, FiniteSets

CONSTANTS
  Null,        \* JSON null, and SQL's
  Surfaces,    \* the routers a deployment may mount: "guarded", "all", "readonly"
  MaxWrites,   \* the bound on requests
  LastInstant, \* the bound on time
  TextPlace    \* TextPlace[k]: where the txid of entry k sorts, being text

VARIABLES
  surface,           \* the router mounted, and ...
  entity,            \* ... the entity's description: neither ever changes
  row,               \* the columns, or Gone
  deleted,           \* metadata.deleted_at is set
  trail,             \* auditlog.audit_trails of this row
  past,              \* the row as each instant ended
  writes             \* requests so far

Gone == <<>>   \* no row: no columns

rowVars == <<surface, entity, row, deleted, trail, past, writes>>

Values(kind) ==
  CASE kind = "number" -> {"zero", "one", "neg"}
    [] kind = "text"   -> {"short", "blank", "long"}
    [] kind = "choice" -> {"first", "other"}
    [] kind = "ref"    -> {"x", "y"}
    [] kind = "day"    -> {"d1", "d2"}
    [] kind = "flag"   -> {"no", "yes"}

\* The columns of f, and those of g that f has not.
f ++ g ==
  [n \in DOMAIN f \cup DOMAIN g |-> IF n \in DOMAIN f THEN f[n] ELSE g[n]]

\* What the tables give: NULL is no value, and no word of the descriptions.
Kinds == {"number", "text", "choice", "ref", "day", "flag"}
RowsAssumption ==
  /\ \A kind \in Kinds : Null \notin Values(kind) \cup {"required"}
  /\ Surfaces \subseteq {"guarded", "all", "readonly"}
  /\ MaxWrites \in Nat /\ LastInstant \in Nat
  /\ TextPlace \in [0..MaxWrites -> Nat]
  /\ \A j, k \in 0..MaxWrites : TextPlace[j] = TextPlace[k] => j = k

\* Columns a create must be given, may be given, and that may stay NULL.
Given(names, kind) == [n \in names |-> [kind |-> kind, absent |-> "required"]]
Or(names, kind, default) == [n \in names |-> [kind |-> kind, absent |-> default]]
Maybe(names, kind) == [n \in names |-> [kind |-> kind, absent |-> Null]]

-------------------------------------------------------------------------------
\* Plausible errors in the definitions below, put in their place by the
\* mutation runs only.
SlipRulesOfPay ==
  [required |-> {"payroll_entry_id", "employee_id"}, short |-> {"tax_method"},
   positive |-> {"gross_pay", "total_deductions", "net_pay"}]
LineMakesNoSource ==
  LET old == {"salary_slip_id", "name", "component_type", "is_statutory",
              "amount", "gl_account_id"}
  IN  [given |-> old, settable |-> {"source_kind", "source_ref"},
       patches |-> old]
NeverGone(x, image) == x.changed ++ image
AnyColumns(q) == DOMAIN q # {}

-------------------------------------------------------------------------------
(* payroll_entries *)

RunTakes ==
  Given({"period_year", "period_month"}, "choice")
  ++ Maybe({"posting_date", "period_start", "period_end"}, "day")
  ++ Maybe({"timesheet_approval_id", "salary_expense_account_id",
            "salary_payable_account_id", "journal_id", "accounting_post_id"}, "ref")
  ++ Or({"status"}, "choice", "first")
  ++ Or({"total_gross", "total_deductions", "total_net"}, "number", "zero")
RunDto ==
  LET all == {"period_year", "period_month", "posting_date",
              "timesheet_approval_id", "period_start", "period_end", "status",
              "salary_expense_account_id", "salary_payable_account_id",
              "total_gross", "total_deductions", "total_net", "journal_id",
              "accounting_post_id"}
  IN  [shows |-> all, brief |-> {"period_year", "period_month", "posting_date"},
       copies |-> all]
RunMakes ==
  [given |-> {"period_year", "period_month", "status", "total_gross",
              "total_deductions", "total_net"},
   settable |-> {"posting_date", "timesheet_approval_id", "period_start",
                  "period_end", "salary_expense_account_id",
                  "salary_payable_account_id", "journal_id",
                  "accounting_post_id"},
   patches |-> {"period_year", "period_month", "posting_date",
                "timesheet_approval_id", "period_start", "period_end", "status",
                "salary_expense_account_id", "salary_payable_account_id",
                "total_gross", "total_deductions", "total_net", "journal_id",
                "accounting_post_id"}]
RunBuilds ==
  [n \in {"period_year", "period_month"} |-> "required"]
  ++ [n \in {"posting_date", "timesheet_approval_id", "period_start",
             "period_end", "salary_expense_account_id",
             "salary_payable_account_id", "journal_id",
             "accounting_post_id"} |-> Null]
  ++ [n \in {"total_gross", "total_deductions", "total_net"} |-> "zero"]
  ++ [n \in {"status"} |-> "first"]
RunRules ==
  [required |-> {}, short |-> {},
   positive |-> {"total_gross", "total_deductions", "total_net"}]

-------------------------------------------------------------------------------
(* salary_slips *)

SlipTakes ==
  Given({"payroll_entry_id", "employee_id"}, "ref")
  ++ Maybe({"structure_id"}, "ref") ++ Maybe({"overtime_hours"}, "number")
  ++ Maybe({"tax_method"}, "text")
  ++ Or({"working_days", "unpaid_days", "gross_pay", "total_deductions",
         "net_pay"}, "number", "zero")
SlipDto ==
  LET all == {"payroll_entry_id", "employee_id", "structure_id", "working_days",
              "unpaid_days", "gross_pay", "total_deductions", "net_pay",
              "overtime_hours", "tax_method"}
  IN  [shows |-> all, copies |-> all,
       brief |-> {"payroll_entry_id", "employee_id", "structure_id"}]
SlipMakes ==
  [given |-> {"payroll_entry_id", "employee_id", "working_days", "unpaid_days",
              "gross_pay", "total_deductions", "net_pay"},
   settable |-> {"structure_id", "overtime_hours", "tax_method"},
   patches |-> {"payroll_entry_id", "employee_id", "structure_id",
                "working_days", "unpaid_days", "gross_pay", "total_deductions",
                "net_pay", "overtime_hours", "tax_method"}]
SlipBuilds ==
  [n \in {"payroll_entry_id", "employee_id"} |-> "required"]
  ++ [n \in {"structure_id", "overtime_hours", "tax_method"} |-> Null]
  ++ [n \in {"working_days", "unpaid_days", "gross_pay", "total_deductions",
             "net_pay"} |-> "zero"]
SlipRules ==
  [required |-> {"payroll_entry_id", "employee_id"}, short |-> {"tax_method"},
   positive |-> {"working_days", "unpaid_days", "gross_pay",
                 "total_deductions", "net_pay", "overtime_hours"}]

-------------------------------------------------------------------------------
(* salary_slip_lines *)

LineTakes ==
  Given({"salary_slip_id", "gl_account_id"}, "ref") ++ Given({"name"}, "text")
  ++ Or({"component_type"}, "choice", "first")
  ++ Or({"is_statutory"}, "flag", "no") ++ Or({"amount"}, "number", "zero")
  ++ Maybe({"source_kind"}, "text") ++ Maybe({"source_ref"}, "ref")
LineDto ==
  LET all == {"salary_slip_id", "name", "component_type", "is_statutory",
              "amount", "gl_account_id", "source_kind", "source_ref"}
  IN  [shows |-> all, brief |-> {"salary_slip_id", "name", "component_type"},
       copies |-> all]
LineMakes ==
  [given |-> {"salary_slip_id", "name", "component_type", "is_statutory",
              "amount", "gl_account_id"},
   settable |-> {"source_kind", "source_ref"},
   patches |-> {"salary_slip_id", "name", "component_type", "is_statutory",
                "amount", "gl_account_id", "source_kind", "source_ref"}]
LineBuilds ==
  [n \in {"salary_slip_id", "name", "gl_account_id"} |-> "required"]
  ++ [n \in {"component_type"} |-> "first"] ++ [n \in {"is_statutory"} |-> "no"]
  ++ [n \in {"amount"} |-> "zero"]
  ++ [n \in {"source_kind", "source_ref"} |-> Null]
LineRules ==
  [required |-> {"salary_slip_id", "name", "gl_account_id"},
   short |-> {"name", "source_kind"}, positive |-> {"amount"}]

-------------------------------------------------------------------------------
(* salary_structures *)

StructureTakes == Given({"name"}, "text") ++ Or({"status"}, "choice", "first")
StructureDto ==
  LET all == {"name", "status"}
  IN  [shows |-> all, brief |-> {"name", "status"},
       copies |-> all]
StructureMakes ==
  [given |-> {"name", "status"},
   settable |-> {},
   patches |-> {"name", "status"}]
StructureBuilds ==
  [n \in {"name"} |-> "required"] ++ [n \in {"status"} |-> "first"]
StructureRules == [required |-> {"name"}, short |-> {"name"}, positive |-> {}]

-------------------------------------------------------------------------------
(* salary_components *)

ComponentTakes ==
  Given({"structure_id", "gl_account_id"}, "ref") ++ Given({"name"}, "text")
  ++ Or({"component_type"}, "choice", "first")
  ++ Or({"amount"}, "number", "zero") ++ Or({"is_statutory"}, "flag", "no")
ComponentDto ==
  LET all == {"structure_id", "name", "component_type", "amount",
              "gl_account_id", "is_statutory"}
  IN  [shows |-> all, brief |-> {"structure_id", "name", "component_type"},
       copies |-> all]
ComponentMakes ==
  [given |-> {"structure_id", "name", "component_type", "amount",
              "gl_account_id", "is_statutory"},
   settable |-> {},
   patches |-> {"structure_id", "name", "component_type", "amount",
                "gl_account_id", "is_statutory"}]
ComponentBuilds ==
  [n \in {"structure_id", "name", "gl_account_id"} |-> "required"]
  ++ [n \in {"component_type"} |-> "first"] ++ [n \in {"amount"} |-> "zero"]
  ++ [n \in {"is_statutory"} |-> "no"]
ComponentRules ==
  [required |-> {"structure_id", "name", "gl_account_id"}, short |-> {"name"},
   positive |-> {"amount"}]

-------------------------------------------------------------------------------
(* salary_component_versions *)

VersionTakes ==
  Given({"component_id", "gl_account_id"}, "ref")
  ++ Given({"effective_from"}, "day") ++ Given({"name"}, "text")
  ++ Or({"component_type"}, "choice", "first")
  ++ Or({"amount"}, "number", "zero")
  ++ Or({"is_statutory", "removed"}, "flag", "no") ++ Maybe({"reason"}, "text")
VersionDto ==
  LET all == {"component_id", "effective_from", "name", "component_type",
              "amount", "gl_account_id", "is_statutory", "removed", "reason"}
  IN  [shows |-> all, brief |-> {"component_id", "effective_from", "name"},
       copies |-> all]
VersionMakes ==
  [given |-> {"component_id", "effective_from", "name", "component_type",
              "amount", "gl_account_id", "is_statutory", "removed"},
   settable |-> {"reason"},
   patches |-> {"component_id", "effective_from", "name", "component_type",
                "amount", "gl_account_id", "is_statutory", "removed", "reason"}]
VersionBuilds ==
  [n \in {"component_id", "effective_from", "name", "gl_account_id"}
     |-> "required"]
  ++ [n \in {"component_type"} |-> "first"] ++ [n \in {"amount"} |-> "zero"]
  ++ [n \in {"is_statutory", "removed"} |-> "no"] ++ [n \in {"reason"} |-> Null]
VersionRules ==
  [required |-> {"component_id", "name", "gl_account_id"},
   short |-> {"name", "reason"}, positive |-> {"amount"}]

-------------------------------------------------------------------------------
(* compensation_changes *)

ChangeTakes ==
  Given({"employee_id"}, "ref") ++ Given({"change_type"}, "choice")
  ++ Maybe({"new_amount"}, "number") ++ Maybe({"effective_date"}, "day")
  ++ Maybe({"reference_id"}, "ref") ++ Maybe({"note"}, "text")
ChangeDto ==
  LET all == {"employee_id", "change_type", "new_amount", "effective_date",
              "reference_id", "note"}
  IN  [shows |-> all, brief |-> {"employee_id", "change_type", "new_amount"},
       copies |-> all]
ChangeMakes ==
  [given |-> {"employee_id", "change_type"},
   settable |-> {"new_amount", "effective_date", "reference_id", "note"},
   patches |-> {"employee_id", "change_type", "new_amount", "effective_date",
                "reference_id", "note"}]
ChangeBuilds ==
  [n \in {"employee_id", "change_type"} |-> "required"]
  ++ [n \in {"new_amount", "effective_date", "reference_id", "note"} |-> Null]
ChangeRules ==
  [required |-> {"employee_id"}, short |-> {}, positive |-> {"new_amount"}]

-------------------------------------------------------------------------------
(* The entities, and what a request makes of a row *)

Described(name, takes, dto, makes, builds, rules) ==
  [name |-> name, takes |-> takes, dto |-> dto, makes |-> makes,
   builds |-> builds, rules |-> rules]

IsEntity(e) ==
  \/ e = Described("run", RunTakes, RunDto, RunMakes, RunBuilds, RunRules)
  \/ e = Described("slip", SlipTakes, SlipDto, SlipMakes, SlipBuilds, SlipRules)
  \/ e = Described("line", LineTakes, LineDto, LineMakes, LineBuilds, LineRules)
  \/ e = Described("structure", StructureTakes, StructureDto, StructureMakes,
                   StructureBuilds, StructureRules)
  \/ e = Described("component", ComponentTakes, ComponentDto, ComponentMakes,
                   ComponentBuilds, ComponentRules)
  \/ e = Described("version", VersionTakes, VersionDto, VersionMakes,
                   VersionBuilds, VersionRules)
  \/ e = Described("change", ChangeTakes, ChangeDto, ChangeMakes,
                   ChangeBuilds, ChangeRules)

Names == DOMAIN entity.takes
Column(n) == entity.takes[n]

\* serde: a value of the column's type, or null where the type is an Option.
Decodes(n, v) ==
  v \in Values(Column(n).kind) \/ (v = Null /\ Column(n).absent = Null)
Decodable(q) == \A n \in DOMAIN q : Decodes(n, q[n])

\* A request has a value, null or junk for some of the columns.
CreateTakes(q) ==
  /\ Decodable(q)
  /\ \A n \in Names \ DOMAIN q : Column(n).absent # "required"
Created(q) ==
  [n \in entity.dto.copies |->
     IF n \in DOMAIN q THEN q[n] ELSE Column(n).absent]

\* A PUT wants every column but the nullable ones, which it clears.
PutTakes(q) ==
  /\ Decodable(q)
  /\ \A n \in Names \ DOMAIN q : Column(n).absent = Null
Put(r, q) ==
  [n \in Names |-> IF n \notin entity.dto.copies THEN r[n]
                   ELSE IF n \in DOMAIN q THEN q[n] ELSE Null]

\* A key is a column's own name or its camelCase; one word is spelled alike.
\* Create and Update DTOs take both, apply_patch knows only the first.
Spellings == {"own", "camel"}
OneWord == {"name", "amount", "status", "removed", "reason", "note"}
Known(spelling) ==
  {n \in entity.makes.patches : spelling = "own" \/ n \in OneWord}

\* A PATCH skips, without a word, what it does not know or cannot decode.
Patched(r, q, spelling) ==
  LET heard == {n \in DOMAIN q \cap Known(spelling) : Decodes(n, q[n])}
  IN  [n \in Names |-> IF n \in heard THEN q[n] ELSE r[n]]

\* What a reader is given of the row, and of each row of a list, in camelCase.
Shown(r) == [n \in entity.dto.shows |-> r[n]]
Brief(r) == [n \in entity.dto.brief |-> r[n]]

\* new() is given values and leaves the rest NULL, for its setters to fill.
New(q) ==
  [n \in entity.makes.given \cup entity.makes.settable |->
     IF n \in DOMAIN q THEN q[n] ELSE Null]

\* The builder is given values, never null.
Built(q) ==
  [n \in DOMAIN entity.builds |->
     IF n \in DOMAIN q THEN q[n] ELSE entity.builds[n]]

-------------------------------------------------------------------------------
(* The row rules *)

Broken(r) ==
  {n \in entity.rules.required : r[n] \in {Null, "blank"}}
  \cup {n \in entity.rules.short : r[n] = "long"}
  \cup {n \in entity.rules.positive : r[n] = "neg"}

\* A create is held to all of them, an update to those of what it changes.
Refusals(before, after) ==
  {n \in Broken(after) : before = Gone \/ before[n] # after[n]}

(* What is mounted where: "all" endpoints, "reads", or nothing *)

GuardedRoutes(name) ==
  CASE name = "structure" -> "all"
    [] name = "version"   -> "none"
    [] OTHER              -> "reads"
AllCrudRoutes(name) == IF name \in {"version", "change"} THEN "reads" ELSE "all"
ReadonlyRoutes(name) == "reads"
Mounted ==
  CASE surface = "guarded"  -> GuardedRoutes(entity.name)
    [] surface = "all"      -> AllCrudRoutes(entity.name)
    [] surface = "readonly" -> ReadonlyRoutes(entity.name)

-------------------------------------------------------------------------------
(* The audit trail and what it is read for *)

Recorded == {"slip", "version", "change"}   \* the entities with a history route
Now == Len(past)
Image(r, d) == IF r = Gone THEN Gone ELSE r ++ [deleted_at |-> d]

\* The trigger's entry: when, in which transaction, the columns a write changed.
Entry(action, before, after, k) ==
  [action |-> action, at |-> Now, txid |-> k,
   changed |-> IF after = Gone THEN <<>>
               ELSE [n \in {m \in DOMAIN after :
                              before = Gone \/ before[m] # after[m]} |-> after[n]]]

\* The entries the reader asks for, ORDER BY occurred_at, txid: txid is text.
Heard(t) == {i \in 1..Len(trail) : trail[i].at <= t}
Precedes(x, y) ==
  \/ x.at < y.at
  \/ x.at = y.at /\ TextPlace[x.txid] < TextPlace[y.txid]

\* The entry at place n among those up to t.
Nth(t, n) ==
  CHOOSE i \in Heard(t) :
    Cardinality({j \in Heard(t) : ~Precedes(trail[i], trail[j])}) = n

\* ?as_of=: entry by entry; a row not yet there or deleted is Not Found.
Walked(x, image) == IF x.action = "delete" THEN Gone ELSE x.changed ++ image
RowAsOf(t) ==
  LET image[n \in 0..Cardinality(Heard(t))] ==
        IF n = 0 THEN Gone ELSE Walked(trail[Nth(t, n)], image[n - 1])
  IN  image[Cardinality(Heard(t))]

-------------------------------------------------------------------------------
(* Requests *)

\* Every column's plainest value.
Plainest(c) ==
  IF c.absent \in Values(c.kind) \cup {Null} THEN c.absent
  ELSE CASE c.kind = "text"   -> "short"
         [] c.kind = "ref"    -> "x"
         [] c.kind = "choice" -> "first"
         [] c.kind = "day"    -> "d1"
Plain == [n \in Names |-> Plainest(Column(n))]

\* A row from before the rules.
Legacy ==
  [n \in Names |-> CASE Column(n).kind = "number" -> "neg"
                     [] Column(n).kind = "text" -> "long"
                     [] OTHER -> Plain[n]]

\* Another value in every column.
Other(r) ==
  [n \in Names |->
     IF r[n] = Null \/ Column(n).absent # Null
       THEN CHOOSE v \in Values(Column(n).kind) : v # r[n]
     ELSE Null]

Inputs(n) == Values(Column(n).kind) \cup {Null, "junk"}
One(n, v) == [x \in {n} |-> v]
Without(r, n) == [x \in DOMAIN r \ {n} |-> r[x]]

\* What is sent after reading r: all of it, but for one column.
Edits(r) ==
  {Without(r, n) : n \in Names}
  \cup UNION {{One(n, v) ++ r : v \in Inputs(n)} : n \in Names}

RowInit ==
  /\ surface \in Surfaces /\ IsEntity(entity)
  /\ row \in {Gone, Plain, Legacy}
  /\ deleted = FALSE /\ past = <<>> /\ writes = 0
  /\ trail = IF row = Gone \/ entity.name \notin Recorded THEN <<>>
             ELSE <<Entry("insert", Gone, Image(row, FALSE), 0)>>

Write(action, r, d) ==
  /\ Mounted = "all"
  /\ writes < MaxWrites /\ writes' = writes + 1
  /\ row' = r /\ deleted' = d
  /\ trail' = IF entity.name \notin Recorded \/ Image(r, d) = Image(row, deleted)
                THEN trail
              ELSE Append(trail, Entry(action, Image(row, deleted), Image(r, d),
                                       Len(trail)))
  /\ UNCHANGED <<surface, entity, past>>

\* Ids are new: a purged row is not created again.
Create(q) ==
  /\ row = Gone /\ writes = 0
  /\ CreateTakes(q) /\ Refusals(Gone, Created(q)) = {}
  /\ Write("insert", Created(q), FALSE)

Update(after) ==
  /\ Refusals(row, after) = {}
  /\ Write("update", after, FALSE)

Live == row # Gone /\ ~deleted
PutRow(q) == Live /\ PutTakes(q) /\ Update(Put(row, q))
PatchRow(n, v, spelling) == Live /\ Update(Patched(row, One(n, v), spelling))

SoftDelete == Live /\ Write("update", row, TRUE)
Restore == row # Gone /\ deleted /\ Write("update", row, FALSE)
Purge == row # Gone /\ deleted /\ Write("delete", Gone, FALSE)

\* An instant ends; a write before and one after it differ in occurred_at.
Tick ==
  /\ entity.name \in Recorded /\ Now < LastInstant
  /\ past' = Append(past, Image(row, deleted))
  /\ UNCHANGED <<surface, entity, row, deleted, trail, writes>>

RowNext ==
  \/ \E q \in Edits(Plain) : Create(q)
  \/ row # Gone /\ \E q \in Edits(row) : PutRow(q)
  \/ \E n \in Names : \E v \in Inputs(n), s \in Spellings : PatchRow(n, v, s)
  \/ SoftDelete \/ Restore \/ Purge \/ Tick

RowSpec == RowInit /\ [][RowNext]_rowVars

-------------------------------------------------------------------------------
(* Properties *)

\* A row has a value of its kind in every column.
RowTypeOK ==
  /\ deleted \in BOOLEAN /\ writes \in 0..MaxWrites
  /\ row # Gone => /\ DOMAIN row = Names
                   /\ \A n \in Names : Decodes(n, row[n])

\* salary_slip_line_dto.rs:224, :254, salary_slip_line.rs:74, :161, :327 and their
\* twins: what a reader is shown of a row, sent as a create or a PUT, makes the row
\* again, and so do a PATCH of every column by its own name, new() with its
\* setters and the builder.  As shown, in camelCase, it is no such PATCH: the
\* columns of one word take the row's values and the others stand, without a word.
\* A list shows the row's own values; the fewest columns a create accepts make the
\* row the builder makes of them.
WritesAgree ==
  row # Gone =>
    LET values == [n \in {m \in Names : row[m] # Null} |-> row[n]]
        fewest == [n \in {m \in Names : Column(m).absent = "required"} |-> row[n]]
        other  == Other(row)
    IN  /\ CreateTakes(Shown(row)) /\ Created(Shown(row)) = row
        /\ PutTakes(Shown(row)) /\ Put(other, Shown(row)) = row
        /\ PutTakes(values) /\ Put(other, values) = row
        /\ Patched(other, row, "own") = row
        /\ Patched(other, Brief(row), "own") = Brief(row) ++ other
        /\ Patched(other, Shown(row), "camel") =
             [n \in Names |-> IF n \in OneWord THEN row[n] ELSE other[n]]
        /\ New(values) = row /\ Built(values) = row
        /\ CreateTakes(fewest) /\ Built(fewest) = Created(fewest)
        /\ \A n \in DOMAIN fewest : ~CreateTakes(Without(row, n))
                                   /\ Built(Without(fewest, n))[n] = "required"

\* Columns no reader expects: an amount below nothing, a text too long to print.
Spoiled(r) ==
  IF r = Gone THEN {}
  ELSE {n \in Names : r[n] \in {"neg", "long"} \/ <<n, r[n]>> = <<"name", "blank">>}

\* payroll_entry_service.rs:43 and its twins: whatever is created, put and
\* patched in whatever order, no number turns negative, no text too long and no
\* name blank that was not so before.
NothingSpoils ==
  [][Spoiled(row') \subseteq Spoiled(row)]_rowVars

\* The entries of each instant up to t sort as they were written.
WrittenInOrder(t) ==
  \A i, j \in Heard(t) : i < j /\ trail[i].at = trail[j].at =>
    Precedes(trail[i], trail[j])

\* salary_slip_handler.rs:214: the row as of an instant, walked from the trail, is
\* the row as that instant ended, deleted and restored, purged or not there yet,
\* provided that of no instant so far two entries sort against the order they were
\* written in, as the texts of 9 and 10 do (:269).
AsOfIsTheRow ==
  entity.name \in Recorded =>
    \A t \in 0..Now : WrittenInOrder(t) =>
      RowAsOf(t) = IF t = Now THEN Image(row, deleted) ELSE past[t + 1]

===============================================================================
