-------------------------- MODULE GeneratedRowsProofs --------------------------
(*****************************************************************************)
(* What GeneratedRows guarantees of each of the seven entities, whatever its *)
(* row holds, for any number of requests and of instants.                    *)
(*****************************************************************************)
EXTENDS GeneratedRows, SequenceTheorems, FiniteSetTheorems, TLAPS

-------------------------------------------------------------------------------
(* The five descriptions of an entity agree *)

\* A column has values of its kind, and defaults to one of them or to NULL; the
\* plain row of the model has one for it.
Sound(c) ==
  /\ c.kind \in Kinds
  /\ c.absent \in Values(c.kind) \cup {Null, "required"}
  /\ c.absent = "required" => c.kind \in {"text", "ref", "choice", "day"}

AllSound(takes) == \A n \in DOMAIN takes : Sound(takes[n])

\* The DTOs take, show and copy, new() and apply_patch make, and the builder
\* asks for the same columns.
Regular(e) ==
  LET cols == DOMAIN e.takes
  IN  /\ AllSound(e.takes)
      /\ "deleted_at" \notin cols
      /\ e.dto.copies = cols /\ e.dto.shows = cols /\ e.dto.brief \subseteq cols
      /\ e.makes.given \cup e.makes.settable = cols /\ e.makes.patches = cols
      /\ DOMAIN e.builds = cols /\ \A n \in cols : e.builds[n] = e.takes[n].absent

\* The rules of an entity that some router lets be written cover every number,
\* every text and the name.
Ruled(e) ==
  \A n \in DOMAIN e.takes :
    /\ e.takes[n].kind = "number" => n \in e.rules.positive
    /\ e.takes[n].kind = "text" => n \in e.rules.short
    /\ n = "name" => n \in e.rules.required

\* How descriptions are put together keeps them sound.
LEMMA SoundColumns ==
  ASSUME RowsAssumption
  PROVE  /\ \A names : \A kind \in {"text", "ref", "choice", "day"} :
              AllSound(Given(names, kind))
         /\ \A names : \A kind \in Kinds : AllSound(Maybe(names, kind))
         /\ \A names : \A kind \in Kinds : \A default \in Values(kind) :
              AllSound(Or(names, kind, default))
         /\ \A f, g : AllSound(f) /\ AllSound(g) => AllSound(f ++ g)
<1>1. \A kind \in Kinds : Null \notin Values(kind) /\ "required" \notin Values(kind)
  BY DEF RowsAssumption, Kinds, Values
<1>2. ASSUME NEW names, NEW kind \in {"text", "ref", "choice", "day"}
      PROVE  AllSound(Given(names, kind))
  BY DEF AllSound, Given, Sound, Kinds
<1>3. ASSUME NEW names, NEW kind \in Kinds PROVE AllSound(Maybe(names, kind))
  <2>1. Null # "required"
    BY DEF RowsAssumption, Kinds, Values
  <2>2. \A n \in names : Maybe(names, kind)[n] = [kind |-> kind, absent |-> Null]
    BY DEF Maybe
  <2>3. DOMAIN Maybe(names, kind) = names
    BY DEF Maybe
  <2> QED
    BY <2>1, <2>2, <2>3 DEF AllSound, Sound
<1>4. ASSUME NEW names, NEW kind \in Kinds, NEW default \in Values(kind)
      PROVE  AllSound(Or(names, kind, default))
  BY <1>1 DEF AllSound, Or, Sound
<1>5. \A f, g : AllSound(f) /\ AllSound(g) => AllSound(f ++ g)
  BY DEF AllSound, ++
<1> QED
  BY <1>2, <1>3, <1>4, <1>5

\* The defaults are of their kinds.
LEMMA KindValues ==
  /\ "zero" \in Values("number") /\ "first" \in Values("choice")
  /\ "no" \in Values("flag")
  BY DEF Values

\* Entity by entity: its columns, its defaults and its rules.
LEMMA RunIsRegular ==
  ASSUME RowsAssumption
  PROVE  LET e == Described("run", RunTakes, RunDto, RunMakes, RunBuilds, RunRules)
         IN  Regular(e) /\ Ruled(e)
<1> DEFINE cols == RunDto.copies
<1>1. AllSound(RunTakes)
  BY SoundColumns, KindValues DEF RunTakes, Kinds
<1>2. DOMAIN RunTakes = cols
  BY DEF RunTakes, RunDto, Given, Or, Maybe, ++
<1>3. /\ RunDto.shows = cols /\ RunDto.brief \subseteq cols
      /\ "deleted_at" \notin cols
  BY DEF RunDto
<1>4. /\ RunMakes.given \cup RunMakes.settable = cols
      /\ RunMakes.patches = cols
  BY DEF RunMakes, RunDto
<1>5. /\ DOMAIN RunBuilds = cols
      /\ \A n \in cols : RunBuilds[n] = RunTakes[n].absent
  <2>1. DOMAIN RunBuilds = cols
    BY DEF RunBuilds, RunDto, ++
  <2>2. \A n \in {"period_year", "period_month"} :
         RunBuilds[n] = "required" /\ RunTakes[n].absent = "required"
    BY DEF RunBuilds, RunTakes, Given, Or, Maybe, ++
  <2>3. \A n \in {"posting_date", "timesheet_approval_id", "period_start",
                 "period_end", "salary_expense_account_id",
                 "salary_payable_account_id", "journal_id", "accounting_post_id"} :
         RunBuilds[n] = Null /\ RunTakes[n].absent = Null
    BY DEF RunBuilds, RunTakes, Given, Or, Maybe, ++
  <2>4. \A n \in {"total_gross", "total_deductions", "total_net"} :
         RunBuilds[n] = "zero" /\ RunTakes[n].absent = "zero"
    BY DEF RunBuilds, RunTakes, Given, Or, Maybe, ++
  <2>5. \A n \in {"status"} :
         RunBuilds[n] = "first" /\ RunTakes[n].absent = "first"
    BY SMTT(40) DEF RunBuilds, RunTakes, Given, Or, Maybe, ++
  <2> QED
    BY <2>1, <2>2, <2>3, <2>4, <2>5 DEF RunDto
<1>6. \A n \in cols : /\ RunTakes[n].kind = "number" => n \in RunRules.positive
                      /\ RunTakes[n].kind = "text" => n \in RunRules.short
                      /\ n = "name" => n \in RunRules.required
  BY DEF RunTakes, RunRules, RunDto, Given, Or, Maybe, ++
<1> HIDE DEF cols
<1> QED
  BY <1>1, <1>2, <1>3, <1>4, <1>5, <1>6 DEF Described, Regular, Ruled, cols

LEMMA SlipIsRegular ==
  ASSUME RowsAssumption
  PROVE  LET e == Described("slip", SlipTakes, SlipDto, SlipMakes, SlipBuilds, SlipRules)
         IN  Regular(e) /\ Ruled(e)
<1> DEFINE cols == SlipDto.copies
<1>1. AllSound(SlipTakes)
  BY SoundColumns, KindValues DEF SlipTakes, Kinds
<1>2. DOMAIN SlipTakes = cols
  BY DEF SlipTakes, SlipDto, Given, Or, Maybe, ++
<1>3. /\ SlipDto.shows = cols /\ SlipDto.brief \subseteq cols
      /\ "deleted_at" \notin cols
  BY DEF SlipDto
<1>4. /\ SlipMakes.given \cup SlipMakes.settable = cols
      /\ SlipMakes.patches = cols
  BY DEF SlipMakes, SlipDto
<1>5. /\ DOMAIN SlipBuilds = cols
      /\ \A n \in cols : SlipBuilds[n] = SlipTakes[n].absent
  <2>1. DOMAIN SlipBuilds = cols
    BY DEF SlipBuilds, SlipDto, ++
  <2>2. \A n \in {"payroll_entry_id", "employee_id"} :
         SlipBuilds[n] = "required" /\ SlipTakes[n].absent = "required"
    BY DEF SlipBuilds, SlipTakes, Given, Or, Maybe, ++
  <2>3. \A n \in {"structure_id", "overtime_hours", "tax_method"} :
         SlipBuilds[n] = Null /\ SlipTakes[n].absent = Null
    BY DEF SlipBuilds, SlipTakes, Given, Or, Maybe, ++
  <2>4. \A n \in {"working_days", "unpaid_days", "gross_pay", "total_deductions",
                 "net_pay"} :
         SlipBuilds[n] = "zero" /\ SlipTakes[n].absent = "zero"
    BY DEF SlipBuilds, SlipTakes, Given, Or, Maybe, ++
  <2> QED
    BY <2>1, <2>2, <2>3, <2>4 DEF SlipDto
<1>6. \A n \in cols : /\ SlipTakes[n].kind = "number" => n \in SlipRules.positive
                      /\ SlipTakes[n].kind = "text" => n \in SlipRules.short
                      /\ n = "name" => n \in SlipRules.required
  BY DEF SlipTakes, SlipRules, SlipDto, Given, Or, Maybe, ++
<1> HIDE DEF cols
<1> QED
  BY <1>1, <1>2, <1>3, <1>4, <1>5, <1>6 DEF Described, Regular, Ruled, cols

LEMMA LineIsRegular ==
  ASSUME RowsAssumption
  PROVE  LET e == Described("line", LineTakes, LineDto, LineMakes, LineBuilds, LineRules)
         IN  Regular(e) /\ Ruled(e)
<1> DEFINE cols == LineDto.copies
<1> DEFINE some ==
             Given({"salary_slip_id", "gl_account_id"}, "ref") ++ Given({"name"}, "text")
             ++ Or({"component_type"}, "choice", "first")
<1>0. /\ DOMAIN some = {"salary_slip_id", "gl_account_id", "name", "component_type"}
      /\ LineTakes =
           some ++ Or({"is_statutory"}, "flag", "no") ++ Or({"amount"}, "number", "zero")
           ++ Maybe({"source_kind"}, "text") ++ Maybe({"source_ref"}, "ref")
      /\ \A n \in DOMAIN some :
           some[n] = [kind |-> CASE n = "name" -> "text" [] n = "component_type" -> "choice"
                             [] OTHER -> "ref",
                    absent |-> IF n = "component_type" THEN "first" ELSE "required"]
  BY DEF LineTakes, Given, Or, Maybe, ++
<1> HIDE DEF some
<1>1. AllSound(LineTakes)
  BY SoundColumns, KindValues DEF LineTakes, Kinds
<1>2. DOMAIN LineTakes = cols
  BY <1>0 DEF LineDto, Given, Or, Maybe, ++
<1>3. /\ LineDto.shows = cols /\ LineDto.brief \subseteq cols
      /\ "deleted_at" \notin cols
  BY DEF LineDto
<1>4. /\ LineMakes.given \cup LineMakes.settable = cols
      /\ LineMakes.patches = cols
  BY DEF LineMakes, LineDto
<1>5. /\ DOMAIN LineBuilds = cols
      /\ \A n \in cols : LineBuilds[n] = LineTakes[n].absent
  <2>1. DOMAIN LineBuilds = cols
    BY SMTT(40) DEF LineBuilds, LineDto, ++
  <2>2. \A n \in {"salary_slip_id", "name", "gl_account_id"} :
         LineBuilds[n] = "required" /\ LineTakes[n].absent = "required"
    BY <1>0 DEF LineBuilds, Given, Or, Maybe, ++
  <2>3. \A n \in {"component_type"} :
         LineBuilds[n] = "first" /\ LineTakes[n].absent = "first"
    BY <1>0 DEF LineBuilds, Given, Or, Maybe, ++
  <2>4. \A n \in {"is_statutory"} :
         LineBuilds[n] = "no" /\ LineTakes[n].absent = "no"
    BY <1>0 DEF LineBuilds, Given, Or, Maybe, ++
  <2>5. \A n \in {"amount"} :
         LineBuilds[n] = "zero" /\ LineTakes[n].absent = "zero"
    BY <1>0, SMTT(40) DEF LineBuilds, Given, Or, Maybe, ++
  <2>6. \A n \in {"source_kind", "source_ref"} :
         LineBuilds[n] = Null /\ LineTakes[n].absent = Null
    BY <1>0, SMTT(40) DEF LineBuilds, Given, Or, Maybe, ++
  <2> QED
    BY <2>1, <2>2, <2>3, <2>4, <2>5, <2>6 DEF LineDto
<1>6. \A n \in cols : /\ LineTakes[n].kind = "number" => n \in LineRules.positive
                      /\ LineTakes[n].kind = "text" => n \in LineRules.short
                      /\ n = "name" => n \in LineRules.required
  BY <1>0 DEF LineRules, LineDto, Given, Or, Maybe, ++
<1> HIDE DEF cols
<1> QED
  BY <1>1, <1>2, <1>3, <1>4, <1>5, <1>6 DEF Described, Regular, Ruled, cols

LEMMA StructureIsRegular ==
  ASSUME RowsAssumption
  PROVE  LET e == Described("structure", StructureTakes, StructureDto, StructureMakes,
                            StructureBuilds, StructureRules)
         IN  Regular(e) /\ Ruled(e)
<1> DEFINE cols == StructureDto.copies
<1>1. AllSound(StructureTakes)
  BY SoundColumns, KindValues DEF StructureTakes, Kinds
<1>2. DOMAIN StructureTakes = cols
  BY DEF StructureTakes, StructureDto, Given, Or, Maybe, ++
<1>3. /\ StructureDto.shows = cols /\ StructureDto.brief \subseteq cols
      /\ "deleted_at" \notin cols
  BY DEF StructureDto
<1>4. /\ StructureMakes.given \cup StructureMakes.settable = cols
      /\ StructureMakes.patches = cols
  BY DEF StructureMakes, StructureDto
<1>5. /\ DOMAIN StructureBuilds = cols
      /\ \A n \in cols : StructureBuilds[n] = StructureTakes[n].absent
  <2>1. DOMAIN StructureBuilds = cols
    BY DEF StructureBuilds, StructureDto, ++
  <2>2. \A n \in {"name"} :
         StructureBuilds[n] = "required" /\ StructureTakes[n].absent = "required"
    BY DEF StructureBuilds, StructureTakes, Given, Or, Maybe, ++
  <2>3. \A n \in {"status"} :
         StructureBuilds[n] = "first" /\ StructureTakes[n].absent = "first"
    BY DEF StructureBuilds, StructureTakes, Given, Or, Maybe, ++
  <2> QED
    BY <2>1, <2>2, <2>3 DEF StructureDto
<1>6. \A n \in cols : /\ StructureTakes[n].kind = "number" => n \in StructureRules.positive
                      /\ StructureTakes[n].kind = "text" => n \in StructureRules.short
                      /\ n = "name" => n \in StructureRules.required
  BY DEF StructureTakes, StructureRules, StructureDto, Given, Or, Maybe, ++
<1> HIDE DEF cols
<1> QED
  BY <1>1, <1>2, <1>3, <1>4, <1>5, <1>6 DEF Described, Regular, Ruled, cols

LEMMA ComponentIsRegular ==
  ASSUME RowsAssumption
  PROVE  LET e == Described("component", ComponentTakes, ComponentDto, ComponentMakes,
                            ComponentBuilds, ComponentRules)
         IN  Regular(e) /\ Ruled(e)
<1> DEFINE cols == ComponentDto.copies
<1>1. AllSound(ComponentTakes)
  BY SoundColumns, KindValues DEF ComponentTakes, Kinds
<1>2. DOMAIN ComponentTakes = cols
  BY DEF ComponentTakes, ComponentDto, Given, Or, Maybe, ++
<1>3. /\ ComponentDto.shows = cols /\ ComponentDto.brief \subseteq cols
      /\ "deleted_at" \notin cols
  BY DEF ComponentDto
<1>4. /\ ComponentMakes.given \cup ComponentMakes.settable = cols
      /\ ComponentMakes.patches = cols
  BY DEF ComponentMakes, ComponentDto
<1>5. /\ DOMAIN ComponentBuilds = cols
      /\ \A n \in cols : ComponentBuilds[n] = ComponentTakes[n].absent
  <2>1. DOMAIN ComponentBuilds = cols
    BY DEF ComponentBuilds, ComponentDto, ++
  <2>2. \A n \in {"structure_id", "name", "gl_account_id"} :
         ComponentBuilds[n] = "required" /\ ComponentTakes[n].absent = "required"
    BY DEF ComponentBuilds, ComponentTakes, Given, Or, Maybe, ++
  <2>3. \A n \in {"component_type"} :
         ComponentBuilds[n] = "first" /\ ComponentTakes[n].absent = "first"
    BY DEF ComponentBuilds, ComponentTakes, Given, Or, Maybe, ++
  <2>4. \A n \in {"amount"} :
         ComponentBuilds[n] = "zero" /\ ComponentTakes[n].absent = "zero"
    BY DEF ComponentBuilds, ComponentTakes, Given, Or, Maybe, ++
  <2>5. \A n \in {"is_statutory"} :
         ComponentBuilds[n] = "no" /\ ComponentTakes[n].absent = "no"
    BY DEF ComponentBuilds, ComponentTakes, Given, Or, Maybe, ++
  <2> QED
    BY <2>1, <2>2, <2>3, <2>4, <2>5 DEF ComponentDto
<1>6. \A n \in cols : /\ ComponentTakes[n].kind = "number" => n \in ComponentRules.positive
                      /\ ComponentTakes[n].kind = "text" => n \in ComponentRules.short
                      /\ n = "name" => n \in ComponentRules.required
  BY SMTT(40) DEF ComponentTakes, ComponentRules, ComponentDto, Given, Or, Maybe, ++
<1> HIDE DEF cols
<1> QED
  BY <1>1, <1>2, <1>3, <1>4, <1>5, <1>6 DEF Described, Regular, Ruled, cols

LEMMA VersionIsRegular ==
  ASSUME RowsAssumption
  PROVE  LET e == Described("version", VersionTakes, VersionDto, VersionMakes,
                            VersionBuilds, VersionRules)
         IN  Regular(e)
<1> DEFINE cols == VersionDto.copies
<1> DEFINE some ==
             Given({"component_id", "gl_account_id"}, "ref")
             ++ Given({"effective_from"}, "day") ++ Given({"name"}, "text")
             ++ Or({"component_type"}, "choice", "first")
<1>0. /\ DOMAIN some = {"component_id", "gl_account_id", "effective_from", "name",
                         "component_type"}
      /\ VersionTakes =
           some ++ Or({"amount"}, "number", "zero")
           ++ Or({"is_statutory", "removed"}, "flag", "no") ++ Maybe({"reason"}, "text")
      /\ \A n \in DOMAIN some :
           some[n] = [kind |-> CASE n = "name" -> "text" [] n = "component_type" -> "choice"
                             [] n = "effective_from" -> "day" [] OTHER -> "ref",
                    absent |-> IF n = "component_type" THEN "first" ELSE "required"]
  BY DEF VersionTakes, Given, Or, Maybe, ++
<1> HIDE DEF some
<1>1. AllSound(VersionTakes)
  BY SoundColumns, KindValues DEF VersionTakes, Kinds
<1>2. DOMAIN VersionTakes = cols
  BY <1>0 DEF VersionDto, Given, Or, Maybe, ++
<1>3. /\ VersionDto.shows = cols /\ VersionDto.brief \subseteq cols
      /\ "deleted_at" \notin cols
  BY DEF VersionDto
<1>4. /\ VersionMakes.given \cup VersionMakes.settable = cols
      /\ VersionMakes.patches = cols
  BY DEF VersionMakes, VersionDto
<1>5. /\ DOMAIN VersionBuilds = cols
      /\ \A n \in cols : VersionBuilds[n] = VersionTakes[n].absent
  <2>1. DOMAIN VersionBuilds = cols
    BY DEF VersionBuilds, VersionDto, ++
  <2>2. \A n \in {"component_id", "effective_from", "name", "gl_account_id"} :
         VersionBuilds[n] = "required" /\ VersionTakes[n].absent = "required"
    BY <1>0 DEF VersionBuilds, Given, Or, Maybe, ++
  <2>3. \A n \in {"component_type"} :
         VersionBuilds[n] = "first" /\ VersionTakes[n].absent = "first"
    BY <1>0 DEF VersionBuilds, Given, Or, Maybe, ++
  <2>4. \A n \in {"amount"} :
         VersionBuilds[n] = "zero" /\ VersionTakes[n].absent = "zero"
    BY <1>0 DEF VersionBuilds, Given, Or, Maybe, ++
  <2>5. \A n \in {"is_statutory", "removed"} :
         VersionBuilds[n] = "no" /\ VersionTakes[n].absent = "no"
    BY <1>0 DEF VersionBuilds, Given, Or, Maybe, ++
  <2>6. \A n \in {"reason"} :
         VersionBuilds[n] = Null /\ VersionTakes[n].absent = Null
    BY <1>0 DEF VersionBuilds, Given, Or, Maybe, ++
  <2> QED
    BY <2>1, <2>2, <2>3, <2>4, <2>5, <2>6 DEF VersionDto
<1> HIDE DEF cols
<1> QED
  BY <1>1, <1>2, <1>3, <1>4, <1>5 DEF Described, Regular, cols

LEMMA ChangeIsRegular ==
  ASSUME RowsAssumption
  PROVE  LET e == Described("change", ChangeTakes, ChangeDto, ChangeMakes,
                            ChangeBuilds, ChangeRules)
         IN  Regular(e)
<1> DEFINE cols == ChangeDto.copies
<1>1. AllSound(ChangeTakes)
  BY SoundColumns, KindValues DEF ChangeTakes, Kinds
<1>2. DOMAIN ChangeTakes = cols
  BY DEF ChangeTakes, ChangeDto, Given, Or, Maybe, ++
<1>3. /\ ChangeDto.shows = cols /\ ChangeDto.brief \subseteq cols
      /\ "deleted_at" \notin cols
  BY DEF ChangeDto
<1>4. /\ ChangeMakes.given \cup ChangeMakes.settable = cols
      /\ ChangeMakes.patches = cols
  BY DEF ChangeMakes, ChangeDto
<1>5. /\ DOMAIN ChangeBuilds = cols
      /\ \A n \in cols : ChangeBuilds[n] = ChangeTakes[n].absent
  <2>1. DOMAIN ChangeBuilds = cols
    BY SMTT(40) DEF ChangeBuilds, ChangeDto, ++
  <2>2. \A n \in {"employee_id", "change_type"} :
         ChangeBuilds[n] = "required" /\ ChangeTakes[n].absent = "required"
    BY DEF ChangeBuilds, ChangeTakes, Given, Or, Maybe, ++
  <2>3. \A n \in {"new_amount", "effective_date", "reference_id", "note"} :
         ChangeBuilds[n] = Null /\ ChangeTakes[n].absent = Null
    BY DEF ChangeBuilds, ChangeTakes, Given, Or, Maybe, ++
  <2> QED
    BY <2>1, <2>2, <2>3 DEF ChangeDto
<1> HIDE DEF cols
<1> QED
  BY <1>1, <1>2, <1>3, <1>4, <1>5 DEF Described, Regular, cols

\* Every entity is described the same way five times over; no router lets a
\* version or a change be written, so their rules are not needed.
LEMMA EntitiesAreRegular ==
  ASSUME RowsAssumption, NEW e, IsEntity(e)
  PROVE  Regular(e) /\ (e.name \notin {"version", "change"} => Ruled(e))
<1>1. CASE e = Described("run", RunTakes, RunDto, RunMakes, RunBuilds, RunRules)
  BY ONLY <1>1, RowsAssumption, RunIsRegular
<1>2. CASE e = Described("slip", SlipTakes, SlipDto, SlipMakes, SlipBuilds,
                         SlipRules)
  BY ONLY <1>2, RowsAssumption, SlipIsRegular
<1>3. CASE e = Described("line", LineTakes, LineDto, LineMakes, LineBuilds,
                         LineRules)
  BY ONLY <1>3, RowsAssumption, LineIsRegular
<1>4. CASE e = Described("structure", StructureTakes, StructureDto,
                         StructureMakes, StructureBuilds, StructureRules)
  BY ONLY <1>4, RowsAssumption, StructureIsRegular
<1>5. CASE e = Described("component", ComponentTakes, ComponentDto,
                         ComponentMakes, ComponentBuilds, ComponentRules)
  BY ONLY <1>5, RowsAssumption, ComponentIsRegular
<1>6. CASE e = Described("version", VersionTakes, VersionDto, VersionMakes,
                         VersionBuilds, VersionRules)
  <2>1. Regular(e)
    BY ONLY <1>6, RowsAssumption, VersionIsRegular
  <2>2. e.name = "version"
    BY <1>6 DEF Described
  <2> QED
    BY <2>1, <2>2
<1>7. CASE e = Described("change", ChangeTakes, ChangeDto, ChangeMakes,
                         ChangeBuilds, ChangeRules)
  <2>1. Regular(e)
    BY ONLY <1>7, RowsAssumption, ChangeIsRegular
  <2>2. e.name = "change"
    BY <1>7 DEF Described
  <2> QED
    BY <2>1, <2>2
<1> QED
  BY <1>1, <1>2, <1>3, <1>4, <1>5, <1>6, <1>7 DEF IsEntity

-------------------------------------------------------------------------------
(* What a row may hold *)

\* A value of its kind in every column of the entity.
Filled(r) ==
  /\ r = [n \in Names |-> r[n]]
  /\ \A n \in Names : Decodes(n, r[n])

RowInv ==
  /\ surface \in Surfaces /\ IsEntity(entity)
  /\ deleted \in BOOLEAN /\ writes \in 0..MaxWrites
  /\ row # Gone => Filled(row)

\* A create leaves no column without a value of its kind, ...
LEMMA CreatedIsFilled ==
  ASSUME Regular(entity), NEW q, CreateTakes(q)
  PROVE  Filled(Created(q))
<1>1. Created(q) = [n \in Names |-> IF n \in DOMAIN q THEN q[n] ELSE Column(n).absent]
  BY DEF Created, Regular, Names
<1>2. ASSUME NEW n \in Names PROVE Decodes(n, Created(q)[n])
  <2>1. CASE n \in DOMAIN q
    BY <1>1, <2>1 DEF CreateTakes, Decodable
  <2>2. CASE n \notin DOMAIN q
    <3>1. Column(n).absent \in Values(Column(n).kind) \cup {Null}
      BY <2>2 DEF CreateTakes, Regular, AllSound, Sound, Names, Column
    <3> QED
      BY <1>1, <2>2, <3>1 DEF Decodes
  <2> QED
    BY <2>1, <2>2
<1> QED
  BY <1>1, <1>2 DEF Filled

\* ... nor does a PUT, ...
LEMMA PutIsFilled ==
  ASSUME Regular(entity), NEW r, NEW q, PutTakes(q)
  PROVE  Filled(Put(r, q))
<1>1. Put(r, q) = [n \in Names |-> IF n \in DOMAIN q THEN q[n] ELSE Null]
  BY DEF Put, Regular, Names
<1>2. ASSUME NEW n \in Names PROVE Decodes(n, Put(r, q)[n])
  BY <1>1 DEF PutTakes, Decodable, Decodes
<1> QED
  BY <1>1, <1>2 DEF Filled

\* ... a PATCH of a row that has them, ...
LEMMA PatchedIsFilled ==
  ASSUME NEW r, NEW q, NEW spelling, Filled(r)
  PROVE  Filled(Patched(r, q, spelling))
  BY DEF Patched, Filled

\* ... nor the rows there are at first.
LEMMA FirstRowsAreFilled ==
  ASSUME Regular(entity)
  PROVE  Filled(Plain) /\ Filled(Legacy)
<1>1. ASSUME NEW n \in Names PROVE Decodes(n, Plain[n])
  <2>1. Sound(Column(n))
    BY DEF Regular, AllSound, Names, Column
  <2>2. CASE Column(n).absent \in Values(Column(n).kind) \cup {Null}
    BY <2>2 DEF Plain, Plainest, Decodes
  <2>3. CASE Column(n).absent \notin Values(Column(n).kind) \cup {Null}
    BY <2>1, <2>3 DEF Plain, Plainest, Decodes, Sound, Values
  <2> QED
    BY <2>2, <2>3
<1>2. ASSUME NEW n \in Names PROVE Decodes(n, Legacy[n])
  BY <1>1 DEF Legacy, Decodes, Values
<1>3. Plain = [n \in Names |-> Plain[n]]
  BY DEF Plain
<1>4. Legacy = [n \in Names |-> Legacy[n]]
  BY DEF Legacy
<1> QED
  BY <1>1, <1>2, <1>3, <1>4 DEF Filled

LEMMA FirstRowInv ==
  ASSUME RowsAssumption, RowInit
  PROVE  RowInv
<1>1. Regular(entity)
  BY EntitiesAreRegular DEF RowInit
<1>2. row # Gone => Filled(row)
  BY <1>1, FirstRowsAreFilled DEF RowInit
<1>3. surface \in Surfaces /\ IsEntity(entity) /\ deleted = FALSE /\ writes = 0
  BY DEF RowInit
<1>4. 0 \in 0..MaxWrites
  BY DEF RowsAssumption
<1> QED
  BY <1>2, <1>3, <1>4 DEF RowInv

\* What each request leaves of the row.
LEMMA RowLeft ==
  ASSUME RowsAssumption, RowInv, RowNext
  PROVE  /\ UNCHANGED <<surface, entity>> /\ deleted' \in BOOLEAN
         /\ writes' \in 0..MaxWrites
         /\ row' # Gone => Filled(row')
<1>1. Regular(entity)
  BY EntitiesAreRegular DEF RowInv
<1>2. ASSUME NEW action, NEW r, NEW d \in BOOLEAN, Write(action, r, d),
             r # Gone => Filled(r)
      PROVE  /\ UNCHANGED <<surface, entity>> /\ deleted' \in BOOLEAN
             /\ writes' \in 0..MaxWrites
             /\ row' # Gone => Filled(row')
  BY <1>2 DEF Write, RowInv, RowsAssumption
<1>3. ASSUME NEW q \in Edits(Plain), Create(q)
      PROVE  Filled(Created(q)) /\ Write("insert", Created(q), FALSE)
  BY <1>1, <1>3, CreatedIsFilled DEF Create
<1>4. ASSUME NEW q \in Edits(row), PutRow(q)
      PROVE  Filled(Put(row, q)) /\ Write("update", Put(row, q), FALSE)
  BY <1>1, <1>4, PutIsFilled DEF PutRow, Update
<1>5. ASSUME NEW n, NEW v, NEW s, PatchRow(n, v, s)
      PROVE  /\ Filled(Patched(row, One(n, v), s))
             /\ Write("update", Patched(row, One(n, v), s), FALSE)
  BY <1>5, PatchedIsFilled DEF PatchRow, Update, Live, RowInv
<1>6. CASE \E q \in Edits(Plain) : Create(q)
  BY <1>2, <1>3, <1>6
<1>7. CASE \E q \in Edits(row) : PutRow(q)
  BY <1>2, <1>4, <1>7
<1>8. CASE \E n \in Names : \E v \in Inputs(n), s \in Spellings : PatchRow(n, v, s)
  BY <1>2, <1>5, <1>8
<1>9. CASE SoftDelete \/ Restore \/ Purge
  BY <1>2, <1>9 DEF SoftDelete, Restore, Purge, RowInv
<1>10. CASE Tick
  BY <1>10 DEF Tick, RowInv
<1> QED
  BY <1>6, <1>7, <1>8, <1>9, <1>10 DEF RowNext

\* So a row always has a value of its kind in every column.
LEMMA NextRowInv ==
  ASSUME RowsAssumption, RowInv, [RowNext]_rowVars
  PROVE  RowInv'
<1>1. CASE RowNext
  <2>1. UNCHANGED <<surface, entity>> /\ deleted' \in BOOLEAN
        /\ writes' \in 0..MaxWrites /\ (row' # Gone => Filled(row'))
    BY <1>1, RowLeft
  <2>2. row' # Gone => Filled(row)'
    BY <2>1 DEF Filled, Names, Decodes, Column
  <2> QED
    BY <2>1, <2>2 DEF RowInv, IsEntity, Gone
<1>2. CASE UNCHANGED rowVars
  BY <1>2 DEF rowVars, RowInv, Filled, Names, Decodes, Column, IsEntity
<1> QED
  BY <1>1, <1>2

\* Whatever is created, put and patched: a value of its kind in every column.
THEOREM RowTypes ==
  ASSUME RowsAssumption
  PROVE  RowSpec => []RowTypeOK
<1>1. RowInv => RowTypeOK
  <2> SUFFICES ASSUME RowInv, row # Gone PROVE DOMAIN row = Names
    BY DEF RowInv, RowTypeOK, Filled
  <2> QED
    BY DEF RowInv, Filled
<1> QED
  BY <1>1, FirstRowInv, NextRowInv, PTL DEF RowSpec

-------------------------------------------------------------------------------
(* What is written is what is read *)

\* A row read back can be sent.
LEMMA RequestsDecode ==
  ASSUME Filled(row)
  PROVE  LET values == [n \in {m \in Names : row[m] # Null} |-> row[n]]
             fewest == [n \in {m \in Names : Column(m).absent = "required"} |-> row[n]]
         IN  Decodable(row) /\ Decodable(values) /\ Decodable(fewest)
<1>1. DOMAIN row = Names
  BY DEF Filled
<1> QED
  BY <1>1 DEF Filled, Decodable

\* The ways to write a row agree on any row with a value in every column.
LEMMA WritesAgreeOnFilled ==
  ASSUME Regular(entity), RowsAssumption, Filled(row)
  PROVE  LET values == [n \in {m \in Names : row[m] # Null} |-> row[n]]
             fewest == [n \in {m \in Names : Column(m).absent = "required"} |-> row[n]]
             other  == Other(row)
         IN  /\ CreateTakes(Shown(row)) /\ Created(Shown(row)) = row
             /\ PutTakes(Shown(row)) /\ Put(other, Shown(row)) = row
             /\ PutTakes(values) /\ Put(other, values) = row
             /\ Patched(other, row, "own") = row
             /\ Patched(other, Brief(row), "own") = Brief(row) ++ other
             /\ Patched(other, Shown(row), "camel") =
                  [n \in Names |-> IF n \in OneWord THEN row[n] ELSE other[n]]
             /\ New(values) = row /\ Built(values) = row
             /\ CreateTakes(fewest) /\ Built(fewest) = Created(fewest)
             /\ \A n \in DOMAIN fewest : ~CreateTakes(Without(row, n))
                                        /\ Built(Without(fewest, n))[n] = "required"
<1> DEFINE values == [n \in {m \in Names : row[m] # Null} |-> row[n]]
           fewest == [n \in {m \in Names : Column(m).absent = "required"} |-> row[n]]
<1>1. /\ row = [n \in Names |-> row[n]] /\ DOMAIN row = Names
      /\ \A n \in Names : Decodes(n, row[n])
  BY DEF Filled
<1>2. Decodable(row) /\ Decodable(values) /\ Decodable(fewest)
  BY RequestsDecode
<1>3. /\ entity.dto.copies = Names /\ entity.dto.shows = Names
      /\ entity.dto.brief \subseteq Names
      /\ entity.makes.given \cup entity.makes.settable = Names
      /\ entity.makes.patches = Names
      /\ DOMAIN entity.builds = Names
      /\ \A n \in Names : entity.builds[n] = Column(n).absent
  BY DEF Regular, Names, Column
<1>4. ASSUME NEW n \in Names, row[n] = Null PROVE Column(n).absent = Null
  <2>1. Sound(Column(n))
    BY DEF Regular, AllSound, Names, Column
  <2>2. Null \notin Values(Column(n).kind)
    BY <2>1 DEF Sound, RowsAssumption
  <2> QED
    BY <1>1, <1>4, <2>2 DEF Decodes
<1>5. Shown(row) = row
  BY <1>1, <1>3 DEF Shown
<1>6. CreateTakes(row) /\ Created(row) = row
  BY <1>1, <1>2, <1>3 DEF CreateTakes, Created
<1>7. PutTakes(row) /\ Put(Other(row), row) = row
  BY <1>1, <1>2, <1>3 DEF PutTakes, Put
<1>8. PutTakes(values) /\ Put(Other(row), values) = row
  BY <1>1, <1>2, <1>3, <1>4 DEF PutTakes, Put
<1>9. /\ Known("own") = Names
      /\ Known("camel") = Names \cap OneWord
  BY <1>3 DEF Known
<1>10. /\ Patched(Other(row), row, "own") = row
       /\ Patched(Other(row), row, "camel") =
            [n \in Names |-> IF n \in OneWord THEN row[n] ELSE Other(row)[n]]
  BY <1>1, <1>9 DEF Patched
<1>11. Patched(Other(row), Brief(row), "own") = Brief(row) ++ Other(row)
  <2>1. DOMAIN Other(row) = Names
    BY DEF Other
  <2>2. DOMAIN Brief(row) = entity.dto.brief
    BY DEF Brief
  <2>3. \A n \in entity.dto.brief : Brief(row)[n] = row[n]
    BY DEF Brief
  <2> QED
    BY <1>1, <1>3, <1>9, <2>1, <2>2, <2>3 DEF Patched, ++
<1>12. New(values) = row
  BY <1>1, <1>3 DEF New
<1>13. Built(values) = row
  BY <1>1, <1>3, <1>4 DEF Built
<1>14. CreateTakes(fewest) /\ Built(fewest) = Created(fewest)
  BY <1>1, <1>2, <1>3 DEF CreateTakes, Created, Built
<1>15. ASSUME NEW n \in DOMAIN fewest
       PROVE  /\ ~CreateTakes(Without(row, n))
              /\ Built(Without(fewest, n))[n] = "required"
  BY <1>1, <1>3 DEF CreateTakes, Built, Without
<1> QED
  BY <1>5, <1>6, <1>7, <1>8, <1>10, <1>11, <1>12, <1>13,
     <1>14, <1>15

\* What a reader is shown of any row makes the row again as a create or a PUT, and
\* so do a PATCH by the columns' own names, new() with its setters and the builder,
\* for each of the seven entities; a PATCH by the names shown moves the columns of
\* one word and no other.
THEOREM WritesAgreeAlways ==
  ASSUME RowsAssumption
  PROVE  RowSpec => []WritesAgree
<1>1. RowInv => WritesAgree
  <2> SUFFICES ASSUME RowInv, row # Gone PROVE WritesAgree
    BY DEF WritesAgree
  <2>1. Regular(entity) /\ Filled(row)
    BY EntitiesAreRegular DEF RowInv
  <2> QED
    BY <2>1, WritesAgreeOnFilled DEF WritesAgree
<1> QED
  BY <1>1, FirstRowInv, NextRowInv, PTL DEF RowSpec

-------------------------------------------------------------------------------
(* The rules of what is written *)

\* Every router that lets an entity be written lets it be written under rules that
\* cover its columns.
LEMMA WrittenIsRuled ==
  ASSUME RowsAssumption, RowInv, Mounted = "all"
  PROVE  Ruled(entity)
<1>1. surface \in {"guarded", "all", "readonly"}
  BY DEF RowInv, RowsAssumption
<1>2. entity.name \notin {"version", "change"}
  BY <1>1 DEF Mounted, GuardedRoutes, AllCrudRoutes, ReadonlyRoutes
<1> QED
  BY <1>2, EntitiesAreRegular DEF RowInv

\* A column spoiled in a row breaks a rule of it.
LEMMA SpoiledIsBroken ==
  ASSUME RowsAssumption, Ruled(entity), Regular(entity), NEW r, Filled(r)
  PROVE  Spoiled(r) \subseteq Broken(r)
<1> SUFFICES ASSUME NEW n \in Spoiled(r) PROVE n \in Broken(r)
  OBVIOUS
<1>1. /\ n \in Names /\ Decodes(n, r[n])
      /\ r[n] \in {"neg", "long"} \/ (n = "name" /\ r[n] = "blank")
  BY DEF Spoiled, Filled
<1>2. Column(n).kind \in Kinds
  BY <1>1 DEF Regular, AllSound, Sound, Names, Column
<1>3. Null \notin {"neg", "long", "blank"}
  BY DEF RowsAssumption, Kinds, Values
<1>4. r[n] \in Values(Column(n).kind)
  BY <1>1, <1>3 DEF Decodes
<1>5. r[n] = "neg" => Column(n).kind = "number"
  BY <1>2, <1>4 DEF Kinds, Values
<1>6. r[n] = "long" => Column(n).kind = "text"
  BY <1>2, <1>4 DEF Kinds, Values
<1> QED
  BY <1>1, <1>5, <1>6 DEF Ruled, Names, Column, Broken

\* Step by step: what breaks a rule was there before.
LEMMA NextSpoilsNothing ==
  ASSUME RowsAssumption, RowInv, [RowNext]_rowVars
  PROVE  Spoiled(row') \subseteq Spoiled(row)
<1>1. Regular(entity)
  BY EntitiesAreRegular DEF RowInv
<1>2. ASSUME NEW action, NEW r, NEW d, Write(action, r, d), Filled(r),
             Refusals(row, r) = {}
      PROVE  Spoiled(row') \subseteq Spoiled(row)
  <2>1. Ruled(entity)
    BY <1>2, WrittenIsRuled DEF Write
  <2>2. Spoiled(r) \subseteq Broken(r)
    BY <1>1, <1>2, <2>1, SpoiledIsBroken
  <2>3. \A n \in Spoiled(r) : row # Gone /\ row[n] = r[n]
    BY <1>2, <2>2 DEF Refusals
  <2>4. Spoiled(r) \subseteq Spoiled(row)
    BY <2>3 DEF Spoiled
  <2> QED
    BY <1>2, <2>4 DEF Write
<1>3. CASE \E q \in Edits(Plain) : Create(q)
  <2>1. PICK q : Create(q)
    BY <1>3
  <2>2. Filled(Created(q)) /\ Refusals(row, Created(q)) = {}
    BY <1>1, <2>1, CreatedIsFilled DEF Create
  <2> QED
    BY <1>2, <2>1, <2>2 DEF Create
<1>4. CASE \E q \in Edits(row) : PutRow(q)
  BY <1>1, <1>2, <1>4, PutIsFilled DEF PutRow, Update
<1>5. CASE \E n \in Names : \E v \in Inputs(n), s \in Spellings : PatchRow(n, v, s)
  <2>1. PICK n, v, s : PatchRow(n, v, s)
    BY <1>5
  <2>2. Filled(Patched(row, One(n, v), s))
    BY <2>1, PatchedIsFilled DEF PatchRow, Live, RowInv
  <2> QED
    BY <1>2, <2>1, <2>2 DEF PatchRow, Update
<1>6. CASE SoftDelete \/ Restore
  BY <1>6 DEF SoftDelete, Restore, Write
<1>7. CASE Purge
  BY <1>7 DEF Purge, Write, Spoiled
<1>8. CASE Tick \/ UNCHANGED rowVars
  BY <1>8 DEF Tick, rowVars
<1> QED
  BY <1>3, <1>4, <1>5, <1>6, <1>7, <1>8 DEF RowNext

\* Under no router, of no entity: no order of creates, PUTs and PATCHes turns a
\* number negative, a text too long or a name blank.
THEOREM NothingEverSpoils ==
  ASSUME RowsAssumption
  PROVE  RowSpec => NothingSpoils
<1>1. RowInv /\ [RowNext]_rowVars => [Spoiled(row') \subseteq Spoiled(row)]_rowVars
  BY NextSpoilsNothing
<1> QED
  BY <1>1, FirstRowInv, NextRowInv, PTL DEF RowSpec, NothingSpoils

-------------------------------------------------------------------------------
(* The history read off the trail *)

\* f is the row after each of the first k entries of tr.
IsHistory(tr, k, f) ==
  f = [n \in 0..k |-> IF n = 0 THEN Gone ELSE Walked(tr[n], f[n - 1])]

IsSequence(s) == s \in Seq({s[i] : i \in 1..Len(s)})

\* The first k entries have a history, and it ends with r.
EndsWith(tr, k, r) ==
  /\ \E f : IsHistory(tr, k, f)
  /\ \A f : IsHistory(tr, k, f) => f[k] = r

\* The entries up to an instant are the first few, and their history ends with the
\* row as the instant ended, or as it is now.
Traced(tr, ended, now) ==
  \A t \in 0..Len(ended) : \E k \in 0..Len(tr) :
    /\ {i \in 1..Len(tr) : tr[i].at <= t} = 1..k
    /\ EndsWith(tr, k, IF t = Len(ended) THEN now ELSE ended[t + 1])

\* Every entry is of an instant so far, and of a transaction with a place.
WithinPast(tr, ended) ==
  \A i \in 1..Len(tr) : /\ tr[i].at \in 0..Len(ended)
                        /\ tr[i].txid \in 0..MaxWrites

TrailInv ==
  /\ IsSequence(past) /\ IsSequence(trail) /\ WithinPast(trail, past)
  /\ Len(trail) <= writes + 1
  /\ entity.name \in Recorded => Traced(trail, past, Image(row, deleted))

\* A sequence is one of its own elements ...
LEMMA SequenceOfItsOwn ==
  ASSUME NEW S, NEW s \in Seq(S)
  PROVE  IsSequence(s)
<1>1. Len(s) \in Nat /\ DOMAIN s = 1..Len(s) /\ s \in [1..Len(s) -> S]
  OBVIOUS
<1>2. s \in [1..Len(s) -> {s[i] : i \in 1..Len(s)}]
  BY <1>1
<1> QED
  BY <1>1, <1>2, SeqDef, SMTT(40) DEF IsSequence

\* ... and goes on by one.
LEMMA Appended ==
  ASSUME NEW s, IsSequence(s), NEW x
  PROVE  /\ IsSequence(Append(s, x)) /\ Len(s) \in Nat /\ Len(Append(s, x)) = Len(s) + 1
         /\ \A i \in 1..Len(s) : Append(s, x)[i] = s[i]
         /\ Append(s, x)[Len(s) + 1] = x
<1> DEFINE S == {s[i] : i \in 1..Len(s)} \cup {x}
<1>1. s \in Seq(S)
  BY DEF IsSequence
<1> HIDE DEF S
<1>2. x \in S
  BY DEF S
<1>3. Append(s, x) \in Seq(S)
  BY <1>1, <1>2
<1>4. IsSequence(Append(s, x))
  BY ONLY <1>3, SequenceOfItsOwn
<1> QED
  BY <1>1, <1>2, <1>4

\* Before the first entry there is no row.
LEMMA HistoryOfNothing ==
  ASSUME NEW tr
  PROVE  EndsWith(tr, 0, Gone)
<1>1. 0..0 = {0}
  OBVIOUS
<1>2. IsHistory(tr, 0, [n \in {0} |-> Gone])
  BY <1>1 DEF IsHistory
<1>3. ASSUME NEW f, IsHistory(tr, 0, f) PROVE f[0] = Gone
  BY <1>1, <1>3 DEF IsHistory
<1> QED
  BY <1>2, <1>3 DEF EndsWith

\* A history goes on by one entry.
LEMMA HistoryGoesOn ==
  ASSUME NEW tr, NEW k \in Nat, NEW now, EndsWith(tr, k, now)
  PROVE  EndsWith(tr, k + 1, Walked(tr[k + 1], now))
<1> DEFINE next == Walked(tr[k + 1], now)
<1>1. ASSUME NEW f, IsHistory(tr, k + 1, f)
      PROVE  f[k + 1] = next
  <2> DEFINE g == [n \in 0..k |-> f[n]]
  <2>1. \A n \in 0..(k + 1) :
          f[n] = IF n = 0 THEN Gone ELSE Walked(tr[n], f[n - 1])
    BY <1>1, Zenon DEF IsHistory
  <2>2. \A n \in 0..k : g[n] = IF n = 0 THEN Gone ELSE Walked(tr[n], g[n - 1])
    BY <2>1
  <2>3. g = [n \in 0..k |-> g[n]]
    OBVIOUS
  <2> HIDE DEF g
  <2>4. IsHistory(tr, k, g)
    BY <2>2, <2>3 DEF IsHistory
  <2>5. g[k] = now
    BY <2>4 DEF EndsWith
  <2>6. f[k] = now
    BY <2>5 DEF g
  <2> QED
    BY <2>1, <2>6
<1>2. \E f : IsHistory(tr, k + 1, f)
  <2>1. PICK g : IsHistory(tr, k, g)
    BY DEF EndsWith
  <2>2. \A n \in 0..k : g[n] = IF n = 0 THEN Gone ELSE Walked(tr[n], g[n - 1])
    BY <2>1, Zenon DEF IsHistory
  <2>3. g[k] = now
    BY <2>1 DEF EndsWith
  <2> DEFINE f == [n \in 0..(k + 1) |-> IF n = k + 1 THEN next ELSE g[n]]
  <2> HIDE DEF next
  <2>4. ASSUME NEW n \in 0..(k + 1)
        PROVE  f[n] = IF n = 0 THEN Gone ELSE Walked(tr[n], f[n - 1])
    <3>1. CASE n = k + 1
      BY <2>3, <3>1 DEF next
    <3>2. CASE n \in 0..k
      BY <2>2, <3>2
    <3> QED
      BY <3>1, <3>2
  <2>5. f = [n \in 0..(k + 1) |-> f[n]]
    OBVIOUS
  <2> HIDE DEF f
  <2>6. IsHistory(tr, k + 1, f)
    BY <2>4, <2>5 DEF IsHistory
  <2> QED
    BY <2>6
<1> QED
  BY <1>1, <1>2 DEF EndsWith

\* It is of the first entries alone.
LEMMA SameHistory ==
  ASSUME NEW tr, NEW more, NEW k \in Nat, NEW r, EndsWith(tr, k, r),
         \A i \in 1..k : more[i] = tr[i]
  PROVE  EndsWith(more, k, r)
<1>1. ASSUME NEW f PROVE IsHistory(tr, k, f) <=> IsHistory(more, k, f)
  BY DEF IsHistory
<1> QED
  BY <1>1 DEF EndsWith

\* Entries stand as their instants came.
LEMMA InstantsAscend ==
  ASSUME NEW tr, NEW ended, NEW now, IsSequence(tr), IsSequence(ended),
         WithinPast(tr, ended), Traced(tr, ended, now),
         NEW i \in 1..Len(tr), NEW j \in 1..Len(tr), i < j
  PROVE  tr[i].at <= tr[j].at
<1>1. tr[j].at \in 0..Len(ended) /\ Len(tr) \in Nat
  BY DEF WithinPast, IsSequence
<1>2. PICK k \in 0..Len(tr) : {n \in 1..Len(tr) : tr[n].at <= tr[j].at} = 1..k
  BY <1>1 DEF Traced
<1>3. j \in 1..k
  BY <1>1, <1>2
<1>4. i \in 1..k
  BY <1>1, <1>3
<1> QED
  BY <1>2, <1>4

\* Where the entries sort as they were written the reader walks that history.
LEMMA AsOfIsTheHistory ==
  ASSUME RowsAssumption, NEW t, NEW k \in Nat, Heard(t) = 1..k,
         WithinPast(trail, past), NEW r, EndsWith(trail, k, r), WrittenInOrder(t),
         \A i, j \in Heard(t) : i < j => trail[i].at <= trail[j].at
  PROVE  RowAsOf(t) = r
<1>1. \A i \in 1..k : /\ trail[i].at \in Int
                      /\ TextPlace[trail[i].txid] \in Int
  BY DEF Heard, WithinPast, RowsAssumption
<1>2. \A i, j \in 1..k : i < j => Precedes(trail[i], trail[j])
  BY <1>1 DEF WrittenInOrder, Precedes
<1>3. \A i, j \in 1..k : j <= i => ~Precedes(trail[i], trail[j])
  BY <1>1, <1>2 DEF Precedes
<1>4. ASSUME NEW i \in 1..k
      PROVE  Cardinality({j \in 1..k : ~Precedes(trail[i], trail[j])}) = i
  <2>1. {j \in 1..k : ~Precedes(trail[i], trail[j])} = 1..i
    BY <1>2, <1>3
  <2>2. Cardinality(1..i) = i
    BY FS_Interval
  <2> QED
    BY <2>1, <2>2, Zenon
<1>5. \A n \in 1..k : Nth(t, n) = n
  BY <1>4 DEF Nth
<1>6. Cardinality(Heard(t)) = k
  BY FS_Interval
<1> DEFINE asked == CHOOSE f : f = [n \in 0..k |-> IF n = 0 THEN Gone
                                        ELSE Walked(trail[Nth(t, n)], f[n - 1])]
<1>7. RowAsOf(t) = asked[k]
  BY <1>6, Zenon DEF RowAsOf
<1>8. ASSUME NEW f
      PROVE  IsHistory(trail, k, f) <=>
               f = [n \in 0..k |-> IF n = 0 THEN Gone
                                   ELSE Walked(trail[Nth(t, n)], f[n - 1])]
  BY <1>5 DEF IsHistory
<1>9. \E f : IsHistory(trail, k, f)
  BY DEF EndsWith
<1>10. IsHistory(trail, k, asked)
  <2> SUFFICES asked = [n \in 0..k |-> IF n = 0 THEN Gone
                                       ELSE Walked(trail[Nth(t, n)], asked[n - 1])]
    BY <1>8
  <2> QED
    BY <1>8, <1>9, Zenon
<1> HIDE DEF asked
<1> QED
  BY <1>7, <1>10 DEF EndsWith

\* The image of a row has its columns and the mark of deletion.
LEMMA ImageColumns ==
  ASSUME NEW r, NEW d, r # Gone, Filled(r)
  PROVE  /\ DOMAIN Image(r, d) = Names \cup {"deleted_at"}
         /\ Image(r, d) = [n \in Names \cup {"deleted_at"} |-> Image(r, d)[n]]
<1>1. DOMAIN r = Names
  BY DEF Filled
<1>2. Image(r, d) = r ++ [deleted_at |-> d]
  BY DEF Image
<1>3. DOMAIN [deleted_at |-> d] = {"deleted_at"}
  OBVIOUS
<1> QED
  BY <1>1, <1>2, <1>3 DEF ++

\* The trigger's entry makes the row it was written for of the row before it.
LEMMA EntryIsTheWrite ==
  ASSUME NEW before, before = Gone \/ DOMAIN before = Names \cup {"deleted_at"},
         NEW action, NEW k, NEW r, NEW d, r # Gone => Filled(r) /\ action # "delete",
         r = Gone => action = "delete"
  PROVE  Walked(Entry(action, before, Image(r, d), k), before) = Image(r, d)
<1> DEFINE after == Image(r, d)
           x == Entry(action, before, after, k)
<1>1. x.action = action
  BY DEF Entry
<1>2. CASE r = Gone
  BY <1>1, <1>2 DEF Walked, Image
<1>3. CASE r # Gone
  <2> DEFINE cols == Names \cup {"deleted_at"}
             c == x.changed
  <2>1. after = [n \in cols |-> after[n]] /\ DOMAIN after = cols
    BY <1>3, ImageColumns
  <2>2. after # Gone
    BY <2>1 DEF Gone
  <2> HIDE DEF after
  <2>3. c = [n \in {m \in DOMAIN after : before = Gone \/ before[m] # after[m]}
                       |-> after[n]]
    BY <2>2 DEF Entry
  <2>4. DOMAIN c = {m \in cols : before = Gone \/ before[m] # after[m]}
    BY <2>1, <2>3
  <2>5. \A n \in DOMAIN c : c[n] = after[n]
    BY <2>3
  <2>6. Walked(x, before) = c ++ before
    BY <1>1, <1>3 DEF Walked
  <2> HIDE DEF c, x, cols
  <2>7. CASE before = Gone
    <3>1. DOMAIN before = {}
      BY <2>7 DEF Gone
    <3> QED
      BY <2>1, <2>4, <2>5, <2>6, <2>7, <3>1 DEF ++, x, after
  <2>8. CASE before # Gone
    <3>1. DOMAIN before = cols
      BY <2>8 DEF cols
    <3>2. c ++ before = after
      BY <2>1, <2>4, <2>5, <2>8, <3>1 DEF ++
    <3> QED
      BY <2>6, <3>2 DEF x, after
  <2> QED
    BY <2>7, <2>8
<1> QED
  BY <1>2, <1>3

\* No entry, or the one of a row there was at first.
LEMMA TracedAtFirst ==
  ASSUME RowsAssumption, NEW x, x.at = 0, x.txid = 0, NEW now, Walked(x, Gone) = now
  PROVE  /\ IsSequence(<<>>) /\ IsSequence(<<x>>)
         /\ Traced(<<>>, <<>>, Gone) /\ Traced(<<x>>, <<>>, now)
         /\ WithinPast(<<>>, <<>>) /\ WithinPast(<<x>>, <<>>)
<1>1. IsSequence(<<>>) /\ Len(<<>>) = 0 /\ 0..0 = {0} /\ 1..0 = {}
  BY DEF IsSequence
<1>2. Traced(<<>>, <<>>, Gone)
  BY <1>1, HistoryOfNothing DEF Traced
<1>3. IsSequence(<<x>>) /\ Len(<<x>>) = 1 /\ <<x>>[1] = x /\ 1..1 = {1}
  <2>1. <<x>> \in Seq({x}) /\ Len(<<x>>) = 1 /\ <<x>>[1] = x /\ 1..1 = {1}
    OBVIOUS
  <2>2. IsSequence(<<x>>)
    BY ONLY <2>1, SequenceOfItsOwn
  <2> QED
    BY <2>1, <2>2
<1>4. EndsWith(<<x>>, 1, now)
  <2>1. EndsWith(<<x>>, 0 + 1, Walked(<<x>>[0 + 1], Gone))
    BY HistoryOfNothing, HistoryGoesOn
  <2> QED
    BY <1>3, <2>1
<1>5. {i \in 1..1 : <<x>>[i].at <= 0} = 1..1
  BY <1>3
<1>6. Traced(<<x>>, <<>>, now)
  BY <1>1, <1>3, <1>4, <1>5 DEF Traced
<1>7. WithinPast(<<>>, <<>>) /\ WithinPast(<<x>>, <<>>)
  BY <1>1, <1>3 DEF WithinPast, RowsAssumption
<1> QED
  BY <1>1, <1>2, <1>3, <1>6, <1>7

\* A write goes on from the row as it was.
LEMMA TracedOnWrite ==
  ASSUME NEW tr, NEW ended, NEW now, IsSequence(tr), IsSequence(ended), WithinPast(tr, ended),
         Traced(tr, ended, now), NEW x, x.at = Len(ended), x.txid \in 0..MaxWrites
  PROVE  /\ IsSequence(Append(tr, x)) /\ WithinPast(Append(tr, x), ended)
         /\ Traced(Append(tr, x), ended, Walked(x, now))
<1> DEFINE more == Append(tr, x)
           L == Len(tr)
<1>1. /\ IsSequence(more) /\ L \in Nat /\ Len(more) = L + 1
      /\ \A i \in 1..L : more[i] = tr[i]
      /\ more[L + 1] = x
  BY Appended
<1>2. Len(ended) \in Nat
  BY DEF IsSequence
<1> HIDE DEF more
<1>3. WithinPast(more, ended)
  BY <1>1, <1>2 DEF WithinPast
<1>4. ASSUME NEW t \in 0..Len(ended)
      PROVE  \E k \in 0..Len(more) :
               /\ {i \in 1..Len(more) : more[i].at <= t} = 1..k
               /\ EndsWith(more, k, IF t = Len(ended) THEN Walked(x, now) ELSE ended[t + 1])
  <2>1. PICK k \in 0..L :
          /\ {i \in 1..L : tr[i].at <= t} = 1..k
          /\ EndsWith(tr, k, IF t = Len(ended) THEN now ELSE ended[t + 1])
    BY DEF Traced
  <2>2. CASE t = Len(ended)
    <3>1. \A i \in 1..L : tr[i].at <= t
      BY <1>2, <2>2 DEF WithinPast
    <3>2. k = L
      <4>1. 1..k = 1..L
        BY <2>1, <3>1
      <4> QED
        BY <1>1, <4>1
    <3>3. EndsWith(more, L, now)
      BY <1>1, <2>1, <2>2, <3>2, SameHistory
    <3>4. EndsWith(more, L + 1, Walked(x, now))
      BY <1>1, <3>3, HistoryGoesOn
    <3>5. {i \in 1..(L + 1) : more[i].at <= t} = 1..(L + 1)
      BY <1>1, <1>2, <2>2, <3>1
    <3> QED
      BY <1>1, <2>2, <3>4, <3>5
  <2>3. CASE t # Len(ended)
    <3>1. ~(x.at <= t)
      BY <1>2, <2>3
    <3>2. {i \in 1..(L + 1) : more[i].at <= t} = {i \in 1..L : tr[i].at <= t}
      BY <1>1, <3>1
    <3>3. EndsWith(more, k, ended[t + 1])
      BY <1>1, <2>1, <2>3, SameHistory
    <3> QED
      BY <1>1, <2>1, <2>3, <3>2, <3>3
  <2> QED
    BY <2>2, <2>3
<1>5. Traced(more, ended, Walked(x, now))
  BY <1>4 DEF Traced
<1> QED
  BY <1>1, <1>3, <1>5 DEF more

\* An instant ends with the row as it is.
LEMMA TracedOnTick ==
  ASSUME NEW tr, NEW ended, NEW now, IsSequence(tr), IsSequence(ended), WithinPast(tr, ended),
         Traced(tr, ended, now)
  PROVE  /\ IsSequence(Append(ended, now)) /\ WithinPast(tr, Append(ended, now))
         /\ Traced(tr, Append(ended, now), now)
<1> DEFINE L == Len(ended)
           later == Append(ended, now)
<1>1. /\ IsSequence(later) /\ L \in Nat /\ Len(later) = L + 1
      /\ \A i \in 1..L : later[i] = ended[i]
      /\ later[L + 1] = now
  BY Appended
<1> HIDE DEF later
<1>2. Len(tr) \in Nat
  BY DEF IsSequence
<1>3. WithinPast(tr, later)
  BY <1>1 DEF WithinPast
<1>4. {i \in 1..Len(tr) : tr[i].at <= L + 1} = {i \in 1..Len(tr) : tr[i].at <= L}
  BY <1>1 DEF WithinPast
<1>5. ASSUME NEW t \in 0..(L + 1)
      PROVE  \E k \in 0..Len(tr) :
               /\ {i \in 1..Len(tr) : tr[i].at <= t} = 1..k
               /\ EndsWith(tr, k, IF t = L + 1 THEN now ELSE later[t + 1])
  <2>1. CASE t \in 0..L
    <3>1. (IF t = L THEN now ELSE ended[t + 1]) = later[t + 1] /\ t # L + 1
      BY <1>1, <2>1
    <3> QED
      BY <2>1, <3>1 DEF Traced
  <2>2. CASE t = L + 1
    <3>1. PICK k \in 0..Len(tr) :
            /\ {i \in 1..Len(tr) : tr[i].at <= L} = 1..k
            /\ EndsWith(tr, k, now)
      BY <1>1 DEF Traced
    <3> QED
      BY <1>4, <2>2, <3>1
  <2> QED
    BY <1>1, <2>1, <2>2
<1> QED
  BY <1>1, <1>3, <1>5 DEF Traced, later

\* The invariant of the trail, at first and after each step.
LEMMA FirstTrailInv ==
  ASSUME RowsAssumption, RowInit
  PROVE  TrailInv
<1>1. past = <<>> /\ deleted = FALSE /\ writes = 0
  BY DEF RowInit
<1> DEFINE x == Entry("insert", Gone, Image(row, FALSE), 0)
<1>2. x.at = 0 /\ x.txid = 0
  BY <1>1 DEF Entry, Now
<1>3. CASE row = Gone \/ entity.name \notin Recorded
  <2>1. trail = <<>>
    BY <1>3 DEF RowInit
  <2>2. /\ IsSequence(<<>>) /\ Traced(<<>>, <<>>, Gone) /\ WithinPast(<<>>, <<>>)
        /\ Len(<<>>) = 0
    <3>1. IsSequence(<<>>) /\ Len(<<>>) = 0
      BY DEF IsSequence
    <3>2. 0..0 = {0} /\ 1..0 = {}
      OBVIOUS
    <3> QED
      BY <3>1, <3>2, HistoryOfNothing DEF Traced, WithinPast
  <2>3. entity.name \in Recorded => Image(row, deleted) = Gone
    BY <1>3 DEF Image
  <2> QED
    BY <1>1, <2>1, <2>2, <2>3 DEF TrailInv
<1>4. CASE row # Gone /\ entity.name \in Recorded
  <2>1. trail = <<x>>
    BY <1>4 DEF RowInit
  <2>2. Filled(row)
    BY <1>4, FirstRowInv DEF RowInv
  <2>3. Len(<<x>>) = 1
    OBVIOUS
  <2>4. "insert" # "delete"
    OBVIOUS
  <2>5. Walked(x, Gone) = Image(row, FALSE)
    <3>1. ASSUME NEW d
          PROVE  Walked(Entry("insert", Gone, Image(row, d), 0), Gone) = Image(row, d)
      BY <1>4, <2>2, <2>4, EntryIsTheWrite
    <3> QED
      BY <3>1
  <2> HIDE DEF x
  <2>6. /\ IsSequence(<<>>) /\ IsSequence(<<x>>)
        /\ Traced(<<x>>, <<>>, Image(row, FALSE)) /\ WithinPast(<<x>>, <<>>)
    BY <1>2, <2>5, TracedAtFirst
  <2>7. Len(trail) <= writes + 1
    BY <1>1, <2>1, <2>3
  <2>8. Traced(trail, past, Image(row, deleted))
    BY <1>1, <2>1, <2>6
  <2> QED
    BY <1>1, <2>1, <2>6, <2>7, <2>8, Zenon DEF TrailInv
<1> QED
  BY <1>3, <1>4

LEMMA WriteTrailInv ==
  ASSUME RowsAssumption, RowInv, TrailInv, NEW action, NEW r, NEW d, Write(action, r, d),
         r # Gone => Filled(r) /\ action # "delete",
         r = Gone => action = "delete" \/ row = Gone
  PROVE  TrailInv'
<1> DEFINE before == Image(row, deleted)
           x == Entry(action, before, Image(r, d), Len(trail))
<1>1. /\ past' = past /\ entity' = entity /\ row' = r /\ deleted' = d
      /\ writes \in Nat /\ writes < MaxWrites /\ writes' = writes + 1
  BY DEF Write, RowInv, RowsAssumption
<1>2. Image(row', deleted') = Image(r, d)
  BY <1>1
<1>3. Len(trail) \in Nat /\ Len(trail) <= writes + 1
  BY DEF TrailInv, IsSequence
<1>4. CASE entity.name \notin Recorded \/ Image(r, d) = before
  <2>1. trail' = trail
    BY <1>4 DEF Write
  <2>2. entity.name \in Recorded => Traced(trail, past, Image(r, d))
    BY <1>4 DEF TrailInv
  <2> QED
    BY <1>1, <1>2, <1>3, <2>1, <2>2 DEF TrailInv
<1>5. CASE entity.name \in Recorded /\ Image(r, d) # before
  <2>1. trail' = Append(trail, x)
    BY <1>5 DEF Write
  <2>2. Walked(x, before) = Image(r, d)
    <3>1. r = Gone => action = "delete"
      BY <1>5 DEF Image
    <3>2. before = Gone \/ DOMAIN before = Names \cup {"deleted_at"}
      BY ImageColumns DEF RowInv, Image
    <3> QED
      BY <3>1, <3>2, EntryIsTheWrite
  <2>3. x.at = Len(past) /\ x.txid \in 0..MaxWrites
    BY <1>1, <1>3 DEF Entry, Now, RowsAssumption
  <2> HIDE DEF x
  <2>4. /\ IsSequence(Append(trail, x)) /\ WithinPast(Append(trail, x), past)
        /\ Traced(Append(trail, x), past, Walked(x, before))
    BY <1>5, <2>3, TracedOnWrite DEF TrailInv
  <2>5. Len(trail') = Len(trail) + 1
    BY <2>1, Appended DEF TrailInv
  <2> QED
    BY <1>1, <1>2, <1>3, <2>1, <2>2, <2>4, <2>5 DEF TrailInv
<1> QED
  BY <1>4, <1>5

\* A row rewritten is still a row.
LEMMA StaysARow ==
  ASSUME row # Gone, Filled(row), NEW r, Filled(r)
  PROVE  r # Gone
<1> SUFFICES ASSUME r = Gone PROVE FALSE
  OBVIOUS
<1>1. Names = {}
  BY DEF Filled, Gone
<1>2. [n \in {} |-> row[n]] = <<>>
  OBVIOUS
<1>3. row = [n \in {} |-> row[n]]
  BY <1>1, Zenon DEF Filled
<1> QED
  BY <1>2, <1>3 DEF Gone

LEMMA NextTrailInv ==
  ASSUME RowsAssumption, RowInv, TrailInv, [RowNext]_rowVars
  PROVE  TrailInv'
<1>1. Regular(entity)
  BY EntitiesAreRegular DEF RowInv
<1>2. CASE \E q \in Edits(Plain) : Create(q)
  <2>1. PICK q : Create(q)
    BY <1>2
  <2>2. Filled(Created(q)) /\ row = Gone
    BY <1>1, <2>1, CreatedIsFilled DEF Create
  <2>3. Write("insert", Created(q), FALSE)
    BY <2>1 DEF Create
  <2> QED
    BY <2>2, <2>3, WriteTrailInv
<1>3. CASE row # Gone /\ \E q \in Edits(row) : PutRow(q)
  <2>1. PICK q : PutRow(q)
    BY <1>3
  <2>2. Filled(Put(row, q))
    BY <1>1, <2>1, PutIsFilled DEF PutRow
  <2>3. Write("update", Put(row, q), FALSE)
    BY <2>1 DEF PutRow, Update
  <2>4. Put(row, q) # Gone
    BY <1>3, <2>2, StaysARow DEF RowInv
  <2> QED
    BY <2>2, <2>3, <2>4, WriteTrailInv
<1>4. CASE \E n \in Names : \E v \in Inputs(n), s \in Spellings : PatchRow(n, v, s)
  <2>1. PICK n, v, s : PatchRow(n, v, s)
    BY <1>4
  <2>2. row # Gone /\ Filled(row)
    BY <2>1 DEF PatchRow, Live, RowInv
  <2>3. Filled(Patched(row, One(n, v), s)) /\ Patched(row, One(n, v), s) # Gone
    BY <2>2, PatchedIsFilled, StaysARow
  <2>4. Write("update", Patched(row, One(n, v), s), FALSE)
    BY <2>1 DEF PatchRow, Update
  <2> QED
    BY <2>3, <2>4, WriteTrailInv
<1>5. CASE SoftDelete \/ Restore
  BY <1>5, WriteTrailInv DEF SoftDelete, Restore, Live, RowInv
<1>6. CASE Purge
  BY <1>6, WriteTrailInv DEF Purge
<1>7. CASE Tick
  <2>1. /\ entity' = entity /\ row' = row /\ deleted' = deleted /\ trail' = trail
        /\ writes' = writes
        /\ past' = Append(past, Image(row, deleted)) /\ entity.name \in Recorded
    BY <1>7 DEF Tick
  <2>2. /\ IsSequence(Append(past, Image(row, deleted)))
        /\ WithinPast(trail, Append(past, Image(row, deleted)))
        /\ Traced(trail, Append(past, Image(row, deleted)), Image(row, deleted))
    BY <2>1, TracedOnTick DEF TrailInv
  <2> QED
    BY <2>1, <2>2 DEF TrailInv
<1>8. CASE UNCHANGED rowVars
  BY <1>8 DEF TrailInv, rowVars
<1> QED
  BY <1>2, <1>3, <1>4, <1>5, <1>6, <1>7, <1>8 DEF RowNext

\* Whatever was written when, deleted, restored or purged: as of every instant the
\* history read off the trail is the row as that instant ended, wherever the txids
\* sort, as long as no two entries of one instant so far sort against their order.
THEOREM HistoryIsTheRow ==
  ASSUME RowsAssumption
  PROVE  RowSpec => []AsOfIsTheRow
<1>1. TrailInv => AsOfIsTheRow
  <2> SUFFICES ASSUME TrailInv, entity.name \in Recorded, NEW t \in 0..Now,
                      WrittenInOrder(t)
               PROVE  RowAsOf(t) = IF t = Now THEN Image(row, deleted) ELSE past[t + 1]
    BY DEF AsOfIsTheRow
  <2>1. PICK k \in 0..Len(trail) :
          /\ Heard(t) = 1..k
          /\ EndsWith(trail, k, IF t = Now THEN Image(row, deleted) ELSE past[t + 1])
    BY DEF TrailInv, Traced, Now, Heard
  <2>2. \A i, j \in Heard(t) : i < j => trail[i].at <= trail[j].at
    BY InstantsAscend DEF TrailInv, Heard
  <2>3. k \in Nat
    BY DEF TrailInv, IsSequence
  <2> QED
    BY <2>1, <2>2, <2>3, AsOfIsTheHistory DEF TrailInv
<1>2. RowInit => RowInv /\ TrailInv
  BY FirstRowInv, FirstTrailInv
<1>3. RowInv /\ TrailInv /\ [RowNext]_rowVars => (RowInv /\ TrailInv)'
  BY NextRowInv, NextTrailInv
<1> QED
  BY <1>1, <1>2, <1>3, PTL DEF RowSpec

===============================================================================
