------------------------- MODULE TenantConfigProofs -------------------------
(***************************************************************************)
(* Safety of the tenant configuration for any number of tenants, features, *)
(* channels, templates, provider types, settings and rows, and any number  *)
(* of saves, switches and failures.                                        *)
(*                                                                         *)
(* The invariant has one part per page.  Tenants page: wherever a form is, *)
(* on the screen, in an answer under way or in a save, its slug is one     *)
(* that its source has had unless it was typed, and its templates are      *)
(* those of its source but for the named cases; past its first statement a *)
(* save's slug is no other tenant's, and past its second the history tells *)
(* what its form holds.  Provider Settings page: a request to create a row *)
(* has the settings its provider type requires.  Tenant Detail page: a row *)
(* it lists exists or was deleted, and between the commit of a switch and  *)
(* its answer the overview is what is stored once the answer is applied.   *)
(***************************************************************************)
EXTENDS TenantConfig, SequenceTheorems, TLAPS

-----------------------------------------------------------------------------
(* The invariant *)

\* What explains a difference between a tenant's templates and its first ones.
Excused(t, m) == m \in saved[t].touched \/ saved[t].blank \/ Foreign(t) \/ saved[t].cut

\* A form that nobody typed a slug into has one of its source; with its data it has
\* the source's templates, too.
Fits(f) ==
    /\ f.typed \/ f.slug \in had[f.source]
    /\ f.filled => \A m \in Templates :
                      \/ m \in f.templates <=> m \in TemplatesOf[f.source]
                      \/ m \in f.touched \/ Excused(f.source, m)

\* On the screen, in a save, or in an answer under way.
Held(f) ==
    \/ form = f
    \/ task # None /\ task.form = f
    \/ \E i \in DOMAIN opens : opens[i].reply = f

FormsFit == \A f \in Form : Held(f) => Fits(f)

\* Templates are missing between the statements that delete and insert them.
TemplatesOK ==
    \A t \in Tenants, m \in Templates :
        \/ m \in tenants[t].templates <=> m \in TemplatesOf[t]
        \/ Excused(t, m)
        \/ task # None /\ task.tenant = t /\ task.at = 7

SlugsKnown == \A t \in Tenants : SlugOf[t] \in had[t] /\ tenants[t].slug \in had[t]

OpensKnown == \A i \in DOMAIN opens : opens[i].slug \in had[opens[i].tenant]

FormOpen == editing # None => form \in Form

\* The first statement refuses another tenant's slug.
OwnSlug == task # None /\ task.at > 1 => \A t \in Tenants \ {task.tenant} : tenants[t].slug # task.form.slug

\* The second statement notes what the form holds.
Noted ==
    task # None /\ task.at > 2 =>
        /\ <<task.form.source, task.form.typed>> \in saved[task.tenant].sources
        /\ task.form.filled \/ saved[task.tenant].blank
        /\ task.form.touched \subseteq saved[task.tenant].touched

Open == [tenant: Tenants, slug: Slugs, reply: {None} \cup Form]

TenantsInv ==
    /\ tenants \in [Tenants -> Tenant] /\ editing \in Tenants \cup {None} /\ form \in {None} \cup Form
    /\ opens \in Seq(Open) /\ task \in {None} \cup Task
    /\ had \in [Tenants -> SUBSET Slugs] /\ saved \in [Tenants -> Saved]
    /\ FormsFit /\ TemplatesOK /\ SlugsKnown /\ OpensKnown /\ FormOpen /\ OwnSlug /\ Noted /\ OwnDataOnly

NewRowsComplete ==
    \A i \in DOMAIN requests : requests[i].kind = "create" => RequiredOf[requests[i].provider] \subseteq requests[i].fields

ProvidersInv ==
    /\ configs \in [Rows -> {Absent, Gone} \cup Config] /\ listed \in [Rows -> {Absent} \cup Config]
    /\ requests \in Seq(Request) /\ saving \in Rows \cup {None, "new"} /\ partial \subseteq Rows
    /\ NewRowsComplete /\ ConfigsAreComplete

RowsKnown ==
    detail # None =>
        /\ \A r \in detail.overview.rows : configs[r] \in {Gone} \cup Config
        /\ detail.confirming # None /\ detail.confirming.kind = "provider" =>
              detail.confirming.id \in detail.overview.rows

DetailPage == [tenant: Tenants, overview: Overview, confirming: {None} \cup Switch, done: BOOLEAN]

\* A switch that is carried out but not yet answered is not yet in the overview.
Expected == IF detail.done THEN OverviewAfter(detail.overview, detail.confirming) ELSE detail.overview

OverviewFollowing ==
    detail # None =>
        /\ detail.confirming = None => ~detail.done
        /\ ~stale => Expected = ShownOverview(detail.tenant)

DetailInv ==
    /\ detail \in {None} \cup DetailPage /\ stale \in BOOLEAN
    /\ RowsKnown /\ OverviewFollowing

Counters ==
    /\ ops \in [Pages -> Nat] /\ Bounded(ops)
    /\ faults \in 0..MaxFaults

IndInv == TenantsInv /\ ProvidersInv /\ DetailInv /\ Counters

-----------------------------------------------------------------------------
(* Helpers *)

Step == (\E p \in Pages : Person(p)) \/ Fault \/ System

LEMMA CountersKept == ASSUME Counters, Step PROVE Counters'
<1>1. CASE System BY <1>1 DEF Counters, System
<1>2. CASE Fault BY <1>2, TenantConfigConstants DEF Counters, Fault
<1>3. ASSUME NEW p \in Pages, Person(p) PROVE Counters'
  <2>1. ops[p] \in Nat /\ ops' = [ops EXCEPT ![p] = @ + 1] /\ Bounded([ops EXCEPT ![p] = @ + 1]) /\ faults' = faults
    BY <1>3 DEF Counters, Person, MayAct
  <2>2. ops' \in [Pages -> Nat] BY <2>1 DEF Counters
  <2>3. Bounded(ops)' BY <2>1 DEF Bounded
  <2> QED BY <2>1, <2>2, <2>3 DEF Counters
<1> QED BY <1>1, <1>2, <1>3 DEF Step

\* What a tenant has been saved with and the slugs it has had are not forgotten.
HistoryGrows == \A t \in Tenants : had[t] \subseteq had'[t] /\ \A m \in Templates : Excused(t, m) => Excused(t, m)'

LEMMA FitsStays == ASSUME HistoryGrows, NEW f \in Form, Fits(f) PROVE Fits(f)'
<1>1. PICK s \in Tenants : s = f.source BY DEF Form
<1>2. had[s] \subseteq had'[s] /\ \A m \in Templates : Excused(s, m) => Excused(s, m)' BY DEF HistoryGrows
<1>3. f.typed \/ f.slug \in had'[s] BY <1>1, <1>2 DEF Fits
<1>4. ASSUME f.filled, NEW m \in Templates
      PROVE  (m \in f.templates <=> m \in TemplatesOf[s]) \/ m \in f.touched \/ Excused(s, m)'
  <2>1. (m \in f.templates <=> m \in TemplatesOf[s]) \/ m \in f.touched \/ Excused(s, m) BY <1>1, <1>4 DEF Fits
  <2> QED BY <1>2, <2>1
<1> QED BY <1>1, <1>3, <1>4 DEF Fits

LEMMA HistorySame == ASSUME UNCHANGED <<had, saved>> PROVE HistoryGrows
BY DEF HistoryGrows, Excused, Foreign

LEMMA StatementFacts ==
    /\ DOMAIN Statements = 1..8 /\ Len(Statements) = 8
    /\ Statements[1] = "name" /\ Statements[2] = "features" /\ Statements[3] = "channels"
    /\ Statements[4] = "dropProviders" /\ Statements[5] = "addProviders"
    /\ Statements[6] = "dropTemplates" /\ Statements[7] = "addTemplates" /\ Statements[8] = "answer"
BY DEF Statements

LEMMA FormFacts ==
    ASSUME NEW f \in Form
    PROVE  /\ f.slug \in Slugs /\ f.features \subseteq Features /\ f.channels \subseteq Channels
           /\ f.providers \subseteq Channels /\ f.templates \subseteq Templates /\ f.filled \in BOOLEAN
           /\ f.source \in Tenants /\ f.typed \in BOOLEAN /\ f.touched \subseteq Templates
BY DEF Form

LEMMA TaskFacts ==
    ASSUME TenantsInv, task # None
    PROVE  task \in Task /\ task.tenant \in Tenants /\ task.form \in Form /\ task.at \in 1..8
<1>1. task \in Task BY DEF TenantsInv
<1> QED BY <1>1, StatementFacts DEF Task

\* An element of what is left when one is removed was there before.
LEMMA RemoveAtFacts ==
    ASSUME NEW S, NEW s \in Seq(S), NEW i \in DOMAIN s
    PROVE  /\ RemoveAt(s, i) \in Seq(S)
           /\ \A j \in DOMAIN RemoveAt(s, i) : \E k \in DOMAIN s : RemoveAt(s, i)[j] = s[k]
<1>1. PICK T : T = {s[k] : k \in DOMAIN s} OBVIOUS
<1>2. Len(s) \in Nat /\ DOMAIN s = 1..Len(s) /\ i \in 1..Len(s) OBVIOUS
<1>3. s \in Seq(T) BY <1>1, <1>2
<1>4. SubSeq(s, 1, i - 1) \in Seq(T) BY <1>2, <1>3, SubSeqProperties
<1>5. SubSeq(s, i + 1, Len(s)) \in Seq(T) BY <1>2, <1>3, SubSeqProperties
<1>6. RemoveAt(s, i) \in Seq(T) BY <1>4, <1>5 DEF RemoveAt
<1>7. T \subseteq S BY <1>1, <1>2
<1>8. RemoveAt(s, i) \in Seq(S)
  <2>1. SubSeq(s, 1, i - 1) \in Seq(S) BY <1>2, SubSeqProperties
  <2>2. SubSeq(s, i + 1, Len(s)) \in Seq(S) BY <1>2, SubSeqProperties
  <2> QED BY <2>1, <2>2 DEF RemoveAt
<1>9. \A j \in DOMAIN RemoveAt(s, i) : RemoveAt(s, i)[j] \in T
  <2>1. PICK u \in Seq(T) : u = RemoveAt(s, i) BY <1>6
  <2>2. \A j \in DOMAIN u : u[j] \in T BY <2>1
  <2> QED BY <2>1, <2>2
<1> QED BY <1>1, <1>8, <1>9

-----------------------------------------------------------------------------
(* Steps that a page does not take part in *)

\* Every form held was held before, and every tenant's slug and templates are as
\* they were.
LEMMA TenantsFrame ==
    ASSUME TenantsInv, UNCHANGED <<had, editing, form, opens, task, saved>>, tenants' \in [Tenants -> Tenant],
           \A t \in Tenants : tenants'[t].templates = tenants[t].templates /\ tenants'[t].slug = tenants[t].slug
    PROVE  TenantsInv'
<1>1. HistoryGrows BY HistorySame
<1>2. FormsFit'
  <2>1. \A f \in Form : Held(f)' => Held(f) BY DEF Held
  <2>2. \A f \in Form : Held(f)' => Fits(f)' BY <1>1, <2>1, FitsStays DEF TenantsInv, FormsFit
  <2> QED BY <2>2 DEF FormsFit
<1>3. TemplatesOK'
  <2>1. \A t, m : Excused(t, m)' = Excused(t, m) BY DEF Excused, Foreign
  <2> QED BY <2>1 DEF TenantsInv, TemplatesOK
<1>4. SlugsKnown' /\ OpensKnown' BY DEF TenantsInv, SlugsKnown, OpensKnown
<1>5. FormOpen' /\ OwnSlug' BY DEF TenantsInv, FormOpen, OwnSlug
<1>6. Noted' /\ OwnDataOnly' BY DEF TenantsInv, Noted, OwnDataOnly, Renamed
<1> QED BY <1>2, <1>3, <1>4, <1>5, <1>6 DEF TenantsInv

LEMMA ProvidersFrame ==
    ASSUME ProvidersInv, UNCHANGED <<configs, listed, requests, saving, partial>> PROVE ProvidersInv'
BY DEF ProvidersInv, NewRowsComplete, ConfigsAreComplete

LEMMA DetailFrame ==
    ASSUME DetailInv, UNCHANGED <<tenants, configs, detail, stale>> PROVE DetailInv'
<1>1. RowsKnown' BY DEF DetailInv, RowsKnown
<1>2. \A t : ShownOverview(t)' = ShownOverview(t) BY DEF ShownOverview, RowsOf
<1>3. Expected' = Expected BY DEF Expected
<1>4. OverviewFollowing' BY <1>2, <1>3 DEF DetailInv, OverviewFollowing
<1> QED BY <1>1, <1>4 DEF DetailInv

\* A step of the Tenants page that touches no table.
LEMMA FormStep ==
    ASSUME IndInv, Step, TenantsInv', UNCHANGED <<tenants, configs, detail, psVars, stale, partial>>
    PROVE  IndInv'
<1>1. UNCHANGED <<tenants, configs, detail, listed, requests, saving, stale, partial>> BY DEF psVars
<1>2. Counters' BY CountersKept DEF IndInv
<1>3. ProvidersInv' /\ DetailInv' BY <1>1, ProvidersFrame, DetailFrame DEF IndInv
<1> QED BY <1>2, <1>3 DEF IndInv

-----------------------------------------------------------------------------
(* The Tenants page *)

\* A step that starts a save or none, and holds no form that does not fit.
LEMMA HeldStep ==
    ASSUME IndInv, Step, UNCHANGED <<tenants, configs, had, detail, psVars, saved, stale, partial>>,
           editing' \in Tenants \cup {None}, form' \in {None} \cup Form, opens' \in Seq(Open),
           task' = task \/ (task = None /\ task' \in Task /\ task'.at = 1),
           \A f \in Form : Held(f)' => Held(f) \/ Fits(f), FormOpen', OpensKnown'
    PROVE  IndInv'
<1>1. TenantsInv BY DEF IndInv
<1>2. HistoryGrows BY HistorySame
<1>3. FormsFit'
  <2>1. \A f \in Form : Held(f)' => Fits(f) BY <1>1 DEF TenantsInv, FormsFit
  <2>2. \A f \in Form : Held(f)' => Fits(f)' BY <1>2, <2>1, FitsStays
  <2> QED BY <2>2 DEF FormsFit
<1>4. TemplatesOK'
  <2>1. \A t, m : Excused(t, m)' = Excused(t, m) BY DEF Excused, Foreign
  <2> QED BY <1>1, <2>1 DEF TenantsInv, TemplatesOK
<1>5. SlugsKnown' BY <1>1 DEF TenantsInv, SlugsKnown
<1>6. OwnSlug' /\ Noted' BY <1>1 DEF TenantsInv, OwnSlug, Noted
<1>7. OwnDataOnly' BY <1>1 DEF TenantsInv, OwnDataOnly, Renamed
<1>8. TenantsInv' BY <1>1, <1>3, <1>4, <1>5, <1>6, <1>7 DEF TenantsInv
<1> QED BY <1>8, FormStep

LEMMA OpensFacts ==
    ASSUME TenantsInv, NEW i \in DOMAIN opens
    PROVE  /\ opens \in Seq(Open) /\ opens[i] \in Open /\ opens[i].tenant \in Tenants /\ opens[i].slug \in Slugs
           /\ opens[i].reply \in {None} \cup Form
<1>1. opens \in Seq(Open) BY DEF TenantsInv
<1>2. opens[i] \in Open BY <1>1
<1> QED BY <1>1, <1>2 DEF Open

LEMMA OpenEditStep == ASSUME IndInv, NEW t \in Tenants, NEW slug \in Slugs, OpenEdit(t, slug) PROVE IndInv'
<1>1. TenantsInv BY DEF IndInv
<1>2. PICK b : b = BlankForm(t, slug) OBVIOUS
<1>3. b \in Form /\ ~b.filled /\ b.slug = slug /\ b.source = t BY <1>2 DEF BlankForm, Form
<1>4. PICK o \in Open : o = [tenant |-> t, slug |-> slug, reply |-> None] BY DEF Open
<1>5. /\ editing' = t /\ form' = b /\ opens' = Append(opens, o) /\ Step /\ slug \in had[t]
      /\ UNCHANGED <<tenants, configs, had, task, detail, psVars, saved, stale, partial>>
  BY <1>2, <1>4 DEF OpenEdit, Step, Pages
<1>6. opens \in Seq(Open) /\ opens' \in Seq(Open) BY <1>1, <1>5 DEF TenantsInv
<1>7. \A j \in DOMAIN opens' : (j \in DOMAIN opens /\ opens'[j] = opens[j]) \/ opens'[j] = o BY <1>5, <1>6
<1>8. Fits(b) BY <1>3, <1>5 DEF Fits
<1>9. ASSUME NEW f \in Form, Held(f)' PROVE Held(f) \/ Fits(f)
  <2>1. CASE form' = f BY <1>5, <1>8, <2>1
  <2>2. CASE task' # None /\ task'.form = f BY <1>5, <2>2 DEF Held
  <2>3. ASSUME NEW j \in DOMAIN opens', opens'[j].reply = f PROVE Held(f) \/ Fits(f)
    <3>1. CASE j \in DOMAIN opens /\ opens'[j] = opens[j] BY <2>3, <3>1 DEF Held
    <3>2. CASE opens'[j] = o
      <4>1. f = None BY <1>4, <2>3, <3>2
      <4> QED BY <4>1, TenantConfigMarkers
    <3> QED BY <1>7, <3>1, <3>2
  <2> QED BY <1>9, <2>1, <2>2, <2>3 DEF Held
<1>10. FormOpen' BY <1>3, <1>5 DEF FormOpen
<1>11. OpensKnown'
  <2>1. \A j \in DOMAIN opens : opens[j].slug \in had[opens[j].tenant] BY <1>1 DEF TenantsInv, OpensKnown
  <2>2. o.slug \in had[o.tenant] BY <1>4, <1>5
  <2> QED BY <1>5, <1>7, <2>1, <2>2 DEF OpensKnown
<1> QED BY <1>1, <1>3, <1>5, <1>6, <1>9, <1>10, <1>11, HeldStep DEF TenantsInv

\* What the three requests fetch: the tenant's templates, unless a save of it is
\* under way.
LEMMA FilledFacts ==
    ASSUME TenantsInv, ProvidersInv, NEW t \in Tenants, NEW slug \in Slugs, slug \in had[t]
    PROVE  FilledForm(t, slug) \in Form /\ Fits(FilledForm(t, slug))
<1>1. tenants[t] \in Tenant BY DEF TenantsInv
<1>2. tenants[t].features \subseteq Features /\ tenants[t].channels \subseteq Channels
      /\ tenants[t].templates \subseteq Templates
  BY <1>1 DEF Tenant
<1>3. \A r \in RowsOf(t) : configs[r] \in Config BY DEF ProvidersInv, RowsOf
<1>4. \A x \in Config : x.channel \in Channels BY DEF Config
<1>5. PICK P : P = {configs[r].channel : r \in {q \in RowsOf(t) : configs[q].isDefault /\ configs[q].active}}
  OBVIOUS
<1>6. P \subseteq Channels BY <1>3, <1>4, <1>5
<1>7. PICK b \in BOOLEAN : b = ~(task # None /\ task.tenant = t) OBVIOUS
<1>8. PICK f : f = [slug |-> slug, features |-> tenants[t].features, channels |-> tenants[t].channels,
                    providers |-> P, templates |-> tenants[t].templates, filled |-> b,
                    source |-> t, typed |-> FALSE, touched |-> {}]
  OBVIOUS
<1>9. FilledForm(t, slug) = f
  <2>1. FilledForm(t, slug) = [BlankForm(t, slug) EXCEPT !.features = tenants[t].features, !.channels = tenants[t].channels,
                                   !.providers = P, !.templates = tenants[t].templates, !.filled = b]
    BY <1>5, <1>7, Zenon DEF FilledForm
  <2> QED BY <1>8, <2>1 DEF BlankForm
<1>10. f \in Form BY <1>2, <1>6, <1>8 DEF Form
<1>11. f.filled = b /\ f.templates = tenants[t].templates /\ f.slug = slug /\ f.source = t BY <1>8
<1>12. b => \A m \in Templates : (m \in tenants[t].templates <=> m \in TemplatesOf[t]) \/ Excused(t, m)
  BY <1>7 DEF TenantsInv, TemplatesOK
<1>13. Fits(f) BY <1>11, <1>12 DEF Fits
<1> QED BY <1>9, <1>10, <1>13

LEMMA OpenReadStep == ASSUME IndInv, NEW i \in DOMAIN opens, OpenRead(i) PROVE IndInv'
<1>1. TenantsInv /\ ProvidersInv BY DEF IndInv
<1>2. opens \in Seq(Open) /\ opens[i] \in Open /\ opens[i].tenant \in Tenants /\ opens[i].slug \in Slugs
  BY <1>1, OpensFacts
<1>3. opens[i].slug \in had[opens[i].tenant] BY <1>1 DEF TenantsInv, OpensKnown
<1>4. PICK g \in Form : g = FilledForm(opens[i].tenant, opens[i].slug) /\ Fits(g) BY <1>1, <1>2, <1>3, FilledFacts
<1>5. PICK o : o = [opens[i] EXCEPT !.reply = g] OBVIOUS
<1>6. o \in Open /\ o.reply = g /\ o.slug = opens[i].slug /\ o.tenant = opens[i].tenant BY <1>2, <1>5 DEF Open
<1>7. opens' = [opens EXCEPT ![i] = o] BY <1>4, <1>5 DEF OpenRead
<1>8. Step /\ UNCHANGED <<tenants, configs, had, editing, form, task, detail, psVars, saved, stale, partial>>
  BY DEF OpenRead, Step
<1>9. opens' \in Seq(Open) /\ DOMAIN opens' = DOMAIN opens /\ opens'[i] = o
      /\ \A j \in DOMAIN opens : j # i => opens'[j] = opens[j]
  BY <1>2, <1>6, <1>7
<1>10. ASSUME NEW f \in Form, Held(f)' PROVE Held(f) \/ Fits(f)
  <2>1. CASE form' = f \/ (task' # None /\ task'.form = f) BY <1>8, <2>1 DEF Held
  <2>2. ASSUME NEW j \in DOMAIN opens', opens'[j].reply = f PROVE Held(f) \/ Fits(f)
    BY <1>4, <1>6, <1>9, <2>2 DEF Held
  <2> QED BY <1>10, <2>1, <2>2 DEF Held
<1>11. FormOpen' BY <1>1, <1>8 DEF TenantsInv, FormOpen
<1>12. OpensKnown' BY <1>1, <1>3, <1>6, <1>8, <1>9 DEF TenantsInv, OpensKnown
<1> QED BY <1>1, <1>8, <1>9, <1>10, <1>11, <1>12, HeldStep DEF TenantsInv

LEMMA OpenAnsweredStep ==
    ASSUME IndInv, NEW i \in DOMAIN opens, OpenArrives(i) \/ OpenFails(i) PROVE IndInv'
<1>1. TenantsInv BY DEF IndInv
<1>2. opens \in Seq(Open) /\ opens[i].reply \in {None} \cup Form BY <1>1, OpensFacts
<1>3. /\ opens' = RemoveAt(opens, i) /\ Step
      /\ form' = form \/ (opens[i].reply # None /\ form' = opens[i].reply)
      /\ UNCHANGED <<tenants, configs, had, editing, task, detail, psVars, saved, stale, partial>>
  BY DEF OpenArrives, OpenFails, Step
<1>4. opens' \in Seq(Open) /\ \A j \in DOMAIN opens' : \E k \in DOMAIN opens : opens'[j] = opens[k]
  BY <1>2, <1>3, RemoveAtFacts
<1>5. ASSUME NEW f \in Form, Held(f)' PROVE Held(f)
  <2>1. CASE form' = f BY <1>3, <2>1 DEF Held
  <2>2. CASE task' # None /\ task'.form = f BY <1>3, <2>2 DEF Held
  <2>3. ASSUME NEW j \in DOMAIN opens', opens'[j].reply = f PROVE Held(f) BY <1>4, <2>3 DEF Held
  <2> QED BY <1>5, <2>1, <2>2, <2>3 DEF Held
<1>6. form' \in {None} \cup Form BY <1>1, <1>2, <1>3 DEF TenantsInv
<1>7. FormOpen' BY <1>1, <1>2, <1>3 DEF TenantsInv, FormOpen
<1>8. OpensKnown' BY <1>1, <1>3, <1>4 DEF TenantsInv, OpensKnown
<1> QED BY <1>1, <1>3, <1>4, <1>5, <1>6, <1>7, <1>8, HeldStep DEF TenantsInv

LEMMA CloseFormStep == ASSUME IndInv, CloseForm PROVE IndInv'
<1>1. TenantsInv BY DEF IndInv
<1>2. /\ editing' = None /\ Step
      /\ UNCHANGED <<tenants, configs, had, form, opens, task, detail, psVars, saved, stale, partial>>
  BY DEF CloseForm, Step, Pages
<1>3. \A f \in Form : Held(f)' => Held(f) BY <1>2 DEF Held
<1>4. FormOpen' BY <1>2 DEF FormOpen
<1>5. OpensKnown' BY <1>1, <1>2 DEF TenantsInv, OpensKnown
<1> QED BY <1>1, <1>2, <1>3, <1>4, <1>5, HeldStep DEF TenantsInv

\* An edited form still fits.
LEMMA EditFormStep ==
    ASSUME IndInv, NEW g \in Form, EditForm(g), Fits(g)
    PROVE  IndInv'
<1>1. TenantsInv BY DEF IndInv
<1>2. /\ editing # None /\ form' = g /\ Step
      /\ UNCHANGED <<tenants, configs, had, editing, opens, task, detail, psVars, saved, stale, partial>>
  BY DEF EditForm, Step, Pages
<1>3. \A f \in Form : Held(f)' => Held(f) \/ Fits(f) BY <1>2 DEF Held
<1>4. FormOpen' BY <1>2 DEF FormOpen
<1>5. OpensKnown' BY <1>1, <1>2 DEF TenantsInv, OpensKnown
<1> QED BY <1>1, <1>2, <1>3, <1>4, <1>5, HeldStep DEF TenantsInv

\* The form being edited fits, and so does another one with the same data.
LEMMA ScreenFits ==
    ASSUME TenantsInv, editing # None
    PROVE  /\ form \in Form /\ Fits(form)
           /\ \A g \in Form : (g.slug = form.slug \/ g.typed) /\ (form.typed => g.typed) /\ g.source = form.source
                /\ g.templates = form.templates /\ g.filled = form.filled /\ g.touched = form.touched => Fits(g)
<1>1. form \in Form /\ Held(form) BY DEF TenantsInv, FormOpen, Held
<1>2. Fits(form) BY <1>1 DEF TenantsInv, FormsFit
<1> QED BY <1>1, <1>2 DEF Fits

LEMMA FormSteps ==
    ASSUME IndInv, \/ \E x \in Features : FormFeature(x)
                   \/ \E c \in Channels : FormChannel(c) \/ FormProvider(c)
                   \/ \E slug \in Slugs : FormSlug(slug)
                   \/ \E m \in Templates : FormTemplate(m)
    PROVE  IndInv'
<1>1. TenantsInv BY DEF IndInv
<1>2. editing # None BY DEF FormFeature, FormChannel, FormProvider, FormSlug, FormTemplate, EditForm
<1>3. /\ form \in Form /\ Fits(form)
      /\ \A g \in Form : (g.slug = form.slug \/ g.typed) /\ (form.typed => g.typed) /\ g.source = form.source
           /\ g.templates = form.templates /\ g.filled = form.filled /\ g.touched = form.touched => Fits(g)
  BY <1>1, <1>2, ScreenFits
<1>4. ASSUME NEW x \in Features, FormFeature(x) PROVE IndInv'
  <2>1. PICK S : S = Toggled(form.features, x) OBVIOUS
  <2>2. S \subseteq Features BY <1>3, <2>1 DEF Toggled, Form
  <2>3. PICK g : g = [form EXCEPT !.features = S] OBVIOUS
  <2>4. /\ g \in Form /\ g.filled = form.filled /\ g.templates = form.templates /\ g.slug = form.slug
        /\ g.source = form.source /\ g.typed = form.typed /\ g.touched = form.touched
    BY <1>3, <2>2, <2>3 DEF Form
  <2>5. EditForm(g) BY <1>4, <2>1, <2>3 DEF FormFeature
  <2> QED BY <1>3, <2>4, <2>5, EditFormStep
<1>5. ASSUME NEW c \in Channels, FormChannel(c) PROVE IndInv'
  <2>1. PICK S : S = Toggled(form.channels, c) OBVIOUS
  <2>2. S \subseteq Channels BY <1>3, <2>1 DEF Toggled, Form
  <2>3. PICK g : g = [form EXCEPT !.channels = S] OBVIOUS
  <2>4. /\ g \in Form /\ g.filled = form.filled /\ g.templates = form.templates /\ g.slug = form.slug
        /\ g.source = form.source /\ g.typed = form.typed /\ g.touched = form.touched
    BY <1>3, <2>2, <2>3 DEF Form
  <2>5. EditForm(g) BY <1>5, <2>1, <2>3 DEF FormChannel
  <2> QED BY <1>3, <2>4, <2>5, EditFormStep
<1>6. ASSUME NEW c \in Channels, FormProvider(c) PROVE IndInv'
  <2>1. PICK S : S = form.providers \cup {c} OBVIOUS
  <2>2. S \subseteq Channels BY <1>3, <2>1 DEF Form
  <2>3. PICK g : g = [form EXCEPT !.providers = S] OBVIOUS
  <2>4. /\ g \in Form /\ g.filled = form.filled /\ g.templates = form.templates /\ g.slug = form.slug
        /\ g.source = form.source /\ g.typed = form.typed /\ g.touched = form.touched
    BY <1>3, <2>2, <2>3 DEF Form
  <2>5. EditForm(g) BY <1>6, <2>1, <2>3 DEF FormProvider
  <2> QED BY <1>3, <2>4, <2>5, EditFormStep
<1>7. ASSUME NEW slug \in Slugs, FormSlug(slug) PROVE IndInv'
  <2>1. PICK g : g = [form EXCEPT !.slug = slug, !.typed = TRUE] OBVIOUS
  <2>2. /\ g \in Form /\ g.filled = form.filled /\ g.templates = form.templates /\ g.typed
        /\ g.source = form.source /\ g.touched = form.touched
    BY <1>3, <2>1 DEF Form
  <2>3. EditForm(g) BY <1>7, <2>1 DEF FormSlug
  <2> QED BY <1>3, <2>2, <2>3, EditFormStep
<1>8. ASSUME NEW m \in Templates, FormTemplate(m) PROVE IndInv'
  <2>1. PICK S : S = Toggled(form.templates, m) OBVIOUS
  <2>2. S \subseteq Templates /\ \A n \in Templates \ {m} : n \in S <=> n \in form.templates
    BY <1>3, <2>1 DEF Toggled, Form
  <2>3. PICK T : T = form.touched \cup {m} OBVIOUS
  <2>4. PICK g : g = [form EXCEPT !.templates = S, !.touched = T] OBVIOUS
  <2>5. /\ g \in Form /\ g.filled = form.filled /\ g.slug = form.slug /\ g.source = form.source
        /\ g.typed = form.typed /\ g.templates = S /\ g.touched = T
    BY <1>3, <2>2, <2>3, <2>4 DEF Form
  <2>6. Fits(g) BY <1>3, <2>2, <2>3, <2>5 DEF Fits
  <2>7. EditForm(g) BY <1>8, <2>1, <2>3, <2>4 DEF FormTemplate
  <2> QED BY <2>5, <2>6, <2>7, EditFormStep
<1> QED BY <1>4, <1>5, <1>6, <1>7, <1>8

LEMMA SaveTenantStep == ASSUME IndInv, SaveTenant PROVE IndInv'
<1>1. TenantsInv BY DEF IndInv
<1>2. PICK k : k = [tenant |-> editing, form |-> form, at |-> 1] OBVIOUS
<1>3. /\ editing # None /\ task = None /\ task' = k /\ Step
      /\ UNCHANGED <<tenants, configs, had, editing, form, opens, detail, psVars, saved, stale, partial>>
  BY <1>2 DEF SaveTenant, Step, Pages
<1>4. form \in Form /\ editing \in Tenants BY <1>1, <1>3 DEF TenantsInv, FormOpen
<1>5. k \in Task /\ k.form = form /\ k.at = 1 BY <1>2, <1>4, StatementFacts DEF Task
<1>6. \A f \in Form : Held(f)' => Held(f) BY <1>3, <1>5 DEF Held
<1>7. FormOpen' BY <1>1, <1>3 DEF TenantsInv, FormOpen
<1>8. OpensKnown' BY <1>1, <1>3 DEF TenantsInv, OpensKnown
<1> QED BY <1>1, <1>3, <1>5, <1>6, <1>7, <1>8, HeldStep DEF TenantsInv

-----------------------------------------------------------------------------
(* The statements of a save *)

LEMMA AtFacts ==
    ASSUME NEW n \in 1..8
    PROVE  /\ Statements[n] = "name" <=> n = 1
           /\ Statements[n] = "features" <=> n = 2
           /\ Statements[n] = "addTemplates" <=> n = 7
<1>1. n \in {1, 2, 3, 4, 5, 6, 7, 8} OBVIOUS
<1> QED BY <1>1, StatementFacts

\* Only the saved tenant changes: its slug at the first statement, its templates at
\* the last two.
LEMMA TenantAfterFacts ==
    ASSUME TenantsInv, task # None
    PROVE  /\ TenantAfter(task) \in [Tenants -> Tenant]
           /\ \A t \in Tenants \ {task.tenant} : TenantAfter(task)[t] = tenants[t]
           /\ task.at = 7 => TenantAfter(task)[task.tenant].templates = task.form.templates
           /\ task.at \notin {6, 7} => TenantAfter(task)[task.tenant].templates = tenants[task.tenant].templates
<1>1. PICK t \in Tenants, g \in Form : t = task.tenant /\ g = task.form BY TaskFacts
<1>2. tenants \in [Tenants -> Tenant] /\ tenants[t] \in Tenant BY DEF TenantsInv
<1>3. PICK x : x = CASE Statements[task.at] = "name" -> [tenants[t] EXCEPT !.slug = g.slug]
                     [] Statements[task.at] = "features" -> [tenants[t] EXCEPT !.features = g.features]
                     [] Statements[task.at] = "channels" -> [tenants[t] EXCEPT !.channels = g.channels]
                     [] Statements[task.at] = "dropTemplates" -> [tenants[t] EXCEPT !.templates = {}]
                     [] Statements[task.at] = "addTemplates" -> [tenants[t] EXCEPT !.templates = g.templates]
                     [] OTHER -> tenants[t]
  OBVIOUS
<1>4. TenantAfter(task) = [tenants EXCEPT ![t] = x] BY <1>1, <1>2, <1>3 DEF TenantAfter
<1>5. task.at \in {1, 2, 3, 4, 5, 6, 7, 8} BY TaskFacts
<1>6. \/ task.at = 1 /\ x = [tenants[t] EXCEPT !.slug = g.slug]
      \/ task.at = 2 /\ x = [tenants[t] EXCEPT !.features = g.features]
      \/ task.at = 3 /\ x = [tenants[t] EXCEPT !.channels = g.channels]
      \/ task.at = 6 /\ x = [tenants[t] EXCEPT !.templates = {}]
      \/ task.at = 7 /\ x = [tenants[t] EXCEPT !.templates = g.templates]
      \/ task.at \in {4, 5, 8} /\ x = tenants[t]
  <2>1. CASE task.at = 1 BY <1>3, <2>1, StatementFacts
  <2>2. CASE task.at = 2 BY <1>3, <2>2, StatementFacts
  <2>3. CASE task.at = 3 BY <1>3, <2>3, StatementFacts
  <2>4. CASE task.at = 4 BY <1>3, <2>4, StatementFacts
  <2>5. CASE task.at = 5 BY <1>3, <2>5, StatementFacts
  <2>6. CASE task.at = 6 BY <1>3, <2>6, StatementFacts
  <2>7. CASE task.at = 7 BY <1>3, <2>7, StatementFacts
  <2>8. CASE task.at = 8 BY <1>3, <2>8, StatementFacts
  <2> QED BY <1>5, <2>1, <2>2, <2>3, <2>4, <2>5, <2>6, <2>7, <2>8
<1>7. /\ x \in Tenant /\ (task.at = 7 => x.templates = g.templates)
      /\ (task.at \notin {6, 7} => x.templates = tenants[t].templates)
  BY <1>2, <1>6, FormFacts DEF Tenant
<1>8. TenantAfter(task) \in [Tenants -> Tenant] /\ TenantAfter(task)[t] = x
      /\ \A u \in Tenants \ {t} : TenantAfter(task)[u] = tenants[u]
  BY <1>2, <1>4, <1>7
<1> QED BY <1>1, <1>7, <1>8

\* The second statement notes what the form holds, and nothing is forgotten.
LEMMA SavedAfterFacts ==
    ASSUME TenantsInv, task # None
    PROVE  /\ SavedAfter(task) \in [Tenants -> Saved]
           /\ task.at # 2 => SavedAfter(task) = saved
           /\ task.at = 2 =>
                 /\ \A u \in Tenants \ {task.tenant} : SavedAfter(task)[u] = saved[u]
                 /\ SavedAfter(task)[task.tenant].sources
                       = saved[task.tenant].sources \cup {<<task.form.source, task.form.typed>>}
                 /\ SavedAfter(task)[task.tenant].blank = (saved[task.tenant].blank \/ ~task.form.filled)
                 /\ SavedAfter(task)[task.tenant].touched = saved[task.tenant].touched \cup task.form.touched
                 /\ SavedAfter(task)[task.tenant].cut = saved[task.tenant].cut
<1>1. PICK t \in Tenants, g \in Form : t = task.tenant /\ g = task.form BY TaskFacts
<1>2. task.at \in 1..8 BY TaskFacts
<1>3. saved \in [Tenants -> Saved] /\ saved[t] \in Saved BY DEF TenantsInv
<1>4. CASE task.at # 2 BY <1>2, <1>3, <1>4, AtFacts DEF SavedAfter
<1>5. CASE task.at = 2
  <2>1. PICK b \in BOOLEAN : b = (saved[t].blank \/ ~g.filled) OBVIOUS
  <2>2. PICK S : S = saved[t].sources \cup {<<g.source, g.typed>>} OBVIOUS
  <2>3. PICK T : T = saved[t].touched \cup g.touched OBVIOUS
  <2>4. S \subseteq Tenants \X BOOLEAN /\ T \subseteq Templates BY <1>3, <2>2, <2>3, FormFacts DEF Saved
  <2>5. PICK x : x = [saved[t] EXCEPT !.sources = S, !.blank = b, !.touched = T] OBVIOUS
  <2>6. x \in Saved /\ x.sources = S /\ x.blank = b /\ x.touched = T /\ x.cut = saved[t].cut
    BY <1>3, <2>4, <2>5 DEF Saved
  <2>7. x = Noting(saved[t], g) BY <2>1, <2>2, <2>3, <2>5, Zenon DEF Noting
  <2>8. SavedAfter(task) = [saved EXCEPT ![t] = Noting(saved[t], g)] BY <1>1, <1>2, <1>5, AtFacts DEF SavedAfter
  <2>9. SavedAfter(task) = [saved EXCEPT ![t] = x] BY <2>7, <2>8
  <2>10. SavedAfter(task) \in [Tenants -> Saved] /\ SavedAfter(task)[t] = x
         /\ \A u \in Tenants \ {t} : SavedAfter(task)[u] = saved[u]
    BY <1>3, <2>6, <2>9
  <2> QED BY <1>1, <1>5, <2>1, <2>2, <2>3, <2>6, <2>10
<1> QED BY <1>4, <1>5

\* A tenant without a step of its own shows the same overview.
LEMMA OverviewFrame ==
    ASSUME NEW t, UNCHANGED tenants[t], RowsOf(t)' = RowsOf(t),
           \A r \in RowsOf(t) : configs'[r].active = configs[r].active
    PROVE  ShownOverview(t)' = ShownOverview(t)
<1>1. {r \in RowsOf(t) : configs[r].active}' = {r \in RowsOf(t) : configs[r].active} OBVIOUS
<1> QED BY <1>1 DEF ShownOverview

LEMMA ConfigsAfterFacts ==
    ASSUME TenantsInv, ProvidersInv, task # None, configs' = ConfigsAfter(task)
    PROVE  /\ configs' \in [Rows -> {Absent, Gone} \cup Config]
           /\ \A r \in Rows : configs'[r] = configs[r] \/ (configs'[r] = Gone /\ r \in RowsOf(task.tenant))
<1>1. \A r \in Rows : configs'[r] = configs[r] \/ (configs'[r] = Gone /\ r \in RowsOf(task.tenant))
  BY DEF ConfigsAfter
<1>2. configs' = [r \in Rows |-> configs'[r]] BY DEF ConfigsAfter
<1>3. \A r \in Rows : configs'[r] \in {Absent, Gone} \cup Config BY <1>1 DEF ProvidersInv
<1> QED BY <1>1, <1>2, <1>3

\* The rows of the other tenants stay.
LEMMA OtherRows ==
    ASSUME TenantsInv, ProvidersInv, task # None, configs' = ConfigsAfter(task), NEW t \in Tenants, t # task.tenant
    PROVE  RowsOf(t)' = RowsOf(t) /\ \A r \in RowsOf(t) : configs'[r] = configs[r]
<1>1. \A r \in Rows : configs'[r] = configs[r] \/ (configs'[r] = Gone /\ r \in RowsOf(task.tenant))
  BY ConfigsAfterFacts
<1>2. \A r \in RowsOf(t) : r \in Rows /\ r \notin RowsOf(task.tenant) BY DEF RowsOf
<1>3. \A r \in RowsOf(t) : configs'[r] = configs[r] BY <1>1, <1>2
<1>4. RowsOf(t) \subseteq RowsOf(t)' BY <1>3 DEF RowsOf
<1>5. RowsOf(t)' \subseteq RowsOf(t) BY <1>1 DEF RowsOf
<1> QED BY <1>3, <1>4, <1>5

\* The tenants' part of a statement.
LEMMA ProvisionTenants ==
    ASSUME TenantsInv, task # None, ~Refused(task), tenants' = TenantAfter(task), saved' = SavedAfter(task),
           had' = [had EXCEPT ![task.tenant] = @ \cup {tenants'[task.tenant].slug}],
           UNCHANGED <<form, opens>>,
           IF Finishes(task) THEN task' = None /\ editing' = None
           ELSE task' = [task EXCEPT !.at = @ + 1] /\ UNCHANGED editing
    PROVE  TenantsInv'
<1>1. PICK t \in Tenants, g \in Form, n \in 1..8 : t = task.tenant /\ g = task.form /\ n = task.at /\ task \in Task
  BY TaskFacts
<1>2. \/ n = 8 /\ task' = None /\ editing' = None
      \/ n < 8 /\ task' \in Task /\ task' # None /\ task'.tenant = t /\ task'.form = g /\ task'.at = n + 1
         /\ editing' = editing
  <2>1. CASE n = 8 BY <1>1, <2>1, StatementFacts DEF Finishes
  <2>2. CASE n # 8
    <3>1. task' = [task EXCEPT !.at = @ + 1] /\ editing' = editing
      BY <1>1, <2>2, StatementFacts DEF Finishes
    <3>2. n < 8 /\ n + 1 \in DOMAIN Statements BY <2>2, StatementFacts
    <3>3. task' \in Task /\ task'.tenant = t /\ task'.form = g /\ task'.at = n + 1 BY <1>1, <3>1, <3>2 DEF Task
    <3> QED BY <3>1, <3>2, <3>3, TenantConfigMarkers
  <2> QED BY <2>1, <2>2
<1>3. /\ tenants' \in [Tenants -> Tenant] /\ \A u \in Tenants \ {t} : tenants'[u] = tenants[u]
      /\ (n = 7 => tenants'[t].templates = g.templates)
      /\ (n \notin {6, 7} => tenants'[t].templates = tenants[t].templates)
  BY <1>1, TenantAfterFacts
<1>4. /\ saved' \in [Tenants -> Saved] /\ (n # 2 => saved' = saved)
      /\ n = 2 => /\ \A u \in Tenants \ {t} : saved'[u] = saved[u]
                  /\ saved'[t].sources = saved[t].sources \cup {<<g.source, g.typed>>}
                  /\ saved'[t].blank = (saved[t].blank \/ ~g.filled)
                  /\ saved'[t].touched = saved[t].touched \cup g.touched
                  /\ saved'[t].cut = saved[t].cut
  BY <1>1, SavedAfterFacts
<1>5. PICK s \in Slugs : s = tenants'[t].slug BY <1>3 DEF Tenant
<1>6. /\ had' \in [Tenants -> SUBSET Slugs] /\ had'[t] = had[t] \cup {s}
      /\ \A u \in Tenants \ {t} : had'[u] = had[u]
  BY <1>1, <1>5 DEF TenantsInv
<1>7. HistoryGrows
  <2>1. ASSUME NEW u \in Tenants, NEW m \in Templates, Excused(u, m) PROVE Excused(u, m)'
    <3>1. CASE saved'[u] = saved[u] BY <2>1, <3>1 DEF Excused, Foreign
    <3>2. CASE n = 2 /\ u = t BY <1>4, <2>1, <3>2 DEF Excused, Foreign
    <3> QED BY <1>4, <3>1, <3>2
  <2> QED BY <1>6, <2>1 DEF HistoryGrows
<1>8. Fits(g) BY <1>1 DEF TenantsInv, FormsFit, Held
<1>9. Fits(g)' BY <1>7, <1>8, FitsStays
<1>10. FormsFit'
  <2>1. \A f \in Form : Held(f)' => Held(f) BY <1>1, <1>2 DEF Held
  <2>2. \A f \in Form : Held(f)' => Fits(f)' BY <1>7, <2>1, FitsStays DEF TenantsInv, FormsFit
  <2> QED BY <2>2 DEF FormsFit
<1>11. OwnSlug'
  <2>1. \A u \in Tenants \ {t} : tenants[u].slug # g.slug
    <3>1. CASE n = 1 BY <1>1, <3>1, StatementFacts DEF Refused
    <3>2. CASE n # 1 BY <1>1, <3>2 DEF TenantsInv, OwnSlug
    <3> QED BY <3>1, <3>2
  <2> QED BY <1>2, <1>3, <2>1 DEF OwnSlug
<1>12. Noted'
  <2>1. CASE n = 1 \/ n = 8 BY <1>2, <2>1 DEF Noted
  <2>2. CASE n = 2
    <3>1. <<g.source, g.typed>> \in saved'[t].sources /\ (g.filled \/ saved'[t].blank) /\ g.touched \subseteq saved'[t].touched
      BY <1>4, <2>2, FormFacts
    <3> QED BY <1>2, <3>1 DEF Noted
  <2>3. CASE n > 2 /\ n < 8
    <3>1. saved' = saved /\ task'.tenant = t /\ task'.form = g BY <1>2, <1>4, <2>3
    <3>2. /\ <<g.source, g.typed>> \in saved[t].sources /\ (g.filled \/ saved[t].blank)
          /\ g.touched \subseteq saved[t].touched
      BY <1>1, <2>3 DEF TenantsInv, Noted
    <3> QED BY <3>1, <3>2 DEF Noted
  <2> QED BY <2>1, <2>2, <2>3
<1>13. TemplatesOK'
  <2>1. ASSUME NEW u \in Tenants \ {t}, NEW m \in Templates
        PROVE  (m \in tenants'[u].templates <=> m \in TemplatesOf[u]) \/ Excused(u, m)'
    <3>1. (m \in tenants[u].templates <=> m \in TemplatesOf[u]) \/ Excused(u, m)
      BY <1>1, <2>1 DEF TenantsInv, TemplatesOK
    <3> QED BY <1>3, <1>7, <2>1, <3>1 DEF HistoryGrows
  <2>2. CASE n = 6 BY <1>2, <2>1, <2>2 DEF TemplatesOK
  <2>3. CASE n \notin {6, 7}
    <3>1. ASSUME NEW m \in Templates PROVE (m \in tenants'[t].templates <=> m \in TemplatesOf[t]) \/ Excused(t, m)'
      <4>1. (m \in tenants[t].templates <=> m \in TemplatesOf[t]) \/ Excused(t, m)
        BY <1>1, <2>3 DEF TenantsInv, TemplatesOK
      <4> QED BY <1>3, <1>7, <2>3, <4>1 DEF HistoryGrows
    <3> QED BY <2>1, <3>1 DEF TemplatesOK
  <2>4. CASE n = 7
    <3>1. saved' = saved /\ tenants'[t].templates = g.templates BY <1>3, <1>4, <2>4
    <3>2. /\ <<g.source, g.typed>> \in saved[t].sources /\ (g.filled \/ saved[t].blank)
          /\ g.touched \subseteq saved[t].touched
      BY <1>1, <2>4 DEF TenantsInv, Noted
    <3>3. ASSUME NEW m \in Templates PROVE (m \in g.templates <=> m \in TemplatesOf[t]) \/ Excused(t, m)'
      <4>1. CASE g.source # t
        <5>1. Foreign(t)'
          <6>1. <<g.source, g.typed>>[1] # t BY <4>1
          <6> QED BY <3>1, <3>2, <6>1 DEF Foreign
        <5> QED BY <5>1 DEF Excused
      <4>2. CASE saved[t].blank BY <3>1, <4>2 DEF Excused
      <4>3. CASE g.source = t /\ g.filled
        <5>1. (m \in g.templates <=> m \in TemplatesOf[t]) \/ m \in g.touched \/ Excused(t, m)
          BY <1>8, <4>3 DEF Fits
        <5>2. Excused(t, m) => Excused(t, m)' BY <1>7 DEF HistoryGrows
        <5>3. m \in g.touched => Excused(t, m)' BY <3>1, <3>2 DEF Excused
        <5> QED BY <5>1, <5>2, <5>3
      <4> QED BY <3>2, <4>1, <4>2, <4>3
    <3> QED BY <2>1, <3>1, <3>3 DEF TemplatesOK
  <2> QED BY <2>2, <2>3, <2>4
<1>14. SlugsKnown' BY <1>3, <1>5, <1>6 DEF TenantsInv, SlugsKnown
<1>15. OpensKnown'
  <2>1. \A i \in DOMAIN opens : opens[i].tenant \in Tenants /\ opens[i].slug \in had[opens[i].tenant]
    BY OpensFacts DEF TenantsInv, OpensKnown
  <2> QED BY <1>7, <2>1 DEF OpensKnown, HistoryGrows
<1>16. OwnDataOnly'
  <2>1. \A x \in Tenants : Renamed(x) => Renamed(x)'
    <3>1. \A x \in Tenants : had[x] \subseteq had'[x] /\ SlugOf[x] \in had[x] BY <1>7 DEF HistoryGrows, TenantsInv, SlugsKnown
    <3> QED BY <3>1 DEF Renamed
  <2>2. ASSUME NEW u \in Tenants, NEW x \in saved'[u].sources PROVE x[1] = u \/ x[2] \/ Renamed(x[1])'
    <3>1. CASE x \in saved[u].sources
      <4>1. x[1] \in Tenants BY <3>1 DEF TenantsInv, Saved
      <4>2. x[1] = u \/ x[2] \/ Renamed(x[1]) BY <3>1 DEF TenantsInv, OwnDataOnly
      <4> QED BY <2>1, <4>1, <4>2
    <3>2. CASE n = 2 /\ u = t /\ x = <<g.source, g.typed>>
      <4>1. PICK y \in Tenants : y = g.source BY FormFacts
      <4>2. x[1] = y /\ x[2] = g.typed BY <3>2, <4>1
      <4>3. CASE y # t /\ ~g.typed
        <5>1. g.slug \in had[y] BY <1>8, <4>1, <4>3 DEF Fits
        <5>2. tenants[y].slug # g.slug BY <1>1, <3>2, <4>3 DEF TenantsInv, OwnSlug
        <5>3. tenants[y].slug \in had[y] BY DEF TenantsInv, SlugsKnown
        <5>4. Renamed(y) BY <5>1, <5>2, <5>3 DEF Renamed
        <5> QED BY <2>1, <4>2, <5>4
      <4> QED BY <3>2, <4>2, <4>3
    <3> QED BY <1>4, <2>2, <3>1, <3>2
  <2> QED BY <2>2 DEF OwnDataOnly
<1>17. FormOpen' BY <1>2 DEF TenantsInv, FormOpen
<1> QED BY <1>2, <1>3, <1>4, <1>6, <1>10, <1>11, <1>12, <1>13, <1>14, <1>15, <1>16, <1>17 DEF TenantsInv

LEMMA ProvisionStep == ASSUME IndInv, Provision PROVE IndInv'
<1>1. TenantsInv /\ ProvidersInv /\ DetailInv /\ Counters BY DEF IndInv
<1>2. /\ task # None /\ ~Refused(task) /\ tenants' = TenantAfter(task) /\ configs' = ConfigsAfter(task)
      /\ Outdates(task.tenant) /\ System
      /\ UNCHANGED <<form, opens, detail, listed, requests, saving, partial>>
  BY DEF Provision, psVars
<1>3. PICK t \in Tenants : t = task.tenant BY <1>1, <1>2, TaskFacts
<1>4. Counters' BY <1>1, <1>2, CountersKept DEF Step
<1>5. TenantsInv' BY <1>1, ProvisionTenants DEF Provision
<1>6. \A u \in Tenants \ {t} : tenants'[u] = tenants[u] BY <1>1, <1>2, <1>3, TenantAfterFacts
<1>7. /\ configs' \in [Rows -> {Absent, Gone} \cup Config]
      /\ \A r \in Rows : configs'[r] = configs[r] \/ (configs'[r] = Gone /\ r \in RowsOf(t))
  BY <1>1, <1>2, <1>3, ConfigsAfterFacts
<1>8. ProvidersInv' BY <1>1, <1>2, <1>7 DEF ProvidersInv, NewRowsComplete, ConfigsAreComplete
<1>9. RowsKnown'
  <2>1. detail # None => detail.overview.rows \subseteq Rows BY <1>1 DEF DetailInv, DetailPage, Overview
  <2> QED BY <1>1, <1>2, <1>7, <2>1 DEF DetailInv, RowsKnown
<1>10. OverviewFollowing'
  <2>1. ASSUME detail # None, ~stale' PROVE Expected' = ShownOverview(detail.tenant)'
    <3>1. PICK u \in Tenants : u = detail.tenant BY <1>1, <2>1 DEF DetailInv, DetailPage
    <3>2. ~stale /\ u # t BY <1>2, <1>3, <2>1, <3>1 DEF Outdates
    <3>3. RowsOf(u)' = RowsOf(u) /\ \A r \in RowsOf(u) : configs'[r] = configs[r]
      BY <1>1, <1>2, <1>3, <3>2, OtherRows
    <3>4. ShownOverview(u)' = ShownOverview(u) BY <1>6, <3>2, <3>3, OverviewFrame
    <3>5. Expected = ShownOverview(u) BY <1>1, <2>1, <3>1, <3>2 DEF DetailInv, OverviewFollowing
    <3>6. Expected' = Expected BY <1>2 DEF Expected
    <3> QED BY <1>2, <3>1, <3>4, <3>5, <3>6
  <2> QED BY <1>1, <1>2, <2>1 DEF DetailInv, OverviewFollowing
<1>11. stale' \in BOOLEAN BY <1>1, <1>2 DEF DetailInv, Outdates
<1>12. DetailInv' BY <1>1, <1>2, <1>9, <1>10, <1>11 DEF DetailInv
<1> QED BY <1>4, <1>5, <1>8, <1>12 DEF IndInv

\* A failure between the deletion of the templates and their insertion is noted;
\* before and after it they are there.
LEMMA ProvisionFailsStep == ASSUME IndInv, ProvisionFails PROVE IndInv'
<1>1. TenantsInv BY DEF IndInv
<1>2. /\ task # None /\ task' = None /\ Step
      /\ UNCHANGED <<tenants, configs, had, editing, form, opens, detail, psVars, stale, partial>>
  BY DEF ProvisionFails, Step
<1>3. PICK t \in Tenants, n \in 1..8 : t = task.tenant /\ n = task.at BY <1>1, <1>2, TaskFacts
<1>4. saved \in [Tenants -> Saved] /\ saved[t] \in Saved BY <1>1 DEF TenantsInv
<1>5. saved' = IF n = 7 THEN [saved EXCEPT ![t].cut = TRUE] ELSE saved BY <1>3, AtFacts DEF ProvisionFails
<1>6. /\ saved' \in [Tenants -> Saved] /\ (n = 7 => saved'[t].cut)
      /\ \A u \in Tenants : /\ saved'[u].sources = saved[u].sources /\ saved'[u].blank = saved[u].blank
                            /\ saved'[u].touched = saved[u].touched /\ (saved[u].cut => saved'[u].cut)
  BY <1>4, <1>5 DEF Saved
<1>7. HistoryGrows BY <1>2, <1>6 DEF HistoryGrows, Excused, Foreign
<1>8. FormsFit'
  <2>1. \A f \in Form : Held(f)' => Held(f) BY <1>2 DEF Held
  <2>2. \A f \in Form : Held(f)' => Fits(f)' BY <1>1, <1>7, <2>1, FitsStays DEF TenantsInv, FormsFit
  <2> QED BY <2>2 DEF FormsFit
<1>9. TemplatesOK'
  <2> SUFFICES ASSUME NEW u \in Tenants, NEW m \in Templates
               PROVE  (m \in tenants[u].templates <=> m \in TemplatesOf[u]) \/ Excused(u, m)'
    BY <1>2 DEF TemplatesOK
  <2>1. CASE u = t /\ n = 7 BY <1>6, <2>1 DEF Excused
  <2>2. CASE ~(u = t /\ n = 7)
    <3>1. (m \in tenants[u].templates <=> m \in TemplatesOf[u]) \/ Excused(u, m)
      BY <1>1, <1>3, <2>2 DEF TenantsInv, TemplatesOK
    <3> QED BY <1>7, <3>1 DEF HistoryGrows
  <2> QED BY <2>1, <2>2
<1>10. SlugsKnown' /\ OpensKnown' BY <1>1, <1>2 DEF TenantsInv, SlugsKnown, OpensKnown
<1>11. FormOpen' /\ OwnSlug' /\ Noted' BY <1>1, <1>2 DEF TenantsInv, FormOpen, OwnSlug, Noted
<1>12. OwnDataOnly' BY <1>1, <1>2, <1>6 DEF TenantsInv, OwnDataOnly, Renamed
<1>13. TenantsInv' BY <1>1, <1>2, <1>6, <1>8, <1>9, <1>10, <1>11, <1>12 DEF TenantsInv
<1> QED BY <1>2, <1>13, FormStep

-----------------------------------------------------------------------------
(* The Tenant Detail page *)

LEMMA DetailFacts ==
    ASSUME DetailInv, detail # None
    PROVE  /\ detail \in DetailPage /\ detail.tenant \in Tenants /\ detail.overview \in Overview
           /\ detail.confirming \in {None} \cup Switch /\ detail.overview.rows \subseteq Rows /\ detail.done \in BOOLEAN
<1>1. detail \in DetailPage BY DEF DetailInv
<1>2. detail.tenant \in Tenants /\ detail.overview \in Overview /\ detail.confirming \in {None} \cup Switch
      /\ detail.done \in BOOLEAN
  BY <1>1 DEF DetailPage
<1> QED BY <1>1, <1>2 DEF Overview

LEMMA SwitchFacts ==
    ASSUME NEW s \in Switch
    PROVE  /\ s.on \in BOOLEAN
           /\ \/ s.kind = "feature" /\ s.id \in Features
              \/ s.kind = "channel" /\ s.id \in Channels
              \/ s.kind = "provider" /\ s.id \in Rows
BY DEF Switch

\* The overview is what is stored, and its rows exist.
LEMMA ShownFacts ==
    ASSUME TenantsInv, ProvidersInv, NEW t \in Tenants
    PROVE  ShownOverview(t) \in Overview /\ \A r \in ShownOverview(t).rows : configs[r] \in Config
<1>1. tenants[t] \in Tenant BY DEF TenantsInv
<1>2. tenants[t].features \subseteq Features /\ tenants[t].channels \subseteq Channels BY <1>1 DEF Tenant
<1>3. RowsOf(t) \subseteq Rows /\ \A r \in RowsOf(t) : configs[r] \in Config BY DEF ProvidersInv, RowsOf
<1>4. PICK A : A = {r \in RowsOf(t) : configs[r].active} OBVIOUS
<1>5. A \subseteq Rows BY <1>3, <1>4
<1>6. ShownOverview(t) = [features |-> tenants[t].features, channels |-> tenants[t].channels,
                          rows |-> RowsOf(t), active |-> A]
  BY <1>4 DEF ShownOverview
<1> QED BY <1>2, <1>3, <1>5, <1>6 DEF Overview

\* A step of the page that touches no table.
LEMMA PageStep ==
    ASSUME IndInv, DetailInv', Step, UNCHANGED <<tenants, configs, tpVars, psVars, partial>>
    PROVE  IndInv'
<1>1. UNCHANGED <<tenants, configs, had, editing, form, opens, task, saved, listed, requests, saving, partial>>
  BY DEF tpVars, psVars
<1>2. Counters' BY CountersKept DEF IndInv
<1>3. tenants' \in [Tenants -> Tenant] BY <1>1 DEF IndInv, TenantsInv
<1>4. TenantsInv' BY <1>1, <1>3, TenantsFrame DEF IndInv
<1>5. ProvidersInv' BY <1>1, ProvidersFrame DEF IndInv
<1> QED BY <1>2, <1>4, <1>5 DEF IndInv

LEMMA OpenDetailStep == ASSUME IndInv, NEW t \in Tenants, OpenDetail(t) PROVE IndInv'
<1>1. TenantsInv /\ ProvidersInv BY DEF IndInv
<1>2. PICK o \in Overview : o = ShownOverview(t) /\ \A r \in o.rows : configs[r] \in Config BY <1>1, ShownFacts
<1>3. /\ detail' = [tenant |-> t, overview |-> o, confirming |-> None, done |-> FALSE] /\ stale' = FALSE /\ Step
      /\ UNCHANGED <<tenants, configs, tpVars, psVars, partial>>
  BY <1>2 DEF OpenDetail, Step, Pages
<1>4. detail' \in DetailPage /\ detail'.tenant = t /\ detail'.overview = o /\ detail'.confirming = None /\ ~detail'.done
  BY <1>3 DEF DetailPage
<1>5. ShownOverview(t)' = ShownOverview(t) BY <1>3 DEF ShownOverview, RowsOf
<1>6. RowsKnown' BY <1>2, <1>3, <1>4 DEF RowsKnown
<1>7. OverviewFollowing' BY <1>2, <1>4, <1>5 DEF OverviewFollowing, Expected
<1>8. DetailInv' BY <1>3, <1>4, <1>6, <1>7 DEF DetailInv
<1> QED BY <1>3, <1>8, PageStep

LEMMA ConfirmToggleStep == ASSUME IndInv, NEW s \in Switch, ConfirmToggle(s) PROVE IndInv'
<1>1. DetailInv BY DEF IndInv
<1>2. /\ detail # None /\ ~Switching /\ (s.kind = "provider" => s.id \in detail.overview.rows)
      /\ detail' = [detail EXCEPT !.confirming = s] /\ Step
      /\ UNCHANGED <<tenants, configs, tpVars, psVars, stale, partial>>
  BY DEF ConfirmToggle, Step, Pages
<1>3. detail.confirming = None /\ ~detail.done BY <1>1, <1>2 DEF DetailInv, OverviewFollowing, Switching
<1>4. detail' \in DetailPage /\ detail'.tenant = detail.tenant /\ detail'.overview = detail.overview
      /\ detail'.confirming = s /\ detail'.done = detail.done
  BY <1>1, <1>2, DetailFacts DEF DetailPage
<1>5. \A t : ShownOverview(t)' = ShownOverview(t) BY <1>2 DEF ShownOverview, RowsOf
<1>6. RowsKnown' BY <1>1, <1>2, <1>4 DEF DetailInv, RowsKnown
<1>7. OverviewFollowing' BY <1>1, <1>2, <1>3, <1>4, <1>5 DEF DetailInv, OverviewFollowing, Expected
<1>8. DetailInv' BY <1>1, <1>2, <1>4, <1>6, <1>7 DEF DetailInv
<1> QED BY <1>2, <1>8, PageStep

\* What a switch does to the tables.
LEMMA SwitchedFacts ==
    ASSUME IndInv, detail # None, NEW s \in Switch, s = detail.confirming, s # None, CanSwitch(detail.tenant, s)
    PROVE  LET t == detail.tenant IN
           /\ SwitchedTenants(t, s) \in [Tenants -> Tenant]
           /\ \A u \in Tenants : /\ SwitchedTenants(t, s)[u].templates = tenants[u].templates
                                /\ SwitchedTenants(t, s)[u].slug = tenants[u].slug
           /\ SwitchedConfigs(s) \in [Rows -> {Absent, Gone} \cup Config]
           /\ \A r \in Rows : \/ SwitchedConfigs(s)[r] = configs[r]
                              \/ /\ configs[r] \in Config /\ SwitchedConfigs(s)[r] \in Config
                                 /\ SwitchedConfigs(s)[r].tenant = configs[r].tenant
                                 /\ SwitchedConfigs(s)[r].fields = configs[r].fields
                                 /\ SwitchedConfigs(s)[r].provider = configs[r].provider
           /\ s.kind = "provider" =>
                 /\ SwitchedTenants(t, s) = tenants
                 /\ SwitchedConfigs(s)[s.id].active = s.on
                 /\ \A r \in Rows \ {s.id} : SwitchedConfigs(s)[r] = configs[r]
           /\ s.kind # "provider" => SwitchedConfigs(s) = configs
<1>1. TenantsInv /\ ProvidersInv /\ DetailInv BY DEF IndInv
<1>2. PICK t \in Tenants : t = detail.tenant BY <1>1, DetailFacts
<1>3. tenants \in [Tenants -> Tenant] /\ tenants[t] \in Tenant BY <1>1 DEF TenantsInv
<1>4. configs \in [Rows -> {Absent, Gone} \cup Config] BY <1>1 DEF ProvidersInv
<1>5. CASE s.kind = "feature"
  <2>1. PICK S : S = Put(tenants[t].features, s.id, s.on) OBVIOUS
  <2>2. S \subseteq Features BY <1>3, <1>5, <2>1, SwitchFacts DEF Put, Tenant
  <2>3. SwitchedTenants(t, s) = [tenants EXCEPT ![t] = [tenants[t] EXCEPT !.features = S]]
    BY <1>3, <1>5, <2>1 DEF SwitchedTenants, Tenant
  <2>4. [tenants[t] EXCEPT !.features = S] \in Tenant
        /\ [tenants[t] EXCEPT !.features = S].templates = tenants[t].templates
        /\ [tenants[t] EXCEPT !.features = S].slug = tenants[t].slug
    BY <1>3, <2>2 DEF Tenant
  <2>5. SwitchedConfigs(s) = configs BY <1>5 DEF SwitchedConfigs
  <2> QED BY <1>2, <1>3, <1>4, <1>5, <2>3, <2>4, <2>5
<1>6. CASE s.kind = "channel"
  <2>1. PICK S : S = Put(tenants[t].channels, s.id, s.on) OBVIOUS
  <2>2. S \subseteq Channels BY <1>3, <1>6, <2>1, SwitchFacts DEF Put, Tenant
  <2>3. SwitchedTenants(t, s) = [tenants EXCEPT ![t] = [tenants[t] EXCEPT !.channels = S]]
    BY <1>3, <1>6, <2>1 DEF SwitchedTenants, Tenant
  <2>4. [tenants[t] EXCEPT !.channels = S] \in Tenant
        /\ [tenants[t] EXCEPT !.channels = S].templates = tenants[t].templates
        /\ [tenants[t] EXCEPT !.channels = S].slug = tenants[t].slug
    BY <1>3, <2>2 DEF Tenant
  <2>5. SwitchedConfigs(s) = configs BY <1>6 DEF SwitchedConfigs
  <2> QED BY <1>2, <1>3, <1>4, <1>6, <2>3, <2>4, <2>5
<1>7. CASE s.kind = "provider"
  <2>1. PICK r \in Rows : r = s.id BY <1>7, SwitchFacts
  <2>2. r \in detail.overview.rows BY <1>1, <1>7, <2>1 DEF DetailInv, RowsKnown
  <2>3. configs[r] \in Config BY <1>1, <1>7, <2>1, <2>2 DEF DetailInv, RowsKnown, CanSwitch
  <2>4. PICK x : x = [configs[r] EXCEPT !.active = s.on] OBVIOUS
  <2>5. x \in Config /\ x.tenant = configs[r].tenant /\ x.fields = configs[r].fields /\ x.active = s.on
        /\ x.provider = configs[r].provider
    BY <2>3, <2>4, SwitchFacts DEF Config
  <2>6. SwitchedConfigs(s) = [configs EXCEPT ![r] = x] BY <1>4, <1>7, <2>1, <2>3, <2>4 DEF SwitchedConfigs, Config
  <2>7. /\ SwitchedConfigs(s) \in [Rows -> {Absent, Gone} \cup Config] /\ SwitchedConfigs(s)[r] = x
        /\ \A q \in Rows \ {r} : SwitchedConfigs(s)[q] = configs[q]
    BY <1>4, <2>5, <2>6
  <2>8. SwitchedTenants(t, s) = tenants BY <1>3, <1>7 DEF SwitchedTenants
  <2>9. \A q \in Rows : \/ SwitchedConfigs(s)[q] = configs[q]
                        \/ /\ configs[q] \in Config /\ SwitchedConfigs(s)[q] \in Config
                           /\ SwitchedConfigs(s)[q].tenant = configs[q].tenant
                           /\ SwitchedConfigs(s)[q].fields = configs[q].fields
                           /\ SwitchedConfigs(s)[q].provider = configs[q].provider
    BY <2>3, <2>5, <2>7
  <2> QED BY <1>2, <1>3, <1>7, <2>1, <2>5, <2>7, <2>8, <2>9
<1> QED BY <1>5, <1>6, <1>7, SwitchFacts

\* A switch keeps everything but the overview.
LEMMA SwitchTables ==
    ASSUME IndInv, detail # None, NEW s \in Switch, s = detail.confirming, s # None, CanSwitch(detail.tenant, s),
           tenants' = SwitchedTenants(detail.tenant, s), configs' = SwitchedConfigs(s),
           Step, UNCHANGED <<tpVars, psVars, partial>>
    PROVE  /\ TenantsInv' /\ ProvidersInv' /\ Counters'
           /\ \A r \in detail.overview.rows : configs'[r] \in {Gone} \cup Config
<1>1. TenantsInv /\ ProvidersInv /\ DetailInv /\ Counters BY DEF IndInv
<1>2. UNCHANGED <<had, editing, form, opens, task, saved, listed, requests, saving, partial>> BY DEF tpVars, psVars
<1>3. Counters' BY <1>1, CountersKept
<1>4. /\ tenants' \in [Tenants -> Tenant] /\ configs' \in [Rows -> {Absent, Gone} \cup Config]
      /\ \A u \in Tenants : tenants'[u].templates = tenants[u].templates /\ tenants'[u].slug = tenants[u].slug
  BY SwitchedFacts
<1>5. \A r \in Rows : \/ configs'[r] = configs[r]
                      \/ /\ configs[r] \in Config /\ configs'[r] \in Config /\ configs'[r].fields = configs[r].fields
                         /\ configs'[r].provider = configs[r].provider
  BY SwitchedFacts
<1>6. TenantsInv' BY <1>1, <1>2, <1>4, TenantsFrame
<1>7. ConfigsAreComplete' BY <1>1, <1>2, <1>5, TenantConfigMarkers DEF ProvidersInv, ConfigsAreComplete
<1>8. ProvidersInv' BY <1>1, <1>2, <1>4, <1>7 DEF ProvidersInv, NewRowsComplete
<1>9. \A r \in detail.overview.rows : configs'[r] \in {Gone} \cup Config
  BY <1>1, <1>5, DetailFacts DEF DetailInv, RowsKnown
<1> QED BY <1>3, <1>6, <1>8, <1>9

\* setOverview does to the overview what the request does to the tables.
LEMMA OverviewFollows ==
    ASSUME IndInv, detail # None, NEW s \in Switch, s = detail.confirming, s # None, CanSwitch(detail.tenant, s),
           tenants' = SwitchedTenants(detail.tenant, s), configs' = SwitchedConfigs(s),
           NEW t \in Tenants, t = detail.tenant, detail.overview = ShownOverview(t)
    PROVE  ShownOverview(t)' = OverviewAfter(detail.overview, s)
<1>1. TenantsInv /\ ProvidersInv /\ DetailInv BY DEF IndInv
<1>2. PICK o \in Overview : t = detail.tenant /\ o = detail.overview BY <1>1, DetailFacts
<1>3. tenants \in [Tenants -> Tenant] /\ tenants[t] \in Tenant BY <1>1 DEF TenantsInv
<1>4. PICK A : A = {r \in RowsOf(t) : configs[r].active} OBVIOUS
<1>5. o = [features |-> tenants[t].features, channels |-> tenants[t].channels, rows |-> RowsOf(t), active |-> A]
  BY <1>2, <1>4 DEF ShownOverview
<1>6. RowsOf(t)' = RowsOf(t)
  <2>1. \A r \in Rows : \/ configs'[r] = configs[r]
                        \/ /\ configs[r] \in Config /\ configs'[r] \in Config
                           /\ configs'[r].tenant = configs[r].tenant
    BY SwitchedFacts
  <2> QED BY <2>1, TenantConfigMarkers DEF RowsOf
<1>7. PICK B : B = {r \in RowsOf(t) : configs'[r].active} OBVIOUS
<1>8. ShownOverview(t)' = [features |-> tenants'[t].features, channels |-> tenants'[t].channels,
                           rows |-> RowsOf(t), active |-> B]
  BY <1>6, <1>7 DEF ShownOverview
<1>9. CASE s.kind = "feature"
  <2>1. PICK S : S = Put(tenants[t].features, s.id, s.on) OBVIOUS
  <2>2. tenants' = [tenants EXCEPT ![t].features = S] BY <1>2, <1>9, <2>1 DEF SwitchedTenants
  <2>3. tenants'[t].features = S /\ tenants'[t].channels = tenants[t].channels BY <1>3, <2>2 DEF Tenant
  <2>4. configs' = configs BY <1>9, SwitchedFacts
  <2>5. A = B BY <1>4, <1>7, <2>4
  <2>6. OverviewAfter(o, s) = [o EXCEPT !.features = S] BY <1>5, <1>9, <2>1 DEF OverviewAfter
  <2> QED BY <1>2, <1>5, <1>8, <2>3, <2>5, <2>6
<1>10. CASE s.kind = "channel"
  <2>1. PICK S : S = Put(tenants[t].channels, s.id, s.on) OBVIOUS
  <2>2. tenants' = [tenants EXCEPT ![t].channels = S] BY <1>2, <1>10, <2>1 DEF SwitchedTenants
  <2>3. tenants'[t].channels = S /\ tenants'[t].features = tenants[t].features BY <1>3, <2>2 DEF Tenant
  <2>4. configs' = configs BY <1>10, SwitchedFacts
  <2>5. A = B BY <1>4, <1>7, <2>4
  <2>6. OverviewAfter(o, s) = [o EXCEPT !.channels = S] BY <1>5, <1>10, <2>1 DEF OverviewAfter
  <2> QED BY <1>2, <1>5, <1>8, <2>3, <2>5, <2>6
<1>11. CASE s.kind = "provider"
  <2>1. /\ tenants' = tenants /\ configs'[s.id].active = s.on
        /\ \A r \in Rows \ {s.id} : configs'[r] = configs[r]
    BY <1>11, SwitchedFacts
  <2>2. s.id \in RowsOf(t) BY <1>1, <1>2, <1>5, <1>11 DEF DetailInv, RowsKnown
  <2>3. B = Put(A, s.id, s.on)
    <3>1. RowsOf(t) \subseteq Rows BY DEF RowsOf
    <3>2. \A r \in RowsOf(t) : r # s.id => configs'[r].active = configs[r].active BY <2>1, <3>1
    <3>3. CASE s.on BY <1>4, <1>7, <2>1, <2>2, <3>2, <3>3 DEF Put
    <3>4. CASE ~s.on BY <1>4, <1>7, <2>1, <2>2, <3>2, <3>4 DEF Put
    <3> QED BY <3>3, <3>4
  <2>4. OverviewAfter(o, s) = [o EXCEPT !.active = Put(A, s.id, s.on)] BY <1>5, <1>11 DEF OverviewAfter
  <2> QED BY <1>2, <1>5, <1>8, <2>1, <2>3, <2>4
<1> QED BY <1>9, <1>10, <1>11, SwitchFacts

LEMMA OverviewAfterFacts ==
    ASSUME NEW o \in Overview, NEW s \in Switch
    PROVE  OverviewAfter(o, s) \in Overview /\ OverviewAfter(o, s).rows = o.rows
<1>1. /\ o.features \subseteq Features /\ o.channels \subseteq Channels /\ o.active \subseteq Rows BY DEF Overview
<1>2. CASE s.kind = "feature"
  <2>1. Put(o.features, s.id, s.on) \subseteq Features BY <1>1, <1>2, SwitchFacts DEF Put
  <2> QED BY <1>2, <2>1 DEF OverviewAfter, Overview
<1>3. CASE s.kind = "channel"
  <2>1. Put(o.channels, s.id, s.on) \subseteq Channels BY <1>1, <1>3, SwitchFacts DEF Put
  <2> QED BY <1>3, <2>1 DEF OverviewAfter, Overview
<1>4. CASE s.kind = "provider"
  <2>1. Put(o.active, s.id, s.on) \subseteq Rows BY <1>1, <1>4, SwitchFacts DEF Put
  <2> QED BY <1>4, <2>1 DEF OverviewAfter, Overview
<1> QED BY <1>2, <1>3, <1>4, SwitchFacts

LEMMA SwitchingFacts ==
    ASSUME DetailInv, Switching
    PROVE  detail # None /\ detail.confirming # None /\ detail.confirming \in Switch
BY DetailFacts DEF Switching

\* Once the API has carried out the switch, the answer will bring the overview up to date.
LEMMA ToggleStep == ASSUME IndInv, Toggle PROVE IndInv'
<1>1. DetailInv BY DEF IndInv
<1>2. detail # None /\ detail.confirming # None /\ detail.confirming \in Switch BY <1>1, SwitchingFacts DEF Toggle
<1>3. PICK s \in Switch : s = detail.confirming BY <1>2
<1>4. /\ CanSwitch(detail.tenant, s) /\ tenants' = SwitchedTenants(detail.tenant, s) /\ ~detail.done
      /\ configs' = SwitchedConfigs(s) /\ Step /\ UNCHANGED <<tpVars, psVars, stale, partial>>
  BY <1>3 DEF Toggle, Step
<1>5. detail' = [detail EXCEPT !.done = TRUE] BY DEF Toggle
<1>6. /\ detail' \in DetailPage /\ detail'.tenant = detail.tenant /\ detail'.overview = detail.overview
      /\ detail'.confirming = s /\ detail'.done
  BY <1>1, <1>2, <1>3, <1>5, DetailFacts DEF DetailPage
<1>7. /\ TenantsInv' /\ ProvidersInv' /\ Counters'
      /\ \A r \in detail.overview.rows : configs'[r] \in {Gone} \cup Config
  BY <1>2, <1>3, <1>4, SwitchTables
<1>8. RowsKnown' BY <1>1, <1>2, <1>3, <1>6, <1>7 DEF DetailInv, RowsKnown
<1>9. OverviewFollowing'
  <2> SUFFICES ASSUME ~stale PROVE OverviewAfter(detail.overview, s) = ShownOverview(detail.tenant)'
    BY <1>2, <1>3, <1>4, <1>6 DEF OverviewFollowing, Expected
  <2>1. detail.overview = ShownOverview(detail.tenant) BY <1>1, <1>2, <1>4 DEF DetailInv, OverviewFollowing, Expected
  <2>2. PICK t \in Tenants : t = detail.tenant BY <1>1, <1>2, DetailFacts
  <2>3. ShownOverview(t)' = OverviewAfter(detail.overview, s)
    BY <1>2, <1>3, <1>4, <2>1, <2>2, OverviewFollows
  <2> QED BY <1>6, <2>2, <2>3
<1>10. DetailInv' BY <1>1, <1>4, <1>6, <1>8, <1>9 DEF DetailInv
<1> QED BY <1>7, <1>10 DEF IndInv

LEMMA ToggleAnsweredStep == ASSUME IndInv, ToggleAnswered PROVE IndInv'
<1>1. DetailInv BY DEF IndInv
<1>2. detail # None /\ detail.confirming # None /\ detail.confirming \in Switch
  BY <1>1, SwitchingFacts DEF ToggleAnswered
<1>3. PICK s \in Switch : s = detail.confirming BY <1>2
<1>4. PICK o \in Overview : o = OverviewAfter(detail.overview, s) /\ o.rows = detail.overview.rows
  BY <1>1, <1>2, DetailFacts, OverviewAfterFacts
<1>5. detail.done /\ Step /\ UNCHANGED <<tenants, configs, tpVars, psVars, stale, partial>> BY DEF ToggleAnswered, Step
<1>6. detail' = [detail EXCEPT !.confirming = None, !.done = FALSE, !.overview = o] BY <1>3, <1>4 DEF ToggleAnswered
<1>7. /\ detail' \in DetailPage /\ detail'.tenant = detail.tenant /\ detail'.overview = o
      /\ detail'.confirming = None /\ ~detail'.done
  BY <1>1, <1>2, <1>6, DetailFacts DEF DetailPage
<1>8. RowsKnown' BY <1>1, <1>2, <1>4, <1>5, <1>7 DEF DetailInv, RowsKnown
<1>9. \A t : ShownOverview(t)' = ShownOverview(t) BY <1>5 DEF ShownOverview, RowsOf
<1>10. OverviewFollowing'
  BY <1>1, <1>2, <1>3, <1>4, <1>5, <1>7, <1>9 DEF DetailInv, OverviewFollowing, Expected
<1>11. DetailInv' BY <1>1, <1>5, <1>7, <1>8, <1>10 DEF DetailInv
<1> QED BY <1>5, <1>11, PageStep

\* Without its answer a switch that was carried out leaves a stale overview; one
\* that was not leaves all as it was.
LEMMA ToggleFailsStep == ASSUME IndInv, ToggleFails PROVE IndInv'
<1>1. DetailInv BY DEF IndInv
<1>2. detail # None /\ detail.confirming # None /\ detail.confirming \in Switch
  BY <1>1, SwitchingFacts DEF ToggleFails
<1>3. /\ detail' = [detail EXCEPT !.confirming = None, !.done = FALSE] /\ stale' = (stale \/ detail.done) /\ Step
      /\ UNCHANGED <<tenants, configs, tpVars, psVars, partial>>
  BY DEF ToggleFails, Step
<1>4. /\ detail' \in DetailPage /\ detail'.tenant = detail.tenant /\ detail'.overview = detail.overview
      /\ detail'.confirming = None /\ ~detail'.done
  BY <1>1, <1>2, <1>3, DetailFacts DEF DetailPage
<1>5. RowsKnown' BY <1>1, <1>2, <1>3, <1>4 DEF DetailInv, RowsKnown
<1>6. \A t : ShownOverview(t)' = ShownOverview(t) BY <1>3 DEF ShownOverview, RowsOf
<1>7. OverviewFollowing' BY <1>1, <1>2, <1>3, <1>4, <1>6 DEF DetailInv, OverviewFollowing, Expected
<1>8. stale' \in BOOLEAN BY <1>3, Zenon
<1>9. DetailInv' BY <1>4, <1>5, <1>7, <1>8 DEF DetailInv
<1> QED BY <1>3, <1>9, PageStep

-----------------------------------------------------------------------------
(* The Provider Settings page *)

LEMMA RequestFacts ==
    ASSUME NEW q \in Request
    PROVE  \/ q.kind \in {"status", "note"} /\ q.row \in Rows /\ q.active \in BOOLEAN
           \/ /\ q.kind = "update" /\ q.row \in Rows /\ q.provider \in Providers /\ q.isDefault \in BOOLEAN
              /\ q.active \in BOOLEAN /\ q.fields \subseteq Fields
           \/ /\ q.kind = "create" /\ q.channel \in Channels /\ q.provider \in Providers /\ q.isDefault \in BOOLEAN
              /\ q.fields \subseteq Fields
           \/ q.kind = "list"
BY DEF Request

\* A step of the page that changes no row.
LEMMA ProvidersOnly ==
    ASSUME IndInv, ProvidersInv', Step, ElseUnchanged, UNCHANGED <<configs, stale>> PROVE IndInv'
<1>1. UNCHANGED <<tenants, had, editing, form, opens, task, saved, detail>> BY DEF ElseUnchanged, tpVars
<1>2. Counters' BY CountersKept DEF IndInv
<1>3. tenants' \in [Tenants -> Tenant] BY <1>1 DEF IndInv, TenantsInv
<1>4. TenantsInv' BY <1>1, <1>3, TenantsFrame DEF IndInv
<1>5. DetailInv' BY <1>1, DetailFrame DEF IndInv
<1> QED BY <1>2, <1>4, <1>5 DEF IndInv

LEMMA SendStep ==
    ASSUME IndInv, NEW q \in Request, NEW row \in Rows \cup {"new"}, SendRequest(q, row),
           q.kind = "create" => RequiredOf[q.provider] \subseteq q.fields
    PROVE  IndInv'
<1>1. ProvidersInv BY DEF IndInv
<1>2. /\ requests' = Append(requests, q) /\ saving' = row /\ Step /\ ElseUnchanged
      /\ UNCHANGED <<configs, listed, stale, partial>>
  BY DEF SendRequest, Step, Pages
<1>3. requests \in Seq(Request) /\ requests' \in Seq(Request) BY <1>1, <1>2 DEF ProvidersInv
<1>4. NewRowsComplete'
  <2>1. \A i \in DOMAIN requests' : (i \in DOMAIN requests /\ requests'[i] = requests[i]) \/ requests'[i] = q
    BY <1>2, <1>3
  <2> QED BY <1>1, <2>1 DEF ProvidersInv, NewRowsComplete
<1>5. ProvidersInv' BY <1>1, <1>2, <1>3, <1>4 DEF ProvidersInv, ConfigsAreComplete
<1> QED BY <1>2, <1>5, ProvidersOnly

LEMMA SendSteps ==
    ASSUME IndInv, \/ \E r \in Rows : SetStatus(r)
                   \/ \E v \in Providers, d \in BOOLEAN, fields \in SUBSET Fields :
                         \/ CreateConfig(v, d, fields)
                         \/ \E r \in Rows, on \in BOOLEAN : UpdateConfig(r, v, d, on, fields)
    PROVE  IndInv'
<1>1. ProvidersInv BY DEF IndInv
<1>2. ASSUME NEW r \in Rows, SetStatus(r) PROVE IndInv'
  <2>1. listed[r] \in Config BY <1>1, <1>2 DEF ProvidersInv, SetStatus
  <2>2. PICK b \in BOOLEAN : b = ~listed[r].active BY <2>1 DEF Config
  <2>3. PICK q : q = [kind |-> "status", row |-> r, active |-> b] OBVIOUS
  <2>4. q \in Request /\ q.kind # "create" BY <2>3 DEF Request
  <2>5. SendRequest(q, r) BY <1>2, <2>2, <2>3 DEF SetStatus
  <2> QED BY <2>4, <2>5, SendStep
<1>3. ASSUME NEW v \in Providers, NEW d \in BOOLEAN, NEW fields \in SUBSET Fields, CreateConfig(v, d, fields)
      PROVE  IndInv'
  <2>1. PICK q : q = [kind |-> "create", channel |-> ChannelOf[v], provider |-> v, isDefault |-> d, fields |-> fields]
    OBVIOUS
  <2>2. ChannelOf[v] \in Channels BY TenantConfigConstants
  <2>3. q \in Request /\ q.fields = fields /\ q.provider = v BY <2>1, <2>2 DEF Request
  <2>4. SendRequest(q, "new") /\ RequiredOf[v] \subseteq fields BY <1>3, <2>1 DEF CreateConfig, Missing
  <2> QED BY <2>3, <2>4, SendStep
<1>4. ASSUME NEW v \in Providers, NEW d \in BOOLEAN, NEW fields \in SUBSET Fields, NEW r \in Rows, NEW on \in BOOLEAN,
             UpdateConfig(r, v, d, on, fields)
      PROVE  IndInv'
  <2>1. PICK q : q = [kind |-> "update", row |-> r, provider |-> v, isDefault |-> d, active |-> on, fields |-> fields]
    OBVIOUS
  <2>2. q \in Request /\ q.kind # "create" BY <2>1 DEF Request
  <2>3. SendRequest(q, r) BY <1>4, <2>1 DEF UpdateConfig
  <2> QED BY <2>2, <2>3, SendStep
<1> QED BY <1>2, <1>3, <1>4

\* A request that was answered or failed.
LEMMA RequestDone ==
    ASSUME ProvidersInv, NEW i \in DOMAIN requests, requests' = RemoveAt(requests, i)
    PROVE  requests' \in Seq(Request) /\ NewRowsComplete'
<1>1. requests \in Seq(Request) BY DEF ProvidersInv
<1>2. requests' \in Seq(Request) /\ \A j \in DOMAIN requests' : \E k \in DOMAIN requests : requests'[j] = requests[k]
  BY <1>1, RemoveAtFacts
<1> QED BY <1>2 DEF ProvidersInv, NewRowsComplete

LEMMA ConfigsListedStep == ASSUME IndInv, NEW i \in DOMAIN requests, ConfigsListed(i) PROVE IndInv'
<1>1. ProvidersInv BY DEF IndInv
<1>2. /\ listed' = Listing /\ requests' = RemoveAt(requests, i) /\ saving' = None /\ Step /\ ElseUnchanged
      /\ UNCHANGED <<configs, stale, partial>>
  BY DEF ConfigsListed, Step
<1>3. Listing \in [Rows -> {Absent} \cup Config]
  <2>1. \A r \in RowsOf(Own) : configs[r] \in Config BY <1>1 DEF ProvidersInv, RowsOf
  <2> QED BY <2>1 DEF Listing
<1>4. requests' \in Seq(Request) /\ NewRowsComplete' BY <1>1, <1>2, RequestDone
<1>5. ProvidersInv' BY <1>1, <1>2, <1>3, <1>4 DEF ProvidersInv, ConfigsAreComplete
<1> QED BY <1>2, <1>5, ProvidersOnly

LEMMA ConfigFailsStep == ASSUME IndInv, NEW i \in DOMAIN requests, ConfigFails(i) PROVE IndInv'
<1>1. ProvidersInv BY DEF IndInv
<1>2. /\ requests' = RemoveAt(requests, i) /\ saving' = None /\ ElseUnchanged
      /\ UNCHANGED <<configs, listed, stale, partial>>
  BY DEF ConfigFails
<1>3. Step BY DEF ConfigFails, Step
<1>4. requests' \in Seq(Request) /\ NewRowsComplete' BY <1>1, <1>2, RequestDone
<1>5. ProvidersInv' BY <1>1, <1>2, <1>4 DEF ProvidersInv, ConfigsAreComplete
<1> QED BY <1>2, <1>3, <1>5, ProvidersOnly

LEMMA ConfigNotedStep == ASSUME IndInv, NEW i \in DOMAIN requests, ConfigNoted(i) PROVE IndInv'
<1>1. ProvidersInv BY DEF IndInv
<1>2. PICK q \in Request : q = requests[i] BY <1>1 DEF ProvidersInv
<1>3. q.kind = "note" BY <1>2 DEF ConfigNoted
<1>4. q.row \in Rows /\ q.active \in BOOLEAN BY <1>3, RequestFacts
<1>5. /\ listed' = [listed EXCEPT ![q.row] = IF @ = Absent THEN @ ELSE [@ EXCEPT !.active = q.active]]
      /\ requests' = RemoveAt(requests, i) /\ saving' = None /\ Step /\ ElseUnchanged
      /\ UNCHANGED <<configs, stale, partial>>
  BY <1>2 DEF ConfigNoted, Step
<1>6. PICK y : y = IF listed[q.row] = Absent THEN listed[q.row] ELSE [listed[q.row] EXCEPT !.active = q.active] OBVIOUS
<1>7. y \in {Absent} \cup Config BY <1>1, <1>4, <1>6 DEF ProvidersInv, Config
<1>8. listed' = [listed EXCEPT ![q.row] = y] BY <1>1, <1>5, <1>6 DEF ProvidersInv
<1>9. listed' \in [Rows -> {Absent} \cup Config] BY <1>1, <1>7, <1>8 DEF ProvidersInv
<1>10. requests' \in Seq(Request) /\ NewRowsComplete' BY <1>1, <1>5, RequestDone
<1>11. ProvidersInv' BY <1>1, <1>5, <1>9, <1>10 DEF ProvidersInv, ConfigsAreComplete
<1> QED BY <1>5, <1>11, ProvidersOnly

\* The row that a request writes was unused or one of the tenant's own, and has the
\* settings its type requires, or the same ones for the same type as before, unless
\* the request is an update that leaves some blank.
LEMMA WrittenFacts ==
    ASSUME ProvidersInv, NEW i \in DOMAIN requests, NEW r \in Rows, Sent(requests[i]), r \in Target(requests[i])
    PROVE  LET q == requests[i]
               w == Written(q, configs[r]) IN
           /\ w \in Config /\ w.tenant = Own
           /\ configs[r] = Absent \/ (configs[r] \in Config /\ configs[r].tenant = Own)
           /\ \/ RequiredOf[w.provider] \subseteq w.fields
              \/ LeavesBlank(q, configs[r])
              \/ configs[r] \in Config /\ w.fields = configs[r].fields /\ w.provider = configs[r].provider
<1>1. PICK q \in Request : q = requests[i] BY DEF ProvidersInv
<1>2. Own \in Tenants BY TenantConfigConstants
<1>3. CASE q.kind = "create"
  <2>1. configs[r] = Absent BY <1>1, <1>3 DEF Target
  <2>2. Written(q, configs[r]) = [tenant |-> Own, channel |-> q.channel, provider |-> q.provider,
                                  isDefault |-> q.isDefault, active |-> TRUE, fields |-> q.fields]
    BY <1>3 DEF Written
  <2>3. RequiredOf[q.provider] \subseteq q.fields BY <1>1, <1>3 DEF ProvidersInv, NewRowsComplete
  <2> QED BY <1>1, <1>2, <1>3, <2>1, <2>2, <2>3, RequestFacts DEF Config
<1>4. CASE q.kind # "create"
  <2>1. r \in RowsOf(Own) BY <1>1, <1>4 DEF Target
  <2>2. configs[r] \in Config /\ configs[r].tenant = Own BY <2>1 DEF ProvidersInv, RowsOf
  <2>3. CASE q.kind = "status"
    <3>1. Written(q, configs[r]) = [configs[r] EXCEPT !.active = q.active] BY <2>3 DEF Written
    <3> QED BY <1>1, <2>2, <2>3, <3>1, RequestFacts DEF Config
  <2>4. CASE q.kind = "update"
    <3>1. PICK F : F = IF q.fields = {} THEN configs[r].fields ELSE q.fields OBVIOUS
    <3>2. Written(q, configs[r])
            = [configs[r] EXCEPT !.provider = q.provider, !.isDefault = q.isDefault, !.active = q.active, !.fields = F]
      BY <2>2, <2>4, <3>1 DEF Written, Config
    <3>3. F \subseteq Fields BY <1>1, <2>2, <2>4, <3>1, RequestFacts DEF Config
    <3>4. /\ Written(q, configs[r]) \in Config /\ Written(q, configs[r]).tenant = Own
          /\ Written(q, configs[r]).fields = F /\ Written(q, configs[r]).provider = q.provider
      BY <1>1, <2>2, <2>4, <3>2, <3>3, RequestFacts DEF Config
    <3>5. CASE Missing(q.provider, q.fields) = {}
      <4>1. RequiredOf[q.provider] \subseteq q.fields BY <3>5 DEF Missing
      <4>2. RequiredOf[q.provider] \subseteq F BY <3>1, <4>1
      <4> QED BY <1>1, <2>2, <3>4, <4>2
    <3>6. CASE Missing(q.provider, q.fields) # {}
      <4>1. LeavesBlank(q, configs[r]) \/ (q.fields = {} /\ q.provider = configs[r].provider)
        BY <2>4, <3>6 DEF LeavesBlank
      <4> QED BY <1>1, <2>2, <3>1, <3>4, <4>1
    <3> QED BY <3>5, <3>6
  <2> QED BY <1>1, <1>4, <2>3, <2>4 DEF Sent
<1> QED BY <1>3, <1>4

LEMMA ConfigSavedStep == ASSUME IndInv, NEW i \in DOMAIN requests, NEW r \in Rows, ConfigSaved(i, r) PROVE IndInv'
<1>1. TenantsInv /\ ProvidersInv /\ DetailInv /\ Counters BY DEF IndInv
<1>2. PICK q \in Request : q = requests[i] BY <1>1 DEF ProvidersInv
<1>3. PICK w : w = Written(q, configs[r]) OBVIOUS
<1>4. /\ Sent(q) /\ r \in Target(q) /\ Outdates(Own) /\ System /\ ElseUnchanged /\ UNCHANGED <<listed, saving>>
      /\ partial' = (IF LeavesBlank(q, configs[r]) THEN partial \cup {r} ELSE partial)
  BY <1>2 DEF ConfigSaved
<1>5. configs \in [Rows -> {Absent, Gone} \cup Config] BY <1>1 DEF ProvidersInv
<1>6. configs' = [configs EXCEPT ![r] = w] BY <1>2, <1>3, <1>5 DEF ConfigSaved
<1>7. /\ w \in Config /\ w.tenant = Own
      /\ configs[r] = Absent \/ (configs[r] \in Config /\ configs[r].tenant = Own)
      /\ \/ RequiredOf[w.provider] \subseteq w.fields
         \/ LeavesBlank(q, configs[r])
         \/ configs[r] \in Config /\ w.fields = configs[r].fields /\ w.provider = configs[r].provider
  BY <1>1, <1>2, <1>3, <1>4, WrittenFacts
<1>8. /\ configs' \in [Rows -> {Absent, Gone} \cup Config] /\ configs'[r] = w
      /\ \A x \in Rows \ {r} : configs'[x] = configs[x]
  BY <1>5, <1>6, <1>7
<1>9. ConfigsAreComplete'
  <2>1. partial \subseteq partial' /\ partial' \subseteq Rows /\ (LeavesBlank(q, configs[r]) => r \in partial')
    BY <1>1, <1>4 DEF ProvidersInv
  <2>2. ASSUME NEW x \in Rows \ {r}, configs'[x] \notin {Absent, Gone}
        PROVE  RequiredOf[configs'[x].provider] \subseteq configs'[x].fields \/ x \in partial'
    BY <1>1, <1>8, <2>1, <2>2 DEF ProvidersInv, ConfigsAreComplete
  <2>3. RequiredOf[w.provider] \subseteq w.fields \/ r \in partial'
    <3>1. CASE configs[r] \in Config /\ w.fields = configs[r].fields /\ w.provider = configs[r].provider
      <4>1. configs[r] \notin {Absent, Gone} BY <3>1, TenantConfigMarkers
      <4> QED BY <1>1, <2>1, <3>1, <4>1 DEF ProvidersInv, ConfigsAreComplete
    <3> QED BY <1>7, <2>1, <3>1
  <2> QED BY <1>8, <2>2, <2>3 DEF ConfigsAreComplete
<1>10. requests' \in Seq(Request) /\ NewRowsComplete'
  <2>1. PICK p : p = IF q.kind = "status" THEN [q EXCEPT !.kind = "note"] ELSE [kind |-> "list"] OBVIOUS
  <2>2. p \in Request /\ p.kind # "create"
    <3>1. CASE q.kind = "status"
      <4>1. q \in [kind: {"status", "note"}, row: Rows, active: BOOLEAN] BY <3>1 DEF Request
      <4>2. p = [q EXCEPT !.kind = "note"] BY <2>1, <3>1
      <4>3. p \in [kind: {"status", "note"}, row: Rows, active: BOOLEAN] /\ p.kind = "note" BY <4>1, <4>2
      <4> QED BY <4>3 DEF Request
    <3>2. CASE q.kind # "status" BY <2>1, <3>2 DEF Request
    <3> QED BY <3>1, <3>2
  <2>3. requests \in Seq(Request) /\ requests' = [requests EXCEPT ![i] = p]
    BY <1>1, <1>2, <2>1 DEF ProvidersInv, ConfigSaved
  <2>4. requests' \in Seq(Request) /\ DOMAIN requests' = DOMAIN requests /\ requests'[i] = p
        /\ \A j \in DOMAIN requests : j # i => requests'[j] = requests[j]
    BY <2>2, <2>3
  <2>5. NewRowsComplete' BY <1>1, <2>2, <2>4 DEF ProvidersInv, NewRowsComplete
  <2> QED BY <2>4, <2>5
<1>11. partial' \subseteq Rows BY <1>1, <1>4 DEF ProvidersInv
<1>12. ProvidersInv' BY <1>1, <1>4, <1>8, <1>9, <1>10, <1>11 DEF ProvidersInv
<1>13. UNCHANGED <<tenants, had, editing, form, opens, task, saved, detail>> BY <1>4 DEF ElseUnchanged, tpVars
<1>14. Counters' BY <1>1, <1>4, CountersKept DEF Step
<1>15. TenantsInv'
  <2>1. tenants' \in [Tenants -> Tenant] BY <1>1, <1>13 DEF TenantsInv
  <2> QED BY <1>1, <1>13, <2>1, TenantsFrame
<1>16. RowsKnown'
  <2>1. \A x \in Rows : configs[x] \in {Gone} \cup Config => configs'[x] \in {Gone} \cup Config BY <1>7, <1>8
  <2> QED BY <1>1, <1>13, <2>1, DetailFacts DEF DetailInv, RowsKnown
<1>17. OverviewFollowing'
  <2>1. ASSUME detail # None, ~stale' PROVE Expected' = ShownOverview(detail.tenant)'
    <3>1. PICK u \in Tenants : u = detail.tenant BY <1>1, <2>1, DetailFacts
    <3>2. ~stale /\ u # Own BY <1>4, <2>1, <3>1 DEF Outdates
    <3>3. r \notin RowsOf(u) /\ r \notin RowsOf(u)' BY <1>7, <1>8, <3>2 DEF RowsOf
    <3>4. RowsOf(u)' = RowsOf(u) BY <1>8, <3>3 DEF RowsOf
    <3>5. \A x \in RowsOf(u) : configs'[x] = configs[x] BY <1>8, <3>3 DEF RowsOf
    <3>6. ShownOverview(u)' = ShownOverview(u) BY <1>13, <3>4, <3>5, OverviewFrame
    <3>7. Expected = ShownOverview(u) BY <1>1, <2>1, <3>1, <3>2 DEF DetailInv, OverviewFollowing
    <3>8. Expected' = Expected BY <1>13 DEF Expected
    <3> QED BY <1>13, <3>1, <3>6, <3>7, <3>8
  <2> QED BY <1>1, <1>13, <2>1 DEF DetailInv, OverviewFollowing
<1>18. stale' \in BOOLEAN BY <1>1, <1>4 DEF DetailInv, Outdates
<1>19. DetailInv' BY <1>1, <1>13, <1>16, <1>17, <1>18 DEF DetailInv
<1> QED BY <1>12, <1>14, <1>15, <1>19 DEF IndInv

-----------------------------------------------------------------------------
(* The theorems *)

LEMMA InitHolds == Init => IndInv
<1> SUFFICES ASSUME Init PROVE IndInv
  OBVIOUS
<1>1. /\ tenants = [t \in Tenants |-> [slug |-> SlugOf[t], features |-> Features, channels |-> Channels,
                                        templates |-> TemplatesOf[t]]]
      /\ had = [t \in Tenants |-> {SlugOf[t]}]
      /\ saved = [t \in Tenants |-> [sources |-> {}, blank |-> FALSE, touched |-> {}, cut |-> FALSE]]
      /\ editing = None /\ form = None /\ opens = << >> /\ task = None
  BY DEF Init
<1>2. TenantsInv
  <2>1. /\ tenants \in [Tenants -> Tenant]
        /\ \A t \in Tenants : tenants[t].templates = TemplatesOf[t] /\ tenants[t].slug = SlugOf[t]
    BY <1>1, TenantConfigConstants DEF Tenant
  <2>2. TemplatesOK /\ SlugsKnown BY <1>1, <2>1 DEF TemplatesOK, SlugsKnown
  <2>3. DOMAIN opens = {} BY <1>1
  <2>4. FormsFit BY <1>1, <2>3, TenantConfigMarkers DEF FormsFit, Held
  <2>5. OpensKnown /\ FormOpen /\ OwnSlug /\ Noted BY <1>1, <2>3 DEF OpensKnown, FormOpen, OwnSlug, Noted
  <2>6. OwnDataOnly BY <1>1 DEF OwnDataOnly
  <2>7. opens \in Seq(Open) /\ had \in [Tenants -> SUBSET Slugs] BY <1>1, TenantConfigConstants
  <2>8. saved \in [Tenants -> Saved] BY <1>1 DEF Saved
  <2> QED BY <1>1, <2>1, <2>2, <2>4, <2>5, <2>6, <2>7, <2>8 DEF TenantsInv
<1>3. PICK v \in Providers :
        configs = [r \in Rows |-> IF r # (CHOOSE row \in Rows : TRUE) THEN Absent
                     ELSE [tenant |-> Own, channel |-> ChannelOf[v], provider |-> v, isDefault |-> TRUE,
                           active |-> TRUE, fields |-> FieldsOf[v]]]
  BY TenantConfigConstants DEF Init
<1>4. PICK x : x = [tenant |-> Own, channel |-> ChannelOf[v], provider |-> v, isDefault |-> TRUE, active |-> TRUE,
                    fields |-> FieldsOf[v]]
  OBVIOUS
<1>5. x \in Config /\ RequiredOf[x.provider] \subseteq x.fields
  <2>1. ChannelOf[v] \in Channels /\ FieldsOf[v] \subseteq Fields /\ RequiredOf[v] \subseteq FieldsOf[v] /\ Own \in Tenants
    BY TenantConfigConstants
  <2> QED BY <1>4, <2>1 DEF Config
<1>6. \A r \in Rows : configs[r] = Absent \/ configs[r] = x BY <1>3, <1>4
<1>7. configs \in [Rows -> {Absent, Gone} \cup Config]
  <2>1. configs = [r \in Rows |-> configs[r]] BY <1>3
  <2> QED BY <1>5, <1>6, <2>1
<1>8. listed = Listing /\ requests = << >> /\ saving = None /\ partial = {} BY DEF Init
<1>9. Listing \in [Rows -> {Absent} \cup Config]
  <2>1. \A r \in RowsOf(Own) : configs[r] \in Config BY <1>7 DEF RowsOf
  <2> QED BY <2>1 DEF Listing
<1>10. ConfigsAreComplete BY <1>5, <1>6 DEF ConfigsAreComplete
<1>11. requests \in Seq(Request) /\ NewRowsComplete
  <2>1. DOMAIN requests = {} BY <1>8
  <2> QED BY <1>8, <2>1 DEF NewRowsComplete
<1>12. ProvidersInv BY <1>7, <1>8, <1>9, <1>10, <1>11 DEF ProvidersInv
<1>13. DetailInv BY DEF Init, DetailInv, RowsKnown, OverviewFollowing
<1>14. Counters
  <2>1. PICK bound \in OpsBounds : bound \in [Pages -> Nat] BY TenantConfigConstants
  <2>2. \A p \in Pages : 0 <= bound[p] BY <2>1
  <2>3. ops = [p \in Pages |-> 0] /\ faults = 0 /\ MaxFaults \in Nat BY TenantConfigConstants DEF Init
  <2>4. Bounded(ops) BY <2>2, <2>3 DEF Bounded
  <2> QED BY <2>3, <2>4 DEF Counters
<1> QED BY <1>2, <1>12, <1>13, <1>14 DEF IndInv

LEMMA StutterStep == IndInv /\ UNCHANGED vars => IndInv'
<1> SUFFICES ASSUME IndInv, UNCHANGED vars PROVE IndInv'
  OBVIOUS
<1>1. Step /\ ElseUnchanged /\ UNCHANGED <<configs, listed, requests, saving, partial, stale>>
  BY DEF vars, tpVars, psVars, System, Step, ElseUnchanged
<1>2. ProvidersInv' BY <1>1, ProvidersFrame DEF IndInv
<1> QED BY <1>1, <1>2, ProvidersOnly

LEMMA InductiveStep == IndInv /\ [Next]_vars => IndInv'
<1> SUFFICES ASSUME IndInv, [Next]_vars PROVE IndInv'
  OBVIOUS
<1>1. CASE TenantsStep
  BY <1>1, OpenReadStep, OpenAnsweredStep, ProvisionStep, ProvisionFailsStep DEF TenantsStep
<1>2. CASE DetailStep BY <1>2, ToggleStep, ToggleAnsweredStep, ToggleFailsStep DEF DetailStep
<1>3. CASE ProviderStep
  BY <1>3, ConfigFailsStep, ConfigsListedStep, ConfigNotedStep, ConfigSavedStep DEF ProviderStep
<1>4. CASE PersonStep
  <2>1. ASSUME NEW t \in Tenants, OpenDetail(t) \/ \E slug \in Slugs : OpenEdit(t, slug) PROVE IndInv'
    BY <2>1, OpenEditStep, OpenDetailStep
  <2>2. ASSUME NEW s \in Switch, ConfirmToggle(s) PROVE IndInv' BY <2>2, ConfirmToggleStep
  <2> QED BY <1>4, <2>1, <2>2, CloseFormStep, SaveTenantStep, FormSteps, SendSteps DEF PersonStep
<1>5. CASE UNCHANGED vars BY <1>5, StutterStep
<1> QED BY <1>1, <1>2, <1>3, <1>4, <1>5 DEF Next

\* The inductive invariant holds in every reachable state.
THEOREM Inductive == Spec => []IndInv
BY InitHolds, InductiveStep, PTL DEF Spec

\* The tenants, the provider rows, the three pages and their requests stay within
\* their types: no late answer leaves a form, a row or a save malformed.
THEOREM ConfigTypeCorrect == Spec => []TypeOK
<1>1. IndInv => TypeOK BY DEF IndInv, TenantsInv, ProvidersInv, DetailInv, Counters, DetailPage, Open, TypeOK
<1> QED BY <1>1, Inductive, PTL

\* openEdit's answers fill whichever form is open, but a tenant is provisioned with
\* another one's data only after the person changed the slug in that form, or once
\* that other tenant has had another slug: else the first statement refuses it.
THEOREM ProvisionedWithOwnData == Spec => []OwnDataOnly
<1>1. IndInv => OwnDataOnly BY DEF IndInv, TenantsInv
<1> QED BY <1>1, Inductive, PTL

\* applyTenantProvisioning deletes the templates and inserts the form's without a
\* transaction: a tenant loses or gets a template only by hand, by a form saved
\* without its data or with another tenant's, or by a failure between the two.
THEOREM TemplatesSurvive == Spec => []TemplatesKept
<1>1. ASSUME IndInv PROVE TemplatesKept
  <2>1. TenantsInv BY <1>1 DEF IndInv
  <2>2. task # None /\ task.at = 7 => Statements[task.at] = "addTemplates" BY StatementFacts
  <2> QED BY <2>1, <2>2 DEF TenantsInv, TemplatesOK, Excused, TemplatesKept
<1> QED BY <1>1, Inductive, PTL

\* setOverview keeps the Tenant Detail page equal to the tables through any number
\* of switches, while none is under way, unless another page changed the tenant or
\* the answer to a switch that was carried out was lost.
THEOREM OverviewFollowsTables == Spec => []OverviewIsStored
<1>1. ASSUME IndInv PROVE OverviewIsStored
  <2>1. DetailInv BY <1>1 DEF IndInv
  <2> QED BY <2>1 DEF DetailInv, OverviewFollowing, Expected, Switching, OverviewIsStored
<1> QED BY <1>1, Inductive, PTL

\* A provider configuration lacks a setting that its type requires only after an
\* update that left it blank and filled in others or changed the type.
THEOREM ConfigsStayComplete == Spec => []ConfigsAreComplete
<1>1. IndInv => ConfigsAreComplete BY DEF IndInv, ProvidersInv
<1> QED BY <1>1, Inductive, PTL

=============================================================================
