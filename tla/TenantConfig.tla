---------------------------- MODULE TenantConfig ----------------------------
(***************************************************************************)
(* What a tenant may use and how it delivers, changed from three pages of  *)
(* the admin UI at once: the provisioning form of the Tenants page and the *)
(* switches of the Tenant Detail page (platform administrator), and the    *)
(* Provider Settings page (administrator of the tenant Own).               *)
(*                                                                         *)
(* The provisioning request runs one statement after the other without a   *)
(* transaction; a loop of inserts is one statement.  Names, limits and the *)
(* texts of the settings are left out; a template is its key, channel and  *)
(* text, so an edited one is another.                                      *)
(***************************************************************************)
EXTENDS Naturals, Sequences, SequencesExt

CONSTANTS
    Tenants, Own,     \* the tenant of the Provider Settings page
    Slugs, SlugOf,    \* tenant -> its slug at first
    Features, Channels,
    Templates, TemplatesOf,  \* tenant -> its templates at first
    Providers, ChannelOf,    \* provider types, and the channel each serves
    FirstProviders,   \* provider types Own may have at first
    Fields, FieldsOf, RequiredOf,  \* provider type -> its settings; those a new configuration must have
    Rows,             \* ids for rows of tenant_provider_configs
    None, Absent, Gone,  \* no value; a row not yet used; a deleted row
    OpsBounds,        \* each a bound: page -> steps of its person in one behaviour
    MaxFaults         \* failed statements or requests in one behaviour

Pages == {"tenants", "detail", "providers"}

ASSUME TenantConfigConstants ==
    /\ Own \in Tenants
    /\ SlugOf \in [Tenants -> Slugs]
    /\ \A t, u \in Tenants : SlugOf[t] = SlugOf[u] => t = u
    /\ TemplatesOf \in [Tenants -> SUBSET Templates]
    /\ ChannelOf \in [Providers -> Channels] /\ FirstProviders \subseteq Providers
    /\ FieldsOf \in [Providers -> SUBSET Fields] /\ RequiredOf \in [Providers -> SUBSET Fields]
    /\ \A v \in Providers : RequiredOf[v] \subseteq FieldsOf[v]
    /\ Rows # {}
    /\ None \notin Tenants
    /\ OpsBounds # {} /\ OpsBounds \subseteq [Pages -> Nat] /\ MaxFaults \in Nat

VARIABLES
    tenants,    \* tenant -> slug, enabled features and channels, templates
    configs,    \* tenant_provider_configs: row -> configuration, or Absent
    had,        \* tenant -> the slugs it has had: the Tenants page may list any of them
    editing,    \* Tenants page: the tenant being edited
    form,       \* Tenants page: the provisioning form
    opens,      \* openEdit requests under way, in the order they were sent
    task,       \* Tenants page: the save under way, at its next statement
    detail,     \* Tenant Detail page: the tenant, its overview and the switch being confirmed
    listed,     \* Provider Settings page: the rows it lists
    requests,   \* Provider Settings page: its requests under way
    saving,     \* Provider Settings page: the row, or "new", whose request started last
    ops, faults,
    saved,      \* history: tenant -> what the forms saved for it held
    stale,      \* history: since the overview was loaded another page changed the tenant,
                \* or the answer to a switch was lost
    partial     \* history: rows with a required field left blank in an edit that filled in
                \* others or changed the provider type

tpVars == <<had, editing, form, opens, task, saved>>
psVars == <<listed, requests, saving>>
vars == <<tenants, configs, tpVars, detail, psVars, ops, faults, stale, partial>>

Tenant == [slug: Slugs, features: SUBSET Features, channels: SUBSET Channels, templates: SUBSET Templates]
Config == [tenant: Tenants, channel: Channels, provider: Providers, isDefault: BOOLEAN, active: BOOLEAN,
           fields: SUBSET Fields]

\* History in a form: source is the tenant whose data fills it, typed says that the
\* person changed the slug, and touched are the templates added or removed by hand.
Form == [slug: Slugs, features: SUBSET Features, channels: SUBSET Channels, providers: SUBSET Channels,
         templates: SUBSET Templates, filled: BOOLEAN, source: Tenants, typed: BOOLEAN, touched: SUBSET Templates]
Saved == [sources: SUBSET (Tenants \X BOOLEAN), blank: BOOLEAN, touched: SUBSET Templates, cut: BOOLEAN]

Statements == <<"name", "features", "channels", "dropProviders", "addProviders", "dropTemplates", "addTemplates",
                "answer">>

\* A save of the form, at one of its statements.
Task == [tenant: Tenants, form: Form, at: DOMAIN Statements]

ASSUME TenantConfigMarkers == None \notin Form \cup Task /\ {Absent, Gone} \cap Config = {}

Overview == [features: SUBSET Features, channels: SUBSET Channels, rows: SUBSET Rows, active: SUBSET Rows]
Switch == [kind: {"feature"}, id: Features, on: BOOLEAN] \cup [kind: {"channel"}, id: Channels, on: BOOLEAN]
            \cup [kind: {"provider"}, id: Rows, on: BOOLEAN]
Request == [kind: {"status", "note"}, row: Rows, active: BOOLEAN]
             \cup [kind: {"update"}, row: Rows, provider: Providers, isDefault: BOOLEAN, active: BOOLEAN,
                  fields: SUBSET Fields]
             \cup [kind: {"create"}, channel: Channels, provider: Providers, isDefault: BOOLEAN, fields: SUBSET Fields]
             \cup [kind: {"list"}]

\* The persons' steps stay within one of the bounds.
Bounded(n) == \E bound \in OpsBounds : \A p \in Pages : n[p] <= bound[p]

TypeOK ==
    /\ tenants \in [Tenants -> Tenant]
    /\ configs \in [Rows -> {Absent, Gone} \cup Config]
    /\ had \in [Tenants -> SUBSET Slugs]
    /\ editing \in Tenants \cup {None}
    /\ form \in {None} \cup Form
    /\ opens \in Seq([tenant: Tenants, slug: Slugs, reply: {None} \cup Form])
    /\ task \in {None} \cup Task
    /\ detail \in {None} \cup [tenant: Tenants, overview: Overview, confirming: {None} \cup Switch, done: BOOLEAN]
    /\ listed \in [Rows -> {Absent} \cup Config]
    /\ requests \in Seq(Request)
    /\ saving \in Rows \cup {None, "new"}
    /\ ops \in [Pages -> Nat] /\ Bounded(ops) /\ faults \in 0..MaxFaults
    /\ saved \in [Tenants -> Saved]
    /\ stale \in BOOLEAN /\ partial \subseteq Rows

RowsOf(t) == {r \in Rows : configs[r] \notin {Absent, Gone} /\ configs[r].tenant = t}

\* GET /providers of the tenant's administrator.
Listing == [r \in Rows |-> IF r \in RowsOf(Own) THEN configs[r] ELSE Absent]

\* Everything is enabled, and Own has one provider, complete and the default.
Init ==
    /\ tenants = [t \in Tenants |-> [slug |-> SlugOf[t], features |-> Features, channels |-> Channels,
                                      templates |-> TemplatesOf[t]]]
    /\ \E v \in FirstProviders :
          configs = [r \in Rows |-> IF r # (CHOOSE row \in Rows : TRUE) THEN Absent
                       ELSE [tenant |-> Own, channel |-> ChannelOf[v], provider |-> v, isDefault |-> TRUE,
                             active |-> TRUE, fields |-> FieldsOf[v]]]
    /\ had = [t \in Tenants |-> {SlugOf[t]}]
    /\ editing = None /\ form = None /\ opens = << >> /\ task = None
    /\ detail = None
    /\ listed = Listing /\ requests = << >> /\ saving = None
    /\ ops = [p \in Pages |-> 0] /\ faults = 0
    /\ saved = [t \in Tenants |-> [sources |-> {}, blank |-> FALSE, touched |-> {}, cut |-> FALSE]]
    /\ stale = FALSE /\ partial = {}

MayAct(p) == Bounded([ops EXCEPT ![p] = @ + 1])
Person(p) ==
    /\ MayAct(p)
    /\ ops' = [ops EXCEPT ![p] = @ + 1] /\ UNCHANGED faults
Fault == faults < MaxFaults /\ faults' = faults + 1 /\ UNCHANGED ops
System == UNCHANGED <<ops, faults>>

\* A page other than the Tenant Detail page changed tenant t.
Outdates(t) == stale' = (stale \/ (detail # None /\ detail.tenant = t))

-----------------------------------------------------------------------------
(* The Tenants page *)

BlankForm(t, slug) ==
    [slug |-> slug, features |-> {}, channels |-> {}, providers |-> {}, templates |-> {}, filled |-> FALSE,
     source |-> t, typed |-> FALSE, touched |-> {}]

\* The form opens at once, blank but for the slug that the list shows; three
\* requests fetch what else it should hold.
OpenEdit(t, slug) ==
    /\ editing = None /\ slug \in had[t]
    /\ editing' = t
    /\ form' = BlankForm(t, slug)
    /\ opens' = Append(opens, [tenant |-> t, slug |-> slug, reply |-> None])
    /\ Person("tenants")
    /\ UNCHANGED <<tenants, configs, had, task, detail, psVars, saved, stale, partial>>

\* Mutant: the templates are not fetched.
FilledFormNoTemplates(t, slug) ==
    [BlankForm(t, slug) EXCEPT !.features = tenants[t].features, !.channels = tenants[t].channels,
                               !.filled = task = None]

\* Providers in the form: the channels with an active default.  (filled: the
\* data is not that of a tenant whose save is half done.)
FilledForm(t, slug) ==
    [BlankForm(t, slug) EXCEPT
        !.features = tenants[t].features, !.channels = tenants[t].channels,
        !.providers = {configs[r].channel : r \in {q \in RowsOf(t) : configs[q].isDefault /\ configs[q].active}},
        !.templates = tenants[t].templates, !.filled = ~(task # None /\ task.tenant = t)]

OpenRead(i) ==
    /\ opens[i].reply = None
    /\ opens' = [opens EXCEPT ![i].reply = FilledForm(opens[i].tenant, opens[i].slug)]
    /\ System
    /\ UNCHANGED <<tenants, configs, had, editing, form, task, detail, psVars, saved, stale, partial>>

\* Whichever tenant is being edited, the form takes the answer, slug included,
\* and loses what was typed.
OpenArrives(i) ==
    /\ opens[i].reply # None
    /\ form' = opens[i].reply
    /\ opens' = RemoveAt(opens, i)
    /\ System
    /\ UNCHANGED <<tenants, configs, had, editing, task, detail, psVars, saved, stale, partial>>

\* The form stays blank, and may be saved.
OpenFails(i) ==
    /\ opens' = RemoveAt(opens, i)
    /\ Fault
    /\ UNCHANGED <<tenants, configs, had, editing, form, task, detail, psVars, saved, stale, partial>>

CloseForm ==
    /\ editing # None
    /\ editing' = None
    /\ Person("tenants")
    /\ UNCHANGED <<tenants, configs, had, form, opens, task, detail, psVars, saved, stale, partial>>

Toggled(S, x) == IF x \in S THEN S \ {x} ELSE S \cup {x}

EditForm(f) ==
    /\ editing # None
    /\ form' = f
    /\ Person("tenants")
    /\ UNCHANGED <<tenants, configs, had, editing, opens, task, detail, psVars, saved, stale, partial>>

FormSlug(slug) == editing # None /\ slug # form.slug /\ EditForm([form EXCEPT !.slug = slug, !.typed = TRUE])
FormFeature(x) == EditForm([form EXCEPT !.features = Toggled(@, x)])
FormChannel(c) == EditForm([form EXCEPT !.channels = Toggled(@, c)])
FormProvider(c) == editing # None /\ c \in form.channels \ form.providers /\ EditForm([form EXCEPT !.providers = @ \cup {c}])

\* Add a template, remove one, or change its text (one goes and another comes).
\* An unfinished template is skipped by the API and not counted; one with the key
\* and channel of another replaces it when stored, so it is added and that removed.
FormTemplate(m) == EditForm([form EXCEPT !.templates = Toggled(@, m), !.touched = @ \cup {m}])

SaveTenant ==
    /\ editing # None /\ task = None
    /\ task' = [tenant |-> editing, form |-> form, at |-> 1]
    /\ Person("tenants")
    /\ UNCHANGED <<tenants, configs, had, editing, form, opens, detail, psVars, saved, stale, partial>>

\* payload(): the default providers of the enabled channels.
Chosen(f) == f.channels \cap f.providers

\* Mutant: the slug of another tenant is accepted.
RefusedProvidersOnly(k) == Statements[k.at] = "addProviders" /\ Chosen(k.form) # {}

\* A slug is unique.  The encrypted provider settings are no JSON, so the insert
\* into the jsonb column fails.
Refused(k) ==
    \/ Statements[k.at] = "name" /\ \E t \in Tenants \ {k.tenant} : tenants[t].slug = k.form.slug
    \/ Statements[k.at] = "addProviders" /\ Chosen(k.form) # {}

\* The tenant and the provider rows after the task's next statement.
TenantAfter(k) ==
    [tenants EXCEPT ![k.tenant] =
        CASE Statements[k.at] = "name" -> [@ EXCEPT !.slug = k.form.slug]
          [] Statements[k.at] = "features" -> [@ EXCEPT !.features = k.form.features]
          [] Statements[k.at] = "channels" -> [@ EXCEPT !.channels = k.form.channels]
          [] Statements[k.at] = "dropTemplates" -> [@ EXCEPT !.templates = {}]
          [] Statements[k.at] = "addTemplates" -> [@ EXCEPT !.templates = k.form.templates]
          [] OTHER -> @]

ConfigsAfter(k) ==
    [r \in Rows |-> IF Statements[k.at] = "dropProviders" /\ r \in RowsOf(k.tenant) THEN Gone ELSE configs[r]]

\* The history of saves: h, and a form f saved.
Noting(h, f) ==
    [h EXCEPT !.sources = @ \cup {<<f.source, f.typed>>}, !.blank = @ \/ ~f.filled, !.touched = @ \cup f.touched]

SavedAfter(k) ==
    IF Statements[k.at] # "features" THEN saved
    ELSE [saved EXCEPT ![k.tenant] = Noting(saved[k.tenant], k.form)]

\* Mutant: the request goes on past its last statement.
FinishesLate(k) == k.at > Len(Statements)

Finishes(k) == k.at = Len(Statements)

\* UpdateTenant and applyTenantProvisioning, statement by statement, and the answer,
\* which closes the form, be it another tenant's by then.
Provision ==
    /\ task # None /\ ~Refused(task)
    /\ tenants' = TenantAfter(task)
    /\ configs' = ConfigsAfter(task)
    /\ had' = [had EXCEPT ![task.tenant] = @ \cup {tenants'[task.tenant].slug}]
    /\ saved' = SavedAfter(task)
    /\ IF Finishes(task) THEN task' = None /\ editing' = None
       ELSE task' = [task EXCEPT !.at = @ + 1] /\ UNCHANGED editing
    /\ Outdates(task.tenant)
    /\ System
    /\ UNCHANGED <<form, opens, detail, psVars, partial>>

\* Mutant: after an error the form keeps waiting.
ProvisionFailsFirst ==
    /\ task # None /\ task.at = 1 /\ Refused(task) /\ System
    /\ task' = None
    /\ UNCHANGED <<tenants, configs, had, editing, form, opens, detail, psVars, saved, stale, partial>>

\* A statement fails: the ones before it stay done, and the form stays open.
ProvisionFails ==
    /\ task # None
    /\ IF Refused(task) THEN System ELSE Fault
    /\ task' = None
    /\ saved' = IF Statements[task.at] = "addTemplates" THEN [saved EXCEPT ![task.tenant].cut = TRUE] ELSE saved
    /\ UNCHANGED <<tenants, configs, had, editing, form, opens, detail, psVars, stale, partial>>

-----------------------------------------------------------------------------
(* The Tenant Detail page *)

ShownOverview(t) == [features |-> tenants[t].features, channels |-> tenants[t].channels,
                     rows |-> RowsOf(t), active |-> {r \in RowsOf(t) : configs[r].active}]

\* The dialog covers the page from the click until the answer.
Switching == IF detail = None THEN FALSE ELSE detail.confirming # None

OpenDetail(t) ==
    /\ ~Switching
    /\ detail' = [tenant |-> t, overview |-> ShownOverview(t), confirming |-> None, done |-> FALSE]
    /\ stale' = FALSE
    /\ Person("detail")
    /\ UNCHANGED <<tenants, configs, tpVars, psVars, partial>>

IsOn(o, s) == CASE s.kind = "feature" -> s.id \in o.features
                [] s.kind = "channel" -> s.id \in o.channels
                [] OTHER -> s.id \in o.active

\* The dialog offers the opposite of what the overview shows.
ConfirmToggle(s) ==
    /\ detail # None /\ ~Switching
    /\ s.kind = "provider" => s.id \in detail.overview.rows
    /\ s.on # IsOn(detail.overview, s)
    /\ detail' = [detail EXCEPT !.confirming = s]
    /\ Person("detail")
    /\ UNCHANGED <<tenants, configs, tpVars, psVars, stale, partial>>

\* idx_provider_one_default: one active default for a tenant and a channel.
Conflicts(t, c, row) ==
    \E r \in RowsOf(t) \ {row} : configs[r].channel = c /\ configs[r].isDefault /\ configs[r].active

Put(S, x, on) == IF on THEN S \cup {x} ELSE S \ {x}

\* Mutant: the overview is not brought up to date.
OverviewUnchanged(o, s) == IF IsOn(o, s) THEN o ELSE o

\* setOverview after a successful request.
OverviewAfter(o, s) ==
    CASE s.kind = "feature" -> [o EXCEPT !.features = Put(@, s.id, s.on)]
      [] s.kind = "channel" -> [o EXCEPT !.channels = Put(@, s.id, s.on)]
      [] OTHER -> [o EXCEPT !.active = Put(@, s.id, s.on)]

CanSwitch(t, s) ==
    s.kind = "provider" =>
        /\ configs[s.id] # Gone
        /\ s.on /\ configs[s.id].isDefault => ~Conflicts(t, configs[s.id].channel, s.id)

SwitchedTenants(t, s) ==
    CASE s.kind = "feature" -> [tenants EXCEPT ![t].features = Put(@, s.id, s.on)]
      [] s.kind = "channel" -> [tenants EXCEPT ![t].channels = Put(@, s.id, s.on)]
      [] OTHER -> tenants
SwitchedConfigs(s) == IF s.kind = "provider" THEN [configs EXCEPT ![s.id].active = s.on] ELSE configs

\* The API carries out the switch.
Toggle ==
    /\ Switching /\ ~detail.done
    /\ CanSwitch(detail.tenant, detail.confirming)
    /\ tenants' = SwitchedTenants(detail.tenant, detail.confirming)
    /\ configs' = SwitchedConfigs(detail.confirming)
    /\ detail' = [detail EXCEPT !.done = TRUE]
    /\ System
    /\ UNCHANGED <<tpVars, psVars, stale, partial>>

ToggleAnswered ==
    /\ Switching /\ detail.done
    /\ detail' = [detail EXCEPT !.confirming = None, !.done = FALSE, !.overview = OverviewAfter(@, detail.confirming)]
    /\ System
    /\ UNCHANGED <<tenants, configs, tpVars, psVars, stale, partial>>

\* Refused, or failed with or without effect: the overview stays as it was.
ToggleFails ==
    /\ Switching
    /\ IF ~detail.done /\ ~CanSwitch(detail.tenant, detail.confirming) THEN System ELSE Fault
    /\ detail' = [detail EXCEPT !.confirming = None, !.done = FALSE]
    /\ stale' = (stale \/ detail.done)
    /\ UNCHANGED <<tenants, configs, tpVars, psVars, partial>>

-----------------------------------------------------------------------------
(* The Provider Settings page *)

ElseUnchanged == UNCHANGED <<tenants, tpVars, detail>>

SendRequest(q, row) ==
    /\ requests' = Append(requests, q)
    /\ saving' = row
    /\ Person("providers")
    /\ ElseUnchanged /\ UNCHANGED <<configs, listed, stale, partial>>

\* saving remembers one row only, and any answer clears it.
SetStatus(r) ==
    /\ listed[r] # Absent /\ saving # r
    /\ SendRequest([kind |-> "status", row |-> r, active |-> ~listed[r].active], r)

\* Mutant: required fields are not asked for.
MissingNone(v, fields) == IF fields \subseteq Fields THEN {} ELSE RequiredOf[v]

\* missingRequiredProviderFields: asked for only when a row is created.
Missing(v, fields) == RequiredOf[v] \ fields

CreateConfig(v, isDefault, fields) ==
    /\ saving = None /\ fields \subseteq FieldsOf[v] /\ Missing(v, fields) = {}
    /\ SendRequest([kind |-> "create", channel |-> ChannelOf[v], provider |-> v, isDefault |-> isDefault,
                    fields |-> fields], "new")

\* The channel stays; the provider type may be changed, which empties the fields.
UpdateConfig(r, v, isDefault, active, fields) ==
    /\ saving = None /\ listed[r] # Absent
    /\ ChannelOf[v] = listed[r].channel /\ fields \subseteq FieldsOf[v]
    /\ SendRequest([kind |-> "update", row |-> r, provider |-> v, isDefault |-> isDefault, active |-> active,
                    fields |-> fields], r)

\* The row as the request leaves it.  Filled fields replace all stored ones, and
\* without any those of the old type stay; a new row is active whatever the form says.
Written(q, old) ==
    CASE q.kind = "status" -> [old EXCEPT !.active = q.active]
      [] q.kind = "update" -> [old EXCEPT !.provider = q.provider, !.isDefault = q.isDefault, !.active = q.active,
                                          !.fields = IF q.fields = {} THEN @ ELSE q.fields]
      [] OTHER -> [tenant |-> Own, channel |-> q.channel, provider |-> q.provider, isDefault |-> q.isDefault,
                   active |-> TRUE, fields |-> q.fields]

\* The rows a request may write: its own while it exists, a new one an unused
\* id; the unique index may refuse the result.
Target(q) ==
    {r \in Rows : /\ IF q.kind = "create" THEN configs[r] = Absent ELSE r = q.row /\ r \in RowsOf(Own)
                  /\ LET w == Written(q, configs[r]) IN
                        w.isDefault /\ w.active => ~Conflicts(Own, w.channel, r)}

\* An edit that leaves a required field of its provider type blank, and not all of
\* the fields of an unchanged type.
LeavesBlank(q, old) ==
    /\ q.kind = "update" /\ Missing(q.provider, q.fields) # {}
    /\ q.fields # {} \/ q.provider # old.provider

Sent(q) == q.kind \in {"status", "update", "create"}

\* The API carries out the request; after a save the list is fetched.
ConfigSaved(i, r) ==
    LET q == requests[i] IN
    /\ Sent(q) /\ r \in Target(q)
    /\ configs' = [configs EXCEPT ![r] = Written(q, @)]
    /\ partial' = IF LeavesBlank(q, configs[r]) THEN partial \cup {r} ELSE partial
    /\ requests' = [requests EXCEPT ![i] = IF q.kind = "status" THEN [q EXCEPT !.kind = "note"] ELSE [kind |-> "list"]]
    /\ Outdates(Own)
    /\ System
    /\ ElseUnchanged /\ UNCHANGED <<listed, saving>>

\* A changed status is noted in the list.
ConfigNoted(i) ==
    LET q == requests[i] IN
    /\ q.kind = "note"
    /\ listed' = [listed EXCEPT ![q.row] = IF @ = Absent THEN @ ELSE [@ EXCEPT !.active = q.active]]
    /\ requests' = RemoveAt(requests, i) /\ saving' = None
    /\ System
    /\ ElseUnchanged /\ UNCHANGED <<configs, stale, partial>>

ConfigsListed(i) ==
    /\ requests[i].kind = "list"
    /\ listed' = Listing
    /\ requests' = RemoveAt(requests, i) /\ saving' = None
    /\ System
    /\ ElseUnchanged /\ UNCHANGED <<configs, stale, partial>>

\* Refused, or lost: an error toast, also when only the list could not be fetched.
ConfigFails(i) ==
    /\ IF Sent(requests[i]) /\ Target(requests[i]) = {} THEN System ELSE Fault
    /\ requests' = RemoveAt(requests, i) /\ saving' = None
    /\ ElseUnchanged /\ UNCHANGED <<configs, listed, stale, partial>>

-----------------------------------------------------------------------------
TenantsStep ==
    \/ \E i \in DOMAIN opens : OpenRead(i) \/ OpenArrives(i) \/ OpenFails(i)
    \/ Provision \/ ProvisionFails

DetailStep == Toggle \/ ToggleAnswered \/ ToggleFails

ProviderStep == \E i \in DOMAIN requests : ConfigFails(i) \/ ConfigsListed(i) \/ ConfigNoted(i) \/ \E r \in Rows : ConfigSaved(i, r)

PersonStep ==
    \/ \E t \in Tenants : OpenDetail(t) \/ \E slug \in Slugs : OpenEdit(t, slug)
    \/ CloseForm \/ SaveTenant
    \/ \E slug \in Slugs : FormSlug(slug)
    \/ \E x \in Features : FormFeature(x)
    \/ \E c \in Channels : FormChannel(c) \/ FormProvider(c)
    \/ \E m \in Templates : FormTemplate(m)
    \/ \E s \in Switch : ConfirmToggle(s)
    \/ \E r \in Rows : SetStatus(r)
    \/ /\ saving = None /\ MayAct("providers")  \* what both actions ask for, tried first
       /\ \E v \in Providers, d \in BOOLEAN, fields \in SUBSET Fields :
             CreateConfig(v, d, fields) \/ \E r \in Rows, on \in BOOLEAN : UpdateConfig(r, v, d, on, fields)

Next == TenantsStep \/ DetailStep \/ ProviderStep \/ PersonStep

Spec == Init /\ [][Next]_vars

\* Every statement and request succeeds or fails; the persons are free.
FairSpec == Spec /\ WF_vars(TenantsStep) /\ WF_vars(DetailStep) /\ WF_vars(ProviderStep)

-----------------------------------------------------------------------------
(* Properties *)

Renamed(t) == had[t] # {SlugOf[t]}

\* A late answer may fill a tenant's form with the features, channels and templates
\* of another one, but as its slug comes with it the save is refused: a tenant is
\* provisioned with another's data only if the person changed the slug in that
\* form, or the other tenant has been given another slug meanwhile.
OwnDataOnly ==
    \A t \in Tenants : \A x \in saved[t].sources : x[1] = t \/ x[2] \/ Renamed(x[1])

Foreign(t) == \E x \in saved[t].sources : x[1] # t

\* A save deletes a tenant's templates and inserts those of the form.  The tenant
\* keeps each of its templates, and gets no other, except in five cases: the
\* template was added or removed by hand in a form saved for the tenant; a form
\* was saved before its data arrived, or with data read in the middle of an
\* earlier save; a form was saved with another tenant's data (see OwnDataOnly); a
\* save failed in the insertion that follows the deletion, or stands there now.
TemplatesKept ==
    \A t \in Tenants, m \in Templates :
        \/ m \in tenants[t].templates <=> m \in TemplatesOf[t]
        \/ m \in saved[t].touched \/ saved[t].blank \/ Foreign(t) \/ saved[t].cut
        \/ task # None /\ task.tenant = t /\ Statements[task.at] = "addTemplates"

\* While no switch is under way, the detail page shows what is stored, switch after
\* switch, unless another page has changed the tenant since the overview was
\* loaded, or a switch was carried out and its answer lost.
OverviewIsStored ==
    detail # None /\ ~Switching /\ ~stale => detail.overview = ShownOverview(detail.tenant)

\* Every provider configuration has the required settings of its provider type,
\* unless one was left blank in an edit that filled in others, or that changed the
\* type of the row: only a creation asks for them.
ConfigsAreComplete ==
    \A r \in Rows : configs[r] \notin {Absent, Gone} => RequiredOf[configs[r].provider] \subseteq configs[r].fields \/ r \in partial

\* A save of the provisioning form ends, whatever fails.
SavesEnd == task # None ~> task = None

\* docs/tenant-integration-guide.md: "leave secret fields blank to keep existing
\* encrypted values unless rotating them".  As long as a row keeps its provider
\* type, no request of the page removes a setting.
BlankKeepsSecret ==
    [][\A r \in Rows : {configs[r], configs'[r]} \subseteq Config /\ configs[r].provider = configs'[r].provider =>
          configs[r].fields \subseteq configs'[r].fields]_vars

=============================================================================
