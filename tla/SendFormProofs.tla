-------------------------- MODULE SendFormProofs ---------------------------
(***************************************************************************)
(* SendForm: type correctness, that the effects keep the form consistent   *)
(* with the lists in its state, and that a notification submitted when     *)
(* every load was answered in order fits its tenant, for any tenants,      *)
(* templates, channels and variables.                                      *)
(*                                                                         *)
(* SubmissionFitsTenant rests on ListsOK: as long as nothing is answered   *)
(* out of order, each list belongs to the newest load that has it, and the *)
(* newest load is that of the tenant selected.                             *)
(***************************************************************************)
EXTENDS SendForm, TLAPS

Lists == [Kinds -> MaybeTenant]
LoadRecord == [tenant: Tenants, left: SUBSET Kinds]

\* The newest load is for the tenant selected, and nothing is chosen before.
TenantOK ==
    /\ form.tenantId = None =>
          platform /\ loads = << >> /\ form.contactId = None /\ form.groupId = None
    /\ form.tenantId # None =>
          loads # << >> /\ loads[Len(loads)].tenant = form.tenantId
    /\ platform /\ tenants = "pending" => form.tenantId = None

\* A list belongs to the newest load that has it.
ListsOK ==
    ~disorder => \A k \in Kinds, i \in DOMAIN loads :
        k \notin loads[i].left /\ ~Late(i, k) => lists[k] = loads[i].tenant

\* A contact or group not marked as stray belongs to the tenant selected.
PickOK ==
    ~strayPick => /\ form.contactId \in {None, form.tenantId}
                  /\ form.groupId \in {None, form.tenantId}

\* The form f agrees with the lists l.
FormFits(f, l) ==
    /\ f.selected \subseteq Available(l)
    /\ f.filled \subseteq TemplateVariables(f, l)
    /\ HasTemplate(f, l) => f.event # "empty"

IndInv ==
    /\ TypeOK /\ TenantOK /\ ListsOK /\ PickOK /\ FormFits(form, lists)
    /\ SubmissionFitsTenant /\ SentDataFits

-----------------------------------------------------------------------------
\* g is f except for the fields that effects set.
SameChoice(f, g) ==
    /\ g.tenantId = f.tenantId /\ g.contactId = f.contactId /\ g.groupId = f.groupId
    /\ g.templateKey = f.templateKey

LEMMA SetSelected ==
    ASSUME NEW f \in Form, NEW s \in SUBSET Channels
    PROVE  LET g == [f EXCEPT !.selected = s] IN
           /\ g \in Form /\ SameChoice(f, g)
           /\ g.selected = s /\ g.filled = f.filled /\ g.event = f.event
BY DEF Form, SameChoice

LEMMA SetFilled ==
    ASSUME NEW f \in Form, NEW s \in SUBSET Vars
    PROVE  LET g == [f EXCEPT !.filled = s] IN
           /\ g \in Form /\ SameChoice(f, g)
           /\ g.selected = f.selected /\ g.filled = s /\ g.event = f.event
BY DEF Form, SameChoice

LEMMA SetEvent ==
    ASSUME NEW f \in Form, NEW e \in Texts
    PROVE  LET g == [f EXCEPT !.event = e] IN
           /\ g \in Form /\ SameChoice(f, g)
           /\ g.selected = f.selected /\ g.filled = f.filled /\ g.event = e
BY DEF Form, SameChoice

\* The channels on offer and the variables asked for are channels and variables.
LEMMA OfferFacts ==
    ASSUME NEW f \in Form, NEW l \in Lists
    PROVE  /\ Available(l) \subseteq Channels
           /\ TemplateVariables(f, l) \subseteq Vars
           /\ HasTemplate(f, l) =>
                 /\ f.templateKey \in Keys
                 /\ ChannelOf[l["templates"]][f.templateKey] \in Channels
<1>1. l["channels"] \in MaybeTenant /\ l["templates"] \in MaybeTenant BY DEF Lists, Kinds
<1>2. Available(l) \subseteq Channels BY <1>1, SendFormConstants DEF Available, MaybeTenant
<1>3. HasTemplate(f, l) => l["templates"] \in Tenants /\ f.templateKey \in Keys
  BY <1>1, SendFormConstants DEF HasTemplate, MaybeTenant
<1> QED BY <1>2, <1>3, SendFormConstants DEF TemplateVariables

LEMMA SameTemplate ==
    ASSUME NEW f, NEW g, NEW l, SameChoice(f, g)
    PROVE  (HasTemplate(g, l) <=> HasTemplate(f, l)) /\ TemplateVariables(g, l) = TemplateVariables(f, l)
BY DEF SameChoice, HasTemplate, TemplateVariables

LEMMA FilterFacts ==
    ASSUME NEW f \in Form, NEW l \in Lists
    PROVE  /\ FilterSelected(f, l) \in Form /\ SameChoice(f, FilterSelected(f, l))
           /\ FilterSelected(f, l).selected \subseteq Available(l)
           /\ FilterSelected(f, l).filled = f.filled /\ FilterSelected(f, l).event = f.event
<1>1. f.selected \cap Available(l) \in SUBSET Channels BY OfferFacts
<1>2. FilterSelected(f, l) = [f EXCEPT !.selected = f.selected \cap Available(l)]
  BY DEF FilterSelected
<1> QED BY <1>1, <1>2, SetSelected

LEMMA KeepFacts ==
    ASSUME NEW f \in Form, NEW l \in Lists
    PROVE  /\ KeepValues(f, l) \in Form /\ SameChoice(f, KeepValues(f, l))
           /\ KeepValues(f, l).filled \subseteq TemplateVariables(f, l)
           /\ KeepValues(f, l).selected = f.selected /\ KeepValues(f, l).event = f.event
<1>1. f.filled \cap TemplateVariables(f, l) \in SUBSET Vars BY OfferFacts
<1>2. KeepValues(f, l) = [f EXCEPT !.filled = f.filled \cap TemplateVariables(f, l)]
  BY DEF KeepValues
<1> QED BY <1>1, <1>2, SetFilled

LEMMA AddFacts ==
    ASSUME NEW f \in Form, NEW l \in Lists
    PROVE  /\ AddTemplateChannel(f, l) \in Form /\ SameChoice(f, AddTemplateChannel(f, l))
           /\ f.selected \subseteq Available(l) => AddTemplateChannel(f, l).selected \subseteq Available(l)
           /\ AddTemplateChannel(f, l).filled = f.filled
           /\ HasTemplate(f, l) => AddTemplateChannel(f, l).event # "empty"
<1>1. CASE ~HasTemplate(f, l) BY <1>1 DEF AddTemplateChannel, SameChoice
<1>2. CASE HasTemplate(f, l)
  <2> DEFINE s == f.selected \cup ({ChannelOf[l["templates"]][f.templateKey]} \cap Available(l))
             e == IF f.event = "empty" THEN "text" ELSE f.event
  <2>1. f.selected \in SUBSET Channels /\ f.event \in Texts BY DEF Form
  <2>2. s \in SUBSET Channels /\ (f.selected \subseteq Available(l) => s \subseteq Available(l))
    BY <2>1, OfferFacts
  <2>3. e \in Texts /\ e # "empty" BY <2>1 DEF Texts
  <2>4. AddTemplateChannel(f, l) = [f EXCEPT !.selected = s, !.event = e]
    BY <1>2 DEF AddTemplateChannel
  <2> HIDE DEF s, e
  <2>5. PICK g \in Form : /\ g = [f EXCEPT !.selected = s] /\ SameChoice(f, g)
                          /\ g.selected = s /\ g.filled = f.filled /\ g.event = f.event
    BY <2>2, SetSelected
  <2>6. PICK h \in Form : /\ h = [g EXCEPT !.event = e] /\ SameChoice(g, h)
                          /\ h.selected = g.selected /\ h.filled = g.filled /\ h.event = e
    BY <2>3, SetEvent
  <2>7. AddTemplateChannel(f, l) = h BY <2>4, <2>5, <2>6
  <2>8. SameChoice(f, h) BY <2>5, <2>6 DEF SameChoice
  <2> QED BY <2>2, <2>3, <2>5, <2>6, <2>7, <2>8
<1> QED BY <1>1, <1>2

\* The effects leave a form that agrees with the lists, provided that what they
\* do not look at agreed before.
LEMMA EffectsFacts ==
    ASSUME NEW f \in Form, NEW l \in Lists, NEW changed \in SUBSET {"channels", "template", "event"},
           "channels" \notin changed => f.selected \subseteq Available(l),
           "template" \notin changed => f.filled \subseteq TemplateVariables(f, l),
           changed = {} => (HasTemplate(f, l) => f.event # "empty")
    PROVE  /\ Effects(f, l, changed) \in Form /\ SameChoice(f, Effects(f, l, changed))
           /\ FormFits(Effects(f, l, changed), l)
<1> DEFINE f1 == IF "channels" \in changed THEN FilterSelected(f, l) ELSE f
           f2 == IF "template" \in changed THEN KeepValues(f1, l) ELSE f1
           f3 == IF changed # {} THEN AddTemplateChannel(f2, l) ELSE f2
<1>1. Effects(f, l, changed) = f3 BY DEF Effects
<1>2. /\ f1 \in Form /\ SameChoice(f, f1)
      /\ f1.selected \subseteq Available(l) /\ f1.filled = f.filled /\ f1.event = f.event
  BY FilterFacts DEF SameChoice
<1> HIDE DEF f1
<1>3. TemplateVariables(f1, l) = TemplateVariables(f, l) BY <1>2, SameTemplate
<1>4. /\ f2 \in Form /\ SameChoice(f1, f2)
      /\ f2.selected = f1.selected /\ f2.filled \subseteq TemplateVariables(f, l) /\ f2.event = f.event
  BY <1>2, <1>3, KeepFacts DEF SameChoice
<1> HIDE DEF f2
<1>5. SameChoice(f, f2) BY <1>2, <1>4 DEF SameChoice
<1>6. /\ TemplateVariables(f2, l) = TemplateVariables(f, l) 
      /\ HasTemplate(f2, l) <=> HasTemplate(f, l)
  BY <1>5, SameTemplate
<1>7. /\ f3 \in Form /\ SameChoice(f2, f3)
      /\ f3.selected \subseteq Available(l) /\ f3.filled = f2.filled
      /\ HasTemplate(f, l) => f3.event # "empty"
  BY <1>2, <1>4, <1>6, AddFacts DEF SameChoice
<1> HIDE DEF f3
<1>8. SameChoice(f, f3) BY <1>5, <1>7 DEF SameChoice
<1>9. /\ TemplateVariables(f3, l) = TemplateVariables(f, l) 
      /\ HasTemplate(f3, l) <=> HasTemplate(f, l)
  BY <1>8, SameTemplate
<1> QED BY <1>1, <1>4, <1>7, <1>8, <1>9 DEF FormFits

-----------------------------------------------------------------------------
LEMMA TypeFacts ==
    ASSUME TypeOK
    PROVE  /\ form \in Form /\ lists \in Lists
           /\ loads \in Seq(LoadRecord) /\ DOMAIN loads = 1..Len(loads) /\ Len(loads) \in Nat
           /\ \A i \in DOMAIN loads : loads[i].tenant \in Tenants /\ loads[i].left \subseteq Kinds
<1>1. form \in Form /\ lists \in Lists /\ loads \in Seq(LoadRecord) BY DEF TypeOK, Lists, LoadRecord
<1>2. \A i \in DOMAIN loads : loads[i] \in LoadRecord BY <1>1
<1> QED BY <1>1, <1>2 DEF LoadRecord

\* When every load was answered in order, all lists are those of the tenant.
LEMMA SettledLists ==
    ASSUME IndInv, Settled, form.tenantId # None
    PROVE  \A k \in Kinds : lists[k] = form.tenantId
<1>1. TypeOK /\ ListsOK /\ ~disorder BY DEF IndInv, Settled
<1>2. loads # << >> /\ loads[Len(loads)].tenant = form.tenantId BY DEF IndInv, TenantOK
<1>3. Len(loads) \in DOMAIN loads /\ \A j \in DOMAIN loads : ~(j > Len(loads))
  BY <1>1, <1>2, TypeFacts
<1>4. \A k \in Kinds : k \notin loads[Len(loads)].left /\ ~Late(Len(loads), k)
  BY <1>3 DEF Settled, Late
<1> QED BY <1>1, <1>2, <1>3, <1>4 DEF ListsOK

\* The form, the lists and the history of an edit.
LEMMA EditStep ==
    ASSUME IndInv, NEW f \in Form, NEW changed \in SUBSET {"channels", "template", "event"},
           EditForm(f, changed),
           "channels" \notin changed => f.selected \subseteq Available(lists),
           "template" \notin changed => f.filled \subseteq TemplateVariables(f, lists),
           changed = {} => (HasTemplate(f, lists) => f.event # "empty"),
           f.tenantId = form.tenantId,
           f.tenantId = None => f.contactId = None /\ f.groupId = None,
           strayPick' \in BOOLEAN,
           ~strayPick' => f.contactId \in {None, f.tenantId} /\ f.groupId \in {None, f.tenantId}
    PROVE  IndInv'
<1>1. TypeOK BY DEF IndInv
<1>2. UNCHANGED <<platform, tenants, lists, loads, loading, sending, sent, faults, disorder>>
      /\ form' = Effects(f, lists, changed) /\ edits < MaxEdits /\ edits' = edits + 1
  BY DEF EditForm, Edit
<1>3. form' \in Form /\ SameChoice(f, form') /\ FormFits(form', lists)
  BY <1>1, <1>2, TypeFacts, EffectsFacts
<1>4. edits' \in 0..MaxEdits BY <1>1, <1>2, SendFormConstants DEF TypeOK
<1>5. TypeOK' BY <1>1, <1>2, <1>3, <1>4 DEF TypeOK
<1>6. TenantOK' BY <1>2, <1>3 DEF IndInv, TenantOK, SameChoice
<1>7. PickOK' BY <1>3 DEF PickOK, SameChoice
<1>8. ListsOK' BY <1>2 DEF IndInv, ListsOK, Late
<1>9. FormFits(form, lists)' BY <1>2, <1>3 DEF FormFits, Available, HasTemplate, TemplateVariables
<1>10. SubmissionFitsTenant' /\ SentDataFits' BY <1>2 DEF IndInv, SubmissionFitsTenant, SentDataFits
<1> QED BY <1>5, <1>6, <1>7, <1>8, <1>9, <1>10 DEF IndInv

\* What every edit starts from.
LEMMA Before ==
    ASSUME IndInv
    PROVE  /\ TypeOK /\ form \in Form /\ lists \in Lists
           /\ form.selected \subseteq Available(lists)
           /\ form.filled \subseteq TemplateVariables(form, lists)
           /\ HasTemplate(form, lists) => form.event # "empty"
           /\ form.tenantId = None => form.contactId = None /\ form.groupId = None
           /\ strayPick \in BOOLEAN
           /\ ~strayPick => form.contactId \in {None, form.tenantId} /\ form.groupId \in {None, form.tenantId}
BY TypeFacts DEF IndInv, FormFits, TenantOK, PickOK, TypeOK

\* An edit that leaves the contact and the group alone.
LEMMA PlainEdit ==
    ASSUME IndInv, NEW f \in Form, NEW changed \in SUBSET {"channels", "template", "event"},
           EditForm(f, changed), UNCHANGED strayPick,
           f.selected \subseteq Available(lists),
           "template" \notin changed => f.filled \subseteq TemplateVariables(f, lists),
           changed = {} => (HasTemplate(f, lists) => f.event # "empty"),
           f.tenantId = form.tenantId, f.contactId = form.contactId, f.groupId = form.groupId
    PROVE  IndInv'
BY Before, EditStep

LEMMA ModeStep == ASSUME IndInv, NEW m \in Modes, ChooseMode(m) PROVE IndInv'
<1> DEFINE f == [form EXCEPT !.mode = m]
<1>1. f \in Form /\ SameChoice(form, f)
      /\ f.selected = form.selected /\ f.filled = form.filled /\ f.event = form.event
  BY Before DEF Form, SameChoice
<1>2. EditForm(f, {}) /\ UNCHANGED strayPick BY DEF ChooseMode
<1> HIDE DEF f
<1>3. TemplateVariables(f, lists) = TemplateVariables(form, lists)
      /\ (HasTemplate(f, lists) <=> HasTemplate(form, lists)) BY <1>1, SameTemplate
<1> QED BY <1>1, <1>2, <1>3, Before, PlainEdit DEF SameChoice

LEMMA RecipientStep == ASSUME IndInv, NEW b \in BOOLEAN, EnterRecipient(b) PROVE IndInv'
<1> DEFINE f == [form EXCEPT !.recipient = b]
<1>1. f \in Form /\ SameChoice(form, f)
      /\ f.selected = form.selected /\ f.filled = form.filled /\ f.event = form.event
  BY Before DEF Form, SameChoice
<1>2. EditForm(f, {}) /\ UNCHANGED strayPick BY DEF EnterRecipient
<1> HIDE DEF f
<1>3. TemplateVariables(f, lists) = TemplateVariables(form, lists)
      /\ (HasTemplate(f, lists) <=> HasTemplate(form, lists)) BY <1>1, SameTemplate
<1> QED BY <1>1, <1>2, <1>3, Before, PlainEdit DEF SameChoice

LEMMA OptionsStep == ASSUME IndInv, NEW ch \in Channels, EditOptions(ch) PROVE IndInv'
<1> DEFINE bad == IF ch \in form.badOptions THEN form.badOptions \ {ch} ELSE form.badOptions \cup {ch}
           f == [form EXCEPT !.badOptions = bad]
<1>0. bad \in SUBSET Channels BY Before DEF Form
<1>1. EditForm(f, {}) /\ UNCHANGED strayPick BY DEF EditOptions
<1> HIDE DEF bad
<1>2. f \in Form /\ SameChoice(form, f)
      /\ f.selected = form.selected /\ f.filled = form.filled /\ f.event = form.event
  BY <1>0, Before DEF Form, SameChoice
<1> HIDE DEF f
<1>3. TemplateVariables(f, lists) = TemplateVariables(form, lists)
      /\ (HasTemplate(f, lists) <=> HasTemplate(form, lists)) BY <1>2, SameTemplate
<1> QED BY <1>1, <1>2, <1>3, Before, PlainEdit DEF SameChoice

LEMMA EventStep == ASSUME IndInv, NEW text \in Texts, EditEvent(text) PROVE IndInv'
<1> DEFINE f == [form EXCEPT !.event = text]
<1>1. f \in Form /\ SameChoice(form, f) /\ f.selected = form.selected /\ f.filled = form.filled
  BY Before, SetEvent
<1>2. EditForm(f, {"event"}) /\ UNCHANGED strayPick BY DEF EditEvent
<1> HIDE DEF f
<1>3. TemplateVariables(f, lists) = TemplateVariables(form, lists) BY <1>1, SameTemplate
<1> QED BY <1>1, <1>2, <1>3, Before, PlainEdit DEF SameChoice

LEMMA TemplateStep == ASSUME IndInv, NEW key \in Keys \cup {None}, PickTemplate(key) PROVE IndInv'
<1> DEFINE f == [form EXCEPT !.templateKey = key]
<1>1. f \in Form /\ f.tenantId = form.tenantId /\ f.contactId = form.contactId
      /\ f.groupId = form.groupId /\ f.selected = form.selected
  BY Before DEF Form
<1>2. EditForm(f, {"template"}) /\ UNCHANGED strayPick BY DEF PickTemplate
<1> HIDE DEF f
<1> QED BY <1>1, <1>2, Before, PlainEdit

LEMMA VariableStep == ASSUME IndInv, NEW v \in Vars, EditVariable(v) PROVE IndInv'
<1> DEFINE vs == IF v \in form.filled THEN form.filled \ {v} ELSE form.filled \cup {v}
           f == [form EXCEPT !.filled = vs]
<1>0. vs \in SUBSET Vars /\ vs \subseteq TemplateVariables(form, lists)
  BY Before DEF Form, EditVariable
<1>1. EditForm(f, {}) /\ UNCHANGED strayPick BY DEF EditVariable
<1> HIDE DEF vs
<1>2. f \in Form /\ SameChoice(form, f)
      /\ f.selected = form.selected /\ f.filled = vs /\ f.event = form.event
  BY <1>0, Before, SetFilled
<1> HIDE DEF f
<1>3. TemplateVariables(f, lists) = TemplateVariables(form, lists)
      /\ (HasTemplate(f, lists) <=> HasTemplate(form, lists)) BY <1>2, SameTemplate
<1> QED BY <1>0, <1>1, <1>2, <1>3, Before, PlainEdit DEF SameChoice

\* A channel is ticked or unticked, or all are.
LEMMA SelectStep ==
    ASSUME IndInv, NEW s \in SUBSET Available(lists), EditForm([form EXCEPT !.selected = s], {}),
           UNCHANGED strayPick
    PROVE  IndInv'
<1> DEFINE f == [form EXCEPT !.selected = s]
<1>1. EditForm(f, {}) OBVIOUS
<1>2. s \in SUBSET Channels BY Before, OfferFacts
<1>3. f \in Form /\ SameChoice(form, f)
      /\ f.selected = s /\ f.filled = form.filled /\ f.event = form.event
  BY <1>2, Before, SetSelected
<1> HIDE DEF f
<1>4. TemplateVariables(f, lists) = TemplateVariables(form, lists)
      /\ (HasTemplate(f, lists) <=> HasTemplate(form, lists)) BY <1>3, SameTemplate
<1> QED BY <1>1, <1>3, <1>4, Before, PlainEdit DEF SameChoice

LEMMA ToggleStep == ASSUME IndInv, NEW ch \in Channels, ToggleChannel(ch) PROVE IndInv'
<1> DEFINE s == IF ch \in form.selected THEN form.selected \ {ch} ELSE form.selected \cup {ch}
<1>1. s \in SUBSET Available(lists) BY Before DEF ToggleChannel
<1>2. EditForm([form EXCEPT !.selected = s], {}) /\ UNCHANGED strayPick BY DEF ToggleChannel
<1> HIDE DEF s
<1> QED BY <1>1, <1>2, SelectStep

LEMMA ToggleAllStep == ASSUME IndInv, ToggleAll PROVE IndInv'
<1> DEFINE s == IF Cardinality(form.selected) = Cardinality(Available(lists)) THEN {} ELSE Available(lists)
<1>1. s \in SUBSET Available(lists) OBVIOUS
<1>2. EditForm([form EXCEPT !.selected = s], {}) /\ UNCHANGED strayPick BY DEF ToggleAll
<1> HIDE DEF s
<1> QED BY <1>1, <1>2, SelectStep

\* A contact or group is chosen: it belongs to the tenant when the lists are settled.
LEMMA ContactStep == ASSUME IndInv, PickContact PROVE IndInv'
<1> DEFINE f == [form EXCEPT !.contactId = lists["contacts"]]
<1>0. lists["contacts"] \in MaybeTenant BY Before DEF Lists, Kinds
<1>1. f \in Form /\ f.contactId = lists["contacts"] /\ f.groupId = form.groupId
      /\ f.tenantId = form.tenantId /\ f.templateKey = form.templateKey
      /\ f.selected = form.selected /\ f.filled = form.filled /\ f.event = form.event
  BY <1>0, Before DEF Form
<1>2. EditForm(f, {}) /\ form.tenantId # None
      /\ strayPick' = (~Settled \/ (strayPick /\ form.groupId # None))
  BY DEF PickContact, Shown
<1> HIDE DEF f
<1>3. TemplateVariables(f, lists) = TemplateVariables(form, lists)
      /\ (HasTemplate(f, lists) <=> HasTemplate(form, lists))
  BY <1>1 DEF HasTemplate, TemplateVariables
<1>4. Settled => lists["contacts"] = form.tenantId BY <1>2, SettledLists DEF Kinds
<1>5. strayPick' \in BOOLEAN BY <1>2, Before
<1>6. ~strayPick' => f.contactId \in {None, f.tenantId} /\ f.groupId \in {None, f.tenantId}
  BY <1>1, <1>2, <1>4, Before
<1> QED BY <1>1, <1>2, <1>3, <1>5, <1>6, Before, EditStep

LEMMA GroupStep == ASSUME IndInv, PickGroup PROVE IndInv'
<1> DEFINE f == [form EXCEPT !.groupId = lists["groups"]]
<1>0. lists["groups"] \in MaybeTenant BY Before DEF Lists, Kinds
<1>1. f \in Form /\ f.groupId = lists["groups"] /\ f.contactId = form.contactId
      /\ f.tenantId = form.tenantId /\ f.templateKey = form.templateKey
      /\ f.selected = form.selected /\ f.filled = form.filled /\ f.event = form.event
  BY <1>0, Before DEF Form
<1>2. EditForm(f, {}) /\ form.tenantId # None
      /\ strayPick' = (~Settled \/ (strayPick /\ form.contactId # None))
  BY DEF PickGroup, Shown
<1> HIDE DEF f
<1>3. TemplateVariables(f, lists) = TemplateVariables(form, lists)
      /\ (HasTemplate(f, lists) <=> HasTemplate(form, lists))
  BY <1>1 DEF HasTemplate, TemplateVariables
<1>4. Settled => lists["groups"] = form.tenantId BY <1>2, SettledLists DEF Kinds
<1>5. strayPick' \in BOOLEAN BY <1>2, Before
<1>6. ~strayPick' => f.contactId \in {None, f.tenantId} /\ f.groupId \in {None, f.tenantId}
  BY <1>1, <1>2, <1>4, Before
<1> QED BY <1>1, <1>2, <1>3, <1>5, <1>6, Before, EditStep

-----------------------------------------------------------------------------
\* A new load has no answer yet: every list still belongs to the newest load
\* that has it.
LEMMA StartFacts ==
    ASSUME TypeOK, ListsOK, NEW t \in Tenants, StartLoad(t), UNCHANGED <<lists, disorder>>
    PROVE  /\ loads' \in Seq(LoadRecord) /\ loads' # << >>
           /\ loads'[Len(loads')].tenant = t
           /\ loading' = TRUE
           /\ ListsOK'
<1> DEFINE new == [tenant |-> t, left |-> Kinds]
<1>1. new \in LoadRecord /\ new.tenant = t /\ new.left = Kinds BY DEF LoadRecord
<1>2. loads' = Append(loads, new) /\ loading' = TRUE BY DEF StartLoad
<1> HIDE DEF new
<1>3. loads \in Seq(LoadRecord) BY TypeFacts
<1>4. /\ loads' \in Seq(LoadRecord) /\ loads' # << >> /\ Len(loads') = Len(loads) + 1
      /\ DOMAIN loads = 1..Len(loads) /\ DOMAIN loads' = 1..(Len(loads) + 1) /\ Len(loads) \in Nat
      /\ loads'[Len(loads) + 1] = new /\ \A i \in DOMAIN loads : loads'[i] = loads[i]
  BY <1>1, <1>2, <1>3
<1>5. ListsOK'
  <2> SUFFICES ASSUME ~disorder, NEW k \in Kinds, NEW i \in DOMAIN loads',
                      k \notin loads'[i].left, \A j \in DOMAIN loads' : j > i => k \in loads'[j].left
               PROVE  lists[k] = loads'[i].tenant
    BY DEF ListsOK, Late
  <2>1. i \in DOMAIN loads BY <1>1, <1>4
  <2>2. ~Late(i, k) BY <1>4 DEF Late
  <2> QED BY <1>4, <2>1, <2>2 DEF ListsOK
<1> QED BY <1>1, <1>2, <1>4, <1>5

\* Another tenant is selected and its data loaded; the lists stay for now.
LEMMA TenantStep ==
    ASSUME IndInv, NEW t \in Tenants, form' = [form EXCEPT !.tenantId = t], StartLoad(t),
           UNCHANGED <<platform, lists, sent, disorder, sending, faults>>,
           tenants' = "here", edits' \in 0..MaxEdits, strayPick' \in BOOLEAN,
           ~strayPick' => form.contactId = None /\ form.groupId = None
    PROVE  IndInv'
<1>1. TypeOK /\ ListsOK /\ None # t BY SendFormConstants DEF IndInv
<1>2. /\ loads' \in Seq(LoadRecord) /\ loads' # << >>
      /\ loads'[Len(loads')].tenant = t /\ loading' = TRUE /\ ListsOK'
  BY <1>1, StartFacts
<1>3. form \in Form BY <1>1 DEF TypeOK
<1>4. form' \in Form /\ form'.tenantId = t
  BY <1>3 DEF Form, MaybeTenant
<1>5. form'.contactId = form.contactId /\ form'.groupId = form.groupId
      /\ form'.templateKey = form.templateKey /\ form'.selected = form.selected
      /\ form'.filled = form.filled /\ form'.event = form.event
  BY <1>3 DEF Form
<1>6. TypeOK' BY <1>1, <1>2, <1>4 DEF TypeOK, LoadRecord
<1>7. TenantOK' BY <1>1, <1>2, <1>4 DEF TenantOK
<1>8. PickOK' BY <1>4, <1>5 DEF PickOK
<1>9. FormFits(form, lists)'
  BY <1>5 DEF IndInv, FormFits, Available, HasTemplate, TemplateVariables
<1>10. SubmissionFitsTenant' /\ SentDataFits' BY DEF IndInv, SubmissionFitsTenant, SentDataFits
<1> QED BY <1>2, <1>6, <1>7, <1>8, <1>9, <1>10 DEF IndInv

LEMMA ChooseStep == ASSUME IndInv, NEW t \in Tenants, ChooseTenant(t) PROVE IndInv'
<1>1. TypeOK BY DEF IndInv
<1>2. edits' \in 0..MaxEdits BY <1>1, SendFormConstants DEF ChooseTenant, Edit, TypeOK
<1>3. strayPick' \in BOOLEAN /\ (~strayPick' => form.contactId = None /\ form.groupId = None)
  BY <1>1 DEF ChooseTenant, TypeOK
<1> QED BY <1>2, <1>3, TenantStep DEF ChooseTenant

LEMMA TenantsArriveStep == ASSUME IndInv, TenantsArrive PROVE IndInv'
<1>1. TypeOK /\ form.tenantId = None BY DEF IndInv, TenantOK, TenantsArrive
<1>2. form.contactId = None /\ form.groupId = None BY <1>1 DEF IndInv, TenantOK
<1>3. edits' \in 0..MaxEdits /\ strayPick' \in BOOLEAN BY <1>1 DEF TenantsArrive, TypeOK
<1> QED BY <1>2, <1>3, TenantStep DEF TenantsArrive

LEMMA TenantsFailStep == ASSUME IndInv, TenantsFail PROVE IndInv'
<1>1. UNCHANGED <<platform, form, lists, loads, loading, sending, sent, edits, disorder, strayPick>>
      /\ tenants' = "failed"
  BY DEF TenantsFail
<1>2. faults' \in 0..MaxFaults BY SendFormConstants DEF TenantsFail, IndInv, TypeOK
<1>3. TypeOK' BY <1>1, <1>2 DEF IndInv, TypeOK
<1>4. TenantOK' /\ PickOK' /\ SubmissionFitsTenant' /\ SentDataFits'
  BY <1>1 DEF IndInv, TenantOK, PickOK, SubmissionFitsTenant, SentDataFits
<1>5. ListsOK' BY <1>1 DEF IndInv, ListsOK, Late
<1>6. FormFits(form, lists)'
  BY <1>1 DEF IndInv, FormFits, Available, HasTemplate, TemplateVariables
<1> QED BY <1>3, <1>4, <1>5, <1>6 DEF IndInv

-----------------------------------------------------------------------------
\* An answer takes one request off one load.
LEMMA AnsweredFacts ==
    ASSUME TypeOK, NEW i \in DOMAIN loads, NEW k \in Kinds, Answered(i, k)
    PROVE  /\ loads' \in Seq(LoadRecord) /\ DOMAIN loads' = DOMAIN loads /\ Len(loads') = Len(loads)
           /\ \A j \in DOMAIN loads : loads'[j].tenant = loads[j].tenant
           /\ \A j \in DOMAIN loads : j # i => loads'[j] = loads[j]
           /\ loads'[i].left = loads[i].left \ {k}
           /\ loading' \in BOOLEAN
<1>1. loads \in Seq(LoadRecord) /\ loads[i] \in LoadRecord BY TypeFacts
<1> DEFINE new == [loads[i] EXCEPT !.left = loads[i].left \ {k}]
<1>2. new \in LoadRecord /\ new.tenant = loads[i].tenant /\ new.left = loads[i].left \ {k}
  BY <1>1 DEF LoadRecord
<1>3. loads' = [loads EXCEPT ![i] = new] /\ loading' \in BOOLEAN BY DEF Answered, TypeOK
<1> HIDE DEF new
<1>4. loads' \in Seq(LoadRecord) /\ DOMAIN loads' = DOMAIN loads /\ Len(loads') = Len(loads)
      /\ loads'[i] = new /\ \A j \in DOMAIN loads : j # i => loads'[j] = loads[j]
  BY <1>1, <1>2, <1>3
<1> QED BY <1>2, <1>3, <1>4

\* What an answer leaves to show: the lists l and the form g that fits them.
LEMMA AnswerStep ==
    ASSUME IndInv, NEW i \in DOMAIN loads, NEW k \in Kinds, Answered(i, k),
           lists' \in Lists, form' \in Form, SameChoice(form, form'), FormFits(form', lists'),
           ListsOK', faults' \in 0..MaxFaults, disorder' \in BOOLEAN,
           UNCHANGED <<platform, tenants, sending, sent, edits, strayPick>>
    PROVE  IndInv'
<1>1. TypeOK BY DEF IndInv
<1>2. /\ loads' \in Seq(LoadRecord) /\ DOMAIN loads' = DOMAIN loads /\ Len(loads') = Len(loads)
      /\ \A j \in DOMAIN loads : loads'[j].tenant = loads[j].tenant
      /\ loading' \in BOOLEAN
  BY <1>1, AnsweredFacts
<1>3. TypeOK' BY <1>1, <1>2 DEF TypeOK, LoadRecord, Lists
<1>4. loads # << >> /\ loads' # << >> /\ Len(loads) \in DOMAIN loads BY <1>1, <1>2, TypeFacts
<1>5. TenantOK' BY <1>2, <1>4 DEF IndInv, TenantOK, SameChoice
<1>6. PickOK' BY DEF IndInv, PickOK, SameChoice
<1>7. SubmissionFitsTenant' /\ SentDataFits' BY DEF IndInv, SubmissionFitsTenant, SentDataFits
<1>8. FormFits(form, lists)' BY DEF FormFits, Available, HasTemplate, TemplateVariables
<1> QED BY <1>3, <1>5, <1>6, <1>7, <1>8 DEF IndInv

\* The effects of one list that changed.
LEMMA ListEffects ==
    ASSUME IndInv, NEW k \in Kinds, NEW t \in MaybeTenant, NEW changed,
           changed = CASE k = "channels" -> {"channels"}
                       [] k = "templates" -> {"template"}
                       [] OTHER -> {}
    PROVE  LET l == [lists EXCEPT ![k] = t]
               g == Effects(form, l, changed)
           IN l \in Lists /\ g \in Form /\ SameChoice(form, g) /\ FormFits(g, l)
<1> DEFINE l == [lists EXCEPT ![k] = t]
<1>1. l \in Lists /\ lists \in Lists /\ form \in Form BY Before DEF Lists
<1>2. \A x \in Kinds : x # k => l[x] = lists[x] BY <1>1 DEF Lists
<1> HIDE DEF l
<1>3. changed \in SUBSET {"channels", "template", "event"} BY DEF Kinds
<1>4. "channels" \notin changed => form.selected \subseteq Available(l)
  <2>1. "channels" \notin changed => k # "channels" OBVIOUS
  <2>2. "channels" \notin changed => l["channels"] = lists["channels"] BY <1>2, <2>1 DEF Kinds
  <2> QED BY <2>2, Before DEF Available
<1>5. "template" \notin changed => l["templates"] = lists["templates"]
  <2>1. "template" \notin changed => k # "templates" OBVIOUS
  <2> QED BY <1>2, <2>1 DEF Kinds
<1>6. "template" \notin changed => form.filled \subseteq TemplateVariables(form, l)
  BY <1>5, Before DEF TemplateVariables, HasTemplate
<1>7. changed = {} => (HasTemplate(form, l) => form.event # "empty")
  BY <1>5, Before DEF HasTemplate
<1>8. Effects(form, l, changed) \in Form /\ SameChoice(form, Effects(form, l, changed))
      /\ FormFits(Effects(form, l, changed), l)
  BY <1>1, <1>3, <1>4, <1>6, <1>7, EffectsFacts
<1> QED BY <1>1, <1>8 DEF l

LEMMA ArrivesStep == ASSUME IndInv, NEW i \in DOMAIN loads, NEW k \in Kinds, LoadArrives(i, k) PROVE IndInv'
<1>1. TypeOK /\ ListsOK BY DEF IndInv
<1>2. Answered(i, k) /\ lists' = [lists EXCEPT ![k] = loads[i].tenant] /\ disorder' = (disorder \/ Late(i, k))
      /\ UNCHANGED <<platform, tenants, sending, sent, edits, faults, strayPick>>
  BY DEF LoadArrives
<1>3. loads[i].tenant \in MaybeTenant BY <1>1, TypeFacts DEF MaybeTenant
<1>4. lists' \in Lists /\ form' \in Form /\ SameChoice(form, form') /\ FormFits(form', lists')
  BY <1>3, ListEffects DEF LoadArrives
<1>5. /\ DOMAIN loads' = DOMAIN loads /\ DOMAIN loads = 1..Len(loads)
      /\ \A j \in DOMAIN loads : loads'[j].tenant = loads[j].tenant
      /\ \A j \in DOMAIN loads : j # i => loads'[j] = loads[j]
      /\ loads'[i].left = loads[i].left \ {k}
  BY <1>1, <1>2, AnsweredFacts, TypeFacts
<1>6. lists'[k] = loads[i].tenant /\ \A x \in Kinds : x # k => lists'[x] = lists[x]
  BY <1>1, <1>2 DEF TypeOK
<1>7. ListsOK'
  <2> SUFFICES ASSUME ~disorder', NEW x \in Kinds, NEW j \in DOMAIN loads,
                      x \notin loads'[j].left, \A m \in DOMAIN loads : m > j => x \in loads'[m].left
               PROVE  lists'[x] = loads[j].tenant
    BY <1>5 DEF ListsOK, Late
  <2>1. ~disorder /\ ~Late(i, k) BY <1>1, <1>2 DEF TypeOK
  <2>2. CASE x = k
    <3>1. ~(i > j) BY <2>2, <1>5
    <3>2. ~(j > i) BY <2>1, <2>2, <1>5 DEF Late
    <3>3. i = j BY <3>1, <3>2, <1>1, <1>5, TypeFacts
    <3> QED BY <2>2, <3>3, <1>6
  <2>3. CASE x # k
    <3>1. \A m \in DOMAIN loads : x \in loads'[m].left <=> x \in loads[m].left BY <2>3, <1>5
    <3>2. x \notin loads[j].left /\ ~Late(j, x) BY <3>1 DEF Late
    <3> QED BY <2>1, <2>3, <3>2, <1>1, <1>6 DEF ListsOK
  <2> QED BY <2>2, <2>3
<1>8. disorder' \in BOOLEAN /\ faults' \in 0..MaxFaults BY <1>1, <1>2 DEF TypeOK
<1> QED BY <1>2, <1>4, <1>7, <1>8, AnswerStep

LEMMA FailsStep == ASSUME IndInv, NEW i \in DOMAIN loads, NEW k \in Kinds, LoadFails(i, k) PROVE IndInv'
<1>1. TypeOK BY DEF IndInv
<1>2. Answered(i, k) /\ disorder' = TRUE /\ faults < MaxFaults /\ faults' = faults + 1
      /\ UNCHANGED <<platform, tenants, sending, sent, edits, strayPick>>
  BY DEF LoadFails
<1>3. lists' \in Lists /\ form' \in Form /\ SameChoice(form, form') /\ FormFits(form', lists')
  <2>1. CASE k = "channels"
    <3>1. lists' = [lists EXCEPT ![k] = None] /\ form' = Effects(form, lists', {"channels"})
      BY <2>1 DEF LoadFails
    <3>2. None \in MaybeTenant BY DEF MaybeTenant
    <3> QED BY <2>1, <3>1, <3>2, ListEffects
  <2>2. CASE k # "channels"
    <3>1. lists' = lists /\ form' = form BY <2>2 DEF LoadFails
    <3> QED BY <3>1, Before DEF IndInv, SameChoice
  <2> QED BY <2>1, <2>2
<1>4. ListsOK' BY <1>2 DEF ListsOK
<1>5. faults' \in 0..MaxFaults BY <1>1, <1>2, SendFormConstants DEF TypeOK
<1>6. disorder' \in BOOLEAN BY <1>2
<1> QED BY <1>2, <1>3, <1>4, <1>5, <1>6, AnswerStep

-----------------------------------------------------------------------------
\* A step that leaves the form, the lists and the loads alone.
LEMMA FormKept ==
    ASSUME IndInv, UNCHANGED <<platform, tenants, form, lists, loads, disorder, strayPick>>
    PROVE  TenantOK' /\ ListsOK' /\ PickOK' /\ FormFits(form, lists)'
<1>1. TenantOK' /\ PickOK' BY DEF IndInv, TenantOK, PickOK
<1>2. ListsOK' BY DEF IndInv, ListsOK, Late
<1>3. FormFits(form, lists)' BY DEF IndInv, FormFits, Available, HasTemplate, TemplateVariables
<1> QED BY <1>1, <1>2, <1>3

\* The recipient of a submission.
LEMMA TargetFacts ==
    ASSUME TypeOK
    PROVE  /\ Target.target \in Modes /\ Target.owner \in MaybeTenant /\ Target.recipient \in BOOLEAN
           /\ Target.owner \in {None, form.contactId, form.groupId}
           /\ Target.target = "contact" =>
                 /\ Target.owner = form.contactId
                 /\ Target.recipient <=> form.contactId = lists["contacts"]
<1>1. form.contactId \in MaybeTenant /\ form.groupId \in MaybeTenant BY DEF TypeOK, Form
<1>2. CASE form.mode = "contact" BY <1>1, <1>2 DEF Target, Modes
<1>3. CASE form.mode = "group" BY <1>1, <1>3 DEF Target, Modes
<1>4. CASE form.mode \notin {"contact", "group"} BY <1>4 DEF Target, Modes, MaybeTenant
<1> QED BY <1>2, <1>3, <1>4

LEMMA SubmitStep == ASSUME IndInv, Submit PROVE IndInv'
<1>1. TypeOK BY DEF IndInv
<1>2. UNCHANGED <<platform, tenants, form, lists, loads, loading, edits, faults, disorder, strayPick>>
      /\ sending' = TRUE
  BY DEF Submit
<1>3. sent' = [tenant |-> form.tenantId, template |-> form.templateKey,
               channels |-> form.selected, data |-> form.filled, options |-> form.selected,
               target |-> Target.target, owner |-> Target.owner, recipient |-> Target.recipient,
               settled |-> Settled, stray |-> strayPick]
  BY DEF Submit
<1>4. form.tenantId # None /\ HasTemplate(form, lists)
      /\ (form.mode = "contact" => form.contactId # None)
  BY DEF Submit, Valid, IndInv, TenantOK
<1>5. form.tenantId \in Tenants /\ form.templateKey \in Keys /\ form.selected \in SUBSET Channels
      /\ form.filled \in SUBSET Vars
  <2>1. form \in Form /\ lists \in Lists BY <1>1, TypeFacts
  <2>2. form.tenantId \in MaybeTenant /\ form.selected \in SUBSET Channels /\ form.filled \in SUBSET Vars
    BY <2>1 DEF Form
  <2> QED BY <1>4, <2>1, <2>2, OfferFacts DEF MaybeTenant
<1>6. Settled \in BOOLEAN /\ strayPick \in BOOLEAN BY <1>1 DEF Settled, TypeOK
<1> DEFINE st == Settled
           to == Target
<1>7. /\ to.target \in Modes /\ to.owner \in MaybeTenant /\ to.recipient \in BOOLEAN
      /\ to.owner \in {None, form.contactId, form.groupId}
      /\ to.target = "contact" =>
            to.owner = form.contactId /\ (to.recipient <=> form.contactId = lists["contacts"])
  BY <1>1, TargetFacts
<1>8. sent' = [tenant |-> form.tenantId, template |-> form.templateKey,
               channels |-> form.selected, data |-> form.filled, options |-> form.selected,
               target |-> to.target, owner |-> to.owner, recipient |-> to.recipient,
               settled |-> st, stray |-> strayPick] /\ st \in BOOLEAN
  BY <1>3, <1>6
<1>9. st => \A k \in Kinds : lists[k] = form.tenantId BY <1>4, SettledLists
<1> HIDE DEF st, to
<1>10. sent' \in Body BY <1>5, <1>6, <1>7, <1>8 DEF Body
<1>11. SubmissionFitsTenant'
  <2>1. /\ sent'.settled = st /\ sent'.tenant = form.tenantId /\ sent'.template = form.templateKey
        /\ sent'.channels = form.selected /\ sent'.stray = strayPick /\ sent'.owner = to.owner
        /\ sent'.target = to.target /\ sent'.recipient = to.recipient
    BY <1>8
  <2> SUFFICES ASSUME st
               PROVE  /\ form.templateKey \in TemplatesOf[form.tenantId]
                      /\ form.selected \subseteq EnabledOf[form.tenantId]
                      /\ strayPick \/ to.owner \in {form.tenantId, None}
                      /\ to.target = "contact" => (to.recipient <=> to.owner = form.tenantId)
    BY <2>1 DEF SubmissionFitsTenant
  <2>2. lists["templates"] = form.tenantId /\ lists["channels"] = form.tenantId
        /\ lists["contacts"] = form.tenantId
    BY <1>9 DEF Kinds
  <2>3. form.templateKey \in TemplatesOf[form.tenantId] BY <1>4, <2>2 DEF HasTemplate
  <2>4. form.selected \subseteq EnabledOf[form.tenantId]
    BY <1>4, <2>2 DEF IndInv, FormFits, Available
  <2>5. strayPick \/ to.owner \in {form.tenantId, None} BY <1>7 DEF IndInv, PickOK
  <2>6. to.target = "contact" => (to.recipient <=> to.owner = form.tenantId) BY <1>7, <2>2
  <2> QED BY <2>3, <2>4, <2>5, <2>6
<1>12. SentDataFits'
  <2>1. sent'.settled = st /\ sent'.tenant = form.tenantId /\ sent'.template = form.templateKey
        /\ sent'.data = form.filled
    BY <1>8
  <2>2. st => lists["templates"] = form.tenantId BY <1>9 DEF Kinds
  <2>3. form.filled = TemplateVariables(form, lists) BY DEF Submit, Valid, IndInv, FormFits
  <2>4. st => form.filled = VarsOf[form.tenantId][form.templateKey]
    BY <1>4, <2>2, <2>3 DEF TemplateVariables
  <2> QED BY <2>1, <2>4 DEF SentDataFits
<1>12a. TypeOK' BY <1>1, <1>2, <1>10 DEF TypeOK
<1>13. TenantOK' /\ ListsOK' /\ PickOK' /\ FormFits(form, lists)' BY <1>2, FormKept
<1> QED BY <1>11, <1>12, <1>12a, <1>13 DEF IndInv

LEMMA RestStep == ASSUME IndInv, SendAnswered \/ UNCHANGED vars PROVE IndInv'
<1>1. UNCHANGED <<platform, tenants, form, lists, loads, loading, sent, edits, faults, disorder, strayPick>>
      /\ (sending' = sending \/ sending' = FALSE)
  BY DEF SendAnswered, vars
<1>2. TypeOK' BY <1>1 DEF IndInv, TypeOK
<1>3. TenantOK' /\ ListsOK' /\ PickOK' /\ FormFits(form, lists)' BY <1>1, FormKept
<1>4. SubmissionFitsTenant' /\ SentDataFits' BY <1>1 DEF IndInv, SubmissionFitsTenant, SentDataFits
<1> QED BY <1>2, <1>3, <1>4 DEF IndInv

LEMMA InitHolds == ASSUME Init PROVE IndInv
<1>1. /\ platform \in BOOLEAN /\ tenants = "pending" /\ lists = [k \in Kinds |-> None]
      /\ loading = ~platform /\ sending = FALSE /\ sent = None /\ edits = 0 /\ faults = 0
      /\ disorder = FALSE /\ strayPick = FALSE
  BY DEF Init
<1>2. PICK t \in Tenants :
        /\ form = [tenantId |-> IF platform THEN None ELSE t, mode |-> "direct",
                   contactId |-> None, groupId |-> None, recipient |-> FALSE, event |-> "empty",
                   selected |-> {}, templateKey |-> None, filled |-> {}, badOptions |-> {}]
        /\ loads = IF platform THEN << >> ELSE << [tenant |-> t, left |-> Kinds] >>
  BY DEF Init
<1>3. form.tenantId = (IF platform THEN None ELSE t) /\ form.contactId = None /\ form.groupId = None
      /\ form.selected = {} /\ form.filled = {} /\ form.templateKey = None
  BY <1>2
<1>4. form \in Form BY <1>2 DEF Form, Modes, Texts, MaybeTenant
<1>5. lists \in Lists /\ lists["templates"] = None BY <1>1 DEF Lists, Kinds, MaybeTenant
<1>6. loads \in Seq(LoadRecord)
  <2>1. [tenant |-> t, left |-> Kinds] \in LoadRecord BY DEF LoadRecord
  <2> QED BY <1>2, <2>1
<1>7. TypeOK
  <2>1. loads \in Seq([tenant: Tenants, left: SUBSET Kinds]) /\ lists \in [Kinds -> MaybeTenant]
    BY <1>5, <1>6 DEF LoadRecord, Lists
  <2>2. edits \in 0..MaxEdits /\ faults \in 0..MaxFaults BY <1>1, SendFormConstants
  <2>3. loading \in BOOLEAN BY <1>1
  <2>4. sent \in Body \cup {None} BY <1>1
  <2> QED BY <1>1, <1>4, <2>1, <2>2, <2>3, <2>4 DEF TypeOK
<1>8. TenantOK
  <2>1. CASE platform BY <1>2, <1>3, <2>1 DEF TenantOK
  <2>2. CASE ~platform
    <3>1. loads # << >> /\ loads[Len(loads)].tenant = t BY <1>2, <2>2
    <3> QED BY <1>3, <2>2, <3>1, SendFormConstants DEF TenantOK
  <2> QED BY <2>1, <2>2
<1>9. ListsOK
  <2>1. \A i \in DOMAIN loads : loads[i].left = Kinds BY <1>2
  <2> QED BY <2>1 DEF ListsOK
<1>10. PickOK BY <1>3 DEF PickOK
<1>11. FormFits(form, lists) BY <1>3, <1>5 DEF FormFits, HasTemplate
<1>12. SubmissionFitsTenant /\ SentDataFits BY <1>1 DEF SubmissionFitsTenant, SentDataFits
<1> QED BY <1>7, <1>8, <1>9, <1>10, <1>11, <1>12 DEF IndInv

LEMMA InductiveStep == ASSUME IndInv, [Next]_vars PROVE IndInv'
<1>1. CASE LoadAnswer
  BY <1>1, TenantsArriveStep, TenantsFailStep, ArrivesStep, FailsStep DEF LoadAnswer
<1>2. CASE SendAnswered \/ UNCHANGED vars BY <1>2, RestStep
<1>3. CASE Person
  BY <1>3, ChooseStep, ModeStep, ContactStep, GroupStep, RecipientStep, EventStep, TemplateStep,
     ToggleStep, OptionsStep, ToggleAllStep, VariableStep, SubmitStep DEF Person
<1> QED BY <1>1, <1>2, <1>3 DEF Next

-----------------------------------------------------------------------------
\* The inductive invariant holds in every reachable state.
THEOREM Invariance == Spec => []IndInv
<1>1. Init => IndInv BY InitHolds
<1>2. IndInv /\ [Next]_vars => IndInv' BY InductiveStep
<1> QED BY <1>1, <1>2, PTL DEF Spec

\* The form holds existing tenants, keys, channels and variables, and every body
\* submitted names a tenant and a template.
THEOREM FormTypeCorrect == Spec => []TypeOK
<1>1. IndInv => TypeOK BY DEF IndInv
<1> QED BY <1>1, Invariance, PTL

\* The effect on availableChannels and the effect that adds the template's
\* channel never leave a channel selected that is not on offer.
THEOREM OnlyOfferedSelected == Spec => []SelectedAreOffered
<1>1. IndInv => SelectedAreOffered BY DEF IndInv, FormFits, SelectedAreOffered
<1> QED BY <1>1, Invariance, PTL

\* The form drops every value whose variable the template shown does not have,
\* also when a late list exchanges the template under the same key, and a settled
\* submission carries exactly its template's variables.  Values of variables that
\* have the same name in both templates are kept.
THEOREM OnlyOwnValues == Spec => []ValuesFitTemplate
<1>1. IndInv => ValuesFitTemplate BY DEF IndInv, FormFits, ValuesFitTemplate
<1> QED BY <1>1, Invariance, PTL

\* The event field is not empty while a template is selected.
THEOREM EventFilled == Spec => []TemplateHasEvent
<1>1. IndInv => TemplateHasEvent BY DEF IndInv, FormFits, TemplateHasEvent
<1> QED BY <1>1, Invariance, PTL

\* What handleSubmit posts once every load was answered in order fits the tenant
\* it is posted for, for any number of tenants, loads and edits.
THEOREM SubmissionsFit == Spec => []SubmissionFitsTenant
<1>1. IndInv => SubmissionFitsTenant BY DEF IndInv
<1> QED BY <1>1, Invariance, PTL

=============================================================================
