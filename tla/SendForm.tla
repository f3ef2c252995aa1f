------------------------------ MODULE SendForm ------------------------------
(***************************************************************************)
(* The Send Notification page (SendNotificationPage.tsx): a form whose     *)
(* choices come from four lists that are loaded anew whenever the tenant   *)
(* changes.  Nothing cancels an older load, so answers of several tenants  *)
(* may arrive in any order and an older load may end the loading state.    *)
(*                                                                         *)
(* A list is named by the tenant it belongs to, texts are blank or not,    *)
(* and the six direct recipient modes are one.  A handler and the React    *)
(* effects its state changes trigger are one step.                         *)
(***************************************************************************)
EXTENDS Naturals, Sequences, FiniteSets

CONSTANTS
    Tenants,
    Channels,
    Keys,         \* template keys; tenants may use the same key
    Vars,         \* template variables
    None,
    TemplatesOf,  \* tenant -> keys of its templates
    ChannelOf,    \* tenant -> key -> channel of that template
    VarsOf,       \* tenant -> key -> variables in its subject and body
    EnabledOf,    \* tenant -> channels enabled for it
    MaxLoads,     \* loads of tenant data in one behaviour
    MaxEdits,     \* edits of the form in one behaviour
    MaxFaults     \* failed requests in one behaviour

ASSUME SendFormConstants ==
    /\ None \notin Tenants \cup Keys
    /\ TemplatesOf \in [Tenants -> SUBSET Keys]
    /\ ChannelOf \in [Tenants -> [Keys -> Channels]]
    /\ VarsOf \in [Tenants -> [Keys -> SUBSET Vars]]
    /\ EnabledOf \in [Tenants -> SUBSET Channels]
    /\ MaxLoads \in Nat /\ MaxEdits \in Nat /\ MaxFaults \in Nat

VARIABLES
    platform,  \* whether the user is a platform administrator
    tenants,   \* the tenant list: pending, here or failed
    form,      \* the fields of the form
    lists,     \* the tenant whose contacts, groups, templates and channels are in the state
    loads,     \* loads started: tenant and the requests not yet answered
    loading,   \* loadingTenant
    sending,   \* a submitted body awaits its answer
    sent,      \* the last body submitted
    edits, faults,
    disorder,  \* history: a load failed, or an answer came after one of a later load
    strayPick  \* history: the contact or group was chosen from lists that were
               \* not settled, or for a tenant that is no longer selected

vars == <<platform, tenants, form, lists, loads, loading, sending, sent, edits, faults, disorder, strayPick>>

MaybeTenant == Tenants \cup {None}
Kinds == {"contacts", "groups", "templates", "channels"}

\* An event may consist of spaces: not empty, yet refused when submitted.
Texts == {"empty", "spaces", "text"}

\* The recipient modes: a contact, a group, or a value typed in.
Modes == {"contact", "group", "direct"}

Form == [tenantId: MaybeTenant, mode: Modes, contactId: MaybeTenant, groupId: MaybeTenant,
         recipient: BOOLEAN, event: Texts, selected: SUBSET Channels,
         templateKey: Keys \cup {None}, filled: SUBSET Vars, badOptions: SUBSET Channels]

Body == [tenant: Tenants, template: Keys, channels: SUBSET Channels, data: SUBSET Vars,
         options: SUBSET Channels, target: Modes, owner: MaybeTenant, recipient: BOOLEAN,
         settled: BOOLEAN, stray: BOOLEAN]

TypeOK ==
    /\ platform \in BOOLEAN
    /\ tenants \in {"pending", "here", "failed"}
    /\ form \in Form
    /\ lists \in [Kinds -> MaybeTenant]
    /\ loads \in Seq([tenant: Tenants, left: SUBSET Kinds])
    /\ loading \in BOOLEAN
    /\ sending \in BOOLEAN
    /\ sent \in Body \cup {None}
    /\ edits \in 0..MaxEdits
    /\ faults \in 0..MaxFaults
    /\ disorder \in BOOLEAN
    /\ strayPick \in BOOLEAN

-----------------------------------------------------------------------------
(* What the render computes from the state *)

Available(l) == IF l["channels"] = None THEN {} ELSE EnabledOf[l["channels"]]

\* templates.find(...): the key is looked up in whatever list is loaded.
HasTemplate(f, l) == l["templates"] # None /\ f.templateKey \in TemplatesOf[l["templates"]]

TemplateVariables(f, l) ==
    IF HasTemplate(f, l) THEN VarsOf[l["templates"]][f.templateKey] ELSE {}

-----------------------------------------------------------------------------
(* Effects, in the order of the component *)

\* Mutant: the selection is not filtered.
KeepSelected(f, l) == IF l \in [Kinds -> MaybeTenant] THEN f ELSE f

\* The effect on availableChannels.
FilterSelected(f, l) == [f EXCEPT !.selected = @ \cap Available(l)]

\* Mutant: values of other templates stay.
KeepAllValues(f, l) == IF l \in [Kinds -> MaybeTenant] THEN f ELSE f

\* The effect on templateVariables: a value is kept under its variable's name, also
\* when the variable is now another template's or another tenant's.
KeepValues(f, l) == [f EXCEPT !.filled = @ \cap TemplateVariables(f, l)]

\* Mutant: the event is filled in only when the template changes.
AddChannelOnly(f, l) ==
    IF HasTemplate(f, l) /\ ChannelOf[l["templates"]][f.templateKey] \in Available(l)
    THEN [f EXCEPT !.selected = @ \cup {ChannelOf[l["templates"]][f.templateKey]}] ELSE f

\* The effect on selectedTemplate, availableChannels and event: it adds the
\* template's channel again and fills an empty event.
AddTemplateChannel(f, l) ==
    IF ~HasTemplate(f, l) THEN f
    ELSE [f EXCEPT !.selected = @ \cup ({ChannelOf[l["templates"]][f.templateKey]} \cap Available(l)),
                   !.event = IF @ = "empty" THEN "text" ELSE @]

\* The effects whose dependencies are among the changed ones.
Effects(f, l, changed) ==
    LET f1 == IF "channels" \in changed THEN FilterSelected(f, l) ELSE f
        f2 == IF "template" \in changed THEN KeepValues(f1, l) ELSE f1
    IN IF changed # {} THEN AddTemplateChannel(f2, l) ELSE f2

-----------------------------------------------------------------------------
(* Loading *)

\* The effect on effectiveTenant: four requests, nothing is cancelled or reset.
StartLoad(t) ==
    /\ Len(loads) < MaxLoads
    /\ loads' = Append(loads, [tenant |-> t, left |-> Kinds])
    /\ loading' = TRUE

\* After the first render and its effects: the default e-mail channel is gone
\* because no channel is available yet.  A tenant user's data is being loaded.
Init ==
    /\ platform \in BOOLEAN
    /\ tenants = "pending"
    /\ \E t \in Tenants :
          /\ form = [tenantId |-> IF platform THEN None ELSE t, mode |-> "direct",
                     contactId |-> None, groupId |-> None, recipient |-> FALSE, event |-> "empty",
                     selected |-> {}, templateKey |-> None, filled |-> {}, badOptions |-> {}]
          /\ loads = IF platform THEN << >> ELSE << [tenant |-> t, left |-> Kinds] >>
    /\ lists = [k \in Kinds |-> None]
    /\ loading = ~platform
    /\ sending = FALSE
    /\ sent = None
    /\ edits = 0 /\ faults = 0
    /\ disorder = FALSE /\ strayPick = FALSE

\* The tenant list arrives; the first tenant is selected if none is.
TenantsArrive ==
    /\ platform /\ tenants = "pending"
    /\ tenants' = "here"
    /\ \E first \in Tenants :
          /\ form' = [form EXCEPT !.tenantId = first]
          /\ StartLoad(first)
    /\ UNCHANGED <<platform, lists, sending, sent, edits, faults, disorder, strayPick>>

\* No tenant can be chosen then.
TenantsFail ==
    /\ faults < MaxFaults /\ faults' = faults + 1
    /\ platform /\ tenants = "pending"
    /\ tenants' = "failed"
    /\ UNCHANGED <<platform, form, lists, loads, loading, sending, sent, edits, disorder, strayPick>>

\* Nothing is under way and every answer came in order.
Settled == ~disorder /\ \A i \in DOMAIN loads : loads[i].left = {}

\* Mutant: a load that ends with its channel list does not end the loading state.
AnsweredNotChannels(i, k) ==
    /\ loads' = [loads EXCEPT ![i].left = @ \ {k}]
    /\ loading' = IF loads[i].left = {k} /\ k # "channels" THEN FALSE ELSE loading

\* Load i gets the answer of request k.  The last answer of a load, an older
\* one too, ends the loading state.
Answered(i, k) ==
    /\ loads' = [loads EXCEPT ![i].left = @ \ {k}]
    /\ loading' = IF loads[i].left = {k} THEN FALSE ELSE loading

Late(i, k) == \E j \in DOMAIN loads : j > i /\ k \notin loads[j].left

LoadArrives(i, k) ==
    LET l == [lists EXCEPT ![k] = loads[i].tenant] IN
    /\ k \in loads[i].left
    /\ Answered(i, k)
    /\ lists' = l
    /\ form' = Effects(form, l, CASE k = "channels" -> {"channels"}
                                  [] k = "templates" -> {"template"}
                                  [] OTHER -> {})
    /\ disorder' = (disorder \/ Late(i, k))
    /\ UNCHANGED <<platform, tenants, sending, sent, edits, faults, strayPick>>

\* A failed request leaves the list as it is, except that channels become empty.
LoadFails(i, k) ==
    LET l == IF k = "channels" THEN [lists EXCEPT ![k] = None] ELSE lists IN
    /\ faults < MaxFaults /\ faults' = faults + 1
    /\ k \in loads[i].left
    /\ Answered(i, k)
    /\ lists' = l
    /\ form' = IF k = "channels" THEN Effects(form, l, {"channels"}) ELSE form
    /\ disorder' = TRUE
    /\ UNCHANGED <<platform, tenants, sending, sent, edits, strayPick>>

-----------------------------------------------------------------------------
(* Editing *)

Edit == edits < MaxEdits /\ edits' = edits + 1

\* The fields below the tenant are rendered only when nothing is loading.
Shown == form.tenantId # None /\ ~loading

\* Mutant: the data of the new tenant is not loaded.
ChooseTenantNoLoad(t) ==
    /\ platform /\ tenants = "here" /\ t # form.tenantId
    /\ Edit
    /\ form' = [form EXCEPT !.tenantId = t]
    /\ UNCHANGED <<platform, tenants, lists, loads, loading, sending, sent, faults, disorder, strayPick>>

ChooseTenant(t) ==
    /\ platform /\ tenants = "here" /\ t # form.tenantId
    /\ Edit
    /\ form' = [form EXCEPT !.tenantId = t]
    /\ StartLoad(t)
    /\ strayPick' = (strayPick \/ form.contactId # None \/ form.groupId # None)
    /\ UNCHANGED <<platform, tenants, lists, sending, sent, faults, disorder>>

\* An edit of the form alone, followed by the effects on what changed.
EditForm(f, changed) ==
    /\ Edit
    /\ form' = Effects(f, lists, changed)
    /\ UNCHANGED <<platform, tenants, lists, loads, loading, sending, sent, faults, disorder>>

ChooseMode(m) ==
    /\ Shown /\ m # form.mode
    /\ EditForm([form EXCEPT !.mode = m], {})
    /\ UNCHANGED strayPick

PickContact ==
    /\ Shown /\ form.mode = "contact" /\ lists["contacts"] # None
    /\ EditForm([form EXCEPT !.contactId = lists["contacts"]], {})
    /\ strayPick' = (~Settled \/ (strayPick /\ form.groupId # None))

PickGroup ==
    /\ Shown /\ form.mode = "group" /\ lists["groups"] # None
    /\ EditForm([form EXCEPT !.groupId = lists["groups"]], {})
    /\ strayPick' = (~Settled \/ (strayPick /\ form.contactId # None))

EnterRecipient(filled) ==
    /\ Shown /\ form.mode = "direct" /\ filled # form.recipient
    /\ EditForm([form EXCEPT !.recipient = filled], {})
    /\ UNCHANGED strayPick

PickTemplate(key) ==
    /\ Shown
    /\ lists["templates"] # None /\ key \in TemplatesOf[lists["templates"]] \cup {None}
    /\ key # form.templateKey
    /\ EditForm([form EXCEPT !.templateKey = key], {"template"})
    /\ UNCHANGED strayPick

ToggleChannel(ch) ==
    /\ Shown /\ ch \in Available(lists)
    /\ EditForm([form EXCEPT !.selected = IF ch \in @ THEN @ \ {ch} ELSE @ \cup {ch}], {})
    /\ UNCHANGED strayPick

\* "Select all" and "Clear all" are one button.
ToggleAll ==
    /\ Shown /\ Available(lists) # {}
    /\ EditForm([form EXCEPT !.selected = IF Cardinality(@) = Cardinality(Available(lists))
                                              THEN {} ELSE Available(lists)], {})
    /\ UNCHANGED strayPick

EditEvent(text) ==
    /\ text # form.event
    /\ EditForm([form EXCEPT !.event = text], {"event"})
    /\ UNCHANGED strayPick

EditVariable(v) ==
    /\ v \in TemplateVariables(form, lists)
    /\ EditForm([form EXCEPT !.filled = IF v \in @ THEN @ \ {v} ELSE @ \cup {v}], {})
    /\ UNCHANGED strayPick

\* ChannelConfiguration: a sender address or sender name becomes invalid or valid.
EditOptions(ch) ==
    /\ Shown /\ ch \in form.selected
    /\ EditForm([form EXCEPT !.badOptions = IF ch \in @ THEN @ \ {ch} ELSE @ \cup {ch}], {})
    /\ UNCHANGED strayPick

-----------------------------------------------------------------------------
(* Submitting *)

Valid ==
    /\ platform => form.tenantId # None
    /\ form.event = "text"
    /\ form.selected # {}
    /\ form.mode = "contact" => form.contactId # None
    /\ form.mode = "group" => form.groupId # None
    /\ form.mode = "direct" => form.recipient
    /\ HasTemplate(form, lists)
    /\ TemplateVariables(form, lists) \subseteq form.filled
    /\ form.selected \cap form.badOptions = {}

\* A contact that is not in the loaded list has no address.
Target ==
    CASE form.mode = "contact" ->
            [target |-> "contact", owner |-> form.contactId,
             recipient |-> form.contactId = lists["contacts"]]
      [] form.mode = "group" -> [target |-> "group", owner |-> form.groupId, recipient |-> FALSE]
      [] OTHER -> [target |-> "direct", owner |-> None, recipient |-> TRUE]

Submit ==
    /\ ~sending
    /\ Valid
    /\ sending' = TRUE
    /\ sent' = [tenant |-> form.tenantId, template |-> form.templateKey,
                channels |-> form.selected, data |-> form.filled, options |-> form.selected,
                target |-> Target.target, owner |-> Target.owner, recipient |-> Target.recipient,
                settled |-> Settled, stray |-> strayPick]
    /\ UNCHANGED <<platform, tenants, form, lists, loads, loading, edits, faults, disorder, strayPick>>

\* Accepted or refused, the form keeps its contents.
SendAnswered ==
    /\ sending
    /\ sending' = FALSE
    /\ UNCHANGED <<platform, tenants, form, lists, loads, loading, sent, edits, faults, disorder, strayPick>>

-----------------------------------------------------------------------------
LoadAnswer ==
    \/ TenantsArrive \/ TenantsFail
    \/ \E i \in DOMAIN loads, k \in Kinds : LoadArrives(i, k) \/ LoadFails(i, k)

Person ==
    \/ \E t \in Tenants : ChooseTenant(t)
    \/ \E m \in Modes : ChooseMode(m)
    \/ PickContact
    \/ PickGroup
    \/ \E b \in BOOLEAN : EnterRecipient(b)
    \/ \E text \in Texts : EditEvent(text)
    \/ \E key \in Keys \cup {None} : PickTemplate(key)
    \/ \E ch \in Channels : ToggleChannel(ch) \/ EditOptions(ch)
    \/ ToggleAll
    \/ \E v \in Vars : EditVariable(v)
    \/ Submit

Next == LoadAnswer \/ SendAnswered \/ Person

Spec == Init /\ [][Next]_vars

\* Every request is answered or fails; the person is free.
FairSpec == Spec /\ WF_vars(LoadAnswer) /\ WF_vars(SendAnswered)

-----------------------------------------------------------------------------
(* Properties *)

\* Only channels that are on offer are selected, whatever arrives in whatever
\* order: a hidden selection cannot be submitted.
SelectedAreOffered == form.selected \subseteq Available(lists)

\* What was submitted with settled lists has a value for every variable of its
\* template, and no other.
SentDataFits == sent # None /\ sent.settled => sent.data = VarsOf[sent.tenant][sent.template]

\* Whatever template a late list or a change of tenant puts under the selected
\* key, the form holds no value for a variable that this template does not have,
\* and a submission carries values for exactly the variables of its template.
\* This is about names only: a value typed for one template, or for one tenant,
\* is kept and sent with another that has a variable of the same name.
ValuesFitTemplate == form.filled \subseteq TemplateVariables(form, lists) /\ SentDataFits

\* A template always comes with an event: clearing the event, or a list that
\* arrives late, cannot leave it blank.
TemplateHasEvent == HasTemplate(form, lists) => form.event # "empty"

\* A notification submitted when every load has been answered in order fits the
\* tenant it is sent for: its template exists there, its channels are enabled
\* there, and its contact or group belongs there unless it was chosen for
\* another tenant (the choice is not reset when the tenant changes).
SubmissionFitsTenant ==
    sent # None /\ sent.settled =>
        /\ sent.template \in TemplatesOf[sent.tenant]
        /\ sent.channels \subseteq EnabledOf[sent.tenant]
        /\ sent.stray \/ sent.owner \in {sent.tenant, None}
        /\ sent.target = "contact" => (sent.recipient <=> sent.owner = sent.tenant)

\* The page does not stay in the loading state, which hides the form, also when
\* requests fail and loads of several tenants overlap.
LoadingEnds == loading ~> ~loading

=============================================================================
