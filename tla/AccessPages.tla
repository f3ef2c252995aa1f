---------------------------- MODULE AccessPages ----------------------------
(***************************************************************************)
(* The Roles page and the Users page of the admin UI, open side by side    *)
(* for a platform administrator, over the role, permission and user tables *)
(* of the core API.  Creating or saving a role takes two requests, and so  *)
(* does creating a user with a role: each may fail, and the other page     *)
(* works on.                                                               *)
(*                                                                         *)
(* A role is its key and a user its e-mail address, both unique in the     *)
(* database.  Names, filters and page numbers are left out.  A list answer *)
(* holds what is stored when it arrives; a role's details are read first   *)
(* and arrive later.  A request that changes something is two steps: the   *)
(* API carries it out, and the page goes on when its answer arrives.  A    *)
(* refusal changes nothing, so it and its receipt are one step.            *)
(***************************************************************************)
EXTENDS Naturals, Sequences

CONSTANTS
    Roles, Perms, Emails, Tenants,
    GroupOf,    \* role -> "platform", "any" (default tenant role) or its tenant
    Existing,   \* roles stored at first
    None,       \* nothing chosen or shown
    Absent,     \* no such row
    MaxOps,     \* steps of the person in one behaviour
    MaxFaults   \* failed requests in one behaviour

ASSUME AccessConstants ==
    /\ GroupOf \in [Roles -> Tenants \cup {"platform", "any"}]
    /\ Existing \subseteq Roles
    /\ None \notin Roles \cup Tenants \cup Emails \cup {"platform", "any"}
    /\ Tenants \cap {"platform", "any"} = {}
    /\ \A perms \in SUBSET Perms : perms # Absent /\ perms # None
    /\ MaxOps \in Nat /\ MaxFaults \in Nat

VARIABLES
    stored,    \* roles and role_permissions: role -> its permissions, or Absent
    accounts,  \* users and user_roles: e-mail -> account, or Absent
    rp,        \* state of the Roles page
    details,   \* role detail requests of startEdit, in the order they were sent
    up,        \* state of the Users page
    ops, faults,
    shown,     \* history: the role whose permissions the edit form last received
    crossed,   \* history: a detail request failed, or two were under way at once
    removed    \* history: a role was deleted

vars == <<stored, accounts, rp, details, up, ops, faults, shown, crossed, removed>>

MaybeRole == Roles \cup {None}
Statuses == {"active", "disabled"}
Scopes == {"tenant", "platform"}

Account == [platform: BOOLEAN, tenant: Tenants \cup {None}, status: Statuses,
            roles: SUBSET (Roles \X (Tenants \cup {None}))]

\* A save under way: which of its two requests is outstanding, and whether the API
\* has carried it out.  gone is history: the role was deleted during its save.
RoleTask == [kind: {"create", "edit"}, role: Roles, perms: SUBSET Perms, step: 1..2, done: BOOLEAN,
             gone: BOOLEAN]
UserTask == [kind: {"create", "edit"}, email: Emails, tenant: Tenants \cup {None}, role: MaybeRole, step: 1..2,
             done: BOOLEAN]

ASSUME Markers == None \notin RoleTask \cup UserTask /\ Absent \notin Account

RolesPage == [items: SUBSET Roles, loads: Nat, loading: BOOLEAN, editing: MaybeRole,
              editPerms: SUBSET Perms, task: {None} \cup RoleTask, deleting: MaybeRole, deleted: BOOLEAN]
UsersPage == [items: [Emails -> Statuses \cup {Absent}], roles: SUBSET Roles, loads: Nat, loading: BOOLEAN,
              scope: Scopes, tenant: Tenants \cup {None}, role: MaybeRole, task: {None} \cup UserTask,
              running: {None} \cup (Emails \X (Statuses \cup {"delete", "done"}))]

TypeOK ==
    /\ stored \in [Roles -> {Absent} \cup SUBSET Perms]
    /\ accounts \in [Emails -> {Absent} \cup Account]
    /\ rp \in RolesPage
    /\ details \in Seq([role: Roles, reply: {None} \cup SUBSET Perms])
    /\ up \in UsersPage
    /\ ops \in 0..MaxOps /\ faults \in 0..MaxFaults
    /\ shown \in MaybeRole
    /\ crossed \in BOOLEAN /\ removed \in BOOLEAN

\* Both pages have loaded their lists.
Init ==
    /\ stored \in [Roles -> {{}, Perms, Absent}]
    /\ \A r \in Roles : stored[r] # Absent <=> r \in Existing
    /\ accounts = [e \in Emails |-> Absent]
    /\ rp = [items |-> Existing, loads |-> 0, loading |-> FALSE, editing |-> None, editPerms |-> {},
             task |-> None, deleting |-> None, deleted |-> FALSE]
    /\ details = << >>
    /\ up = [items |-> accounts, roles |-> Existing, loads |-> 0, loading |-> FALSE, scope |-> "tenant",
             tenant |-> None, role |-> None, task |-> None, running |-> None]
    /\ ops = 0 /\ faults = 0
    /\ shown = None /\ crossed = FALSE /\ removed = FALSE

Person == ops < MaxOps /\ ops' = ops + 1 /\ UNCHANGED faults
Fault == faults < MaxFaults /\ faults' = faults + 1 /\ UNCHANGED ops
System == UNCHANGED <<ops, faults>>

\* load(): any answer, or failure, of any of the loads ends the loading state.
Load(page) == [page EXCEPT !.loads = @ + 1, !.loading = TRUE]
Loaded(page) == [page EXCEPT !.loads = @ - 1, !.loading = FALSE]

StoredRoles == {r \in Roles : stored[r] # Absent}

-----------------------------------------------------------------------------
(* The Roles page *)

RolesListed ==
    /\ rp.loads > 0
    /\ rp' = [Loaded(rp) EXCEPT !.items = StoredRoles]
    /\ System
    /\ UNCHANGED <<stored, accounts, details, up, shown, crossed, removed>>

RoleListFails ==
    /\ rp.loads > 0
    /\ rp' = Loaded(rp)
    /\ Fault
    /\ UNCHANGED <<stored, accounts, details, up, shown, crossed, removed>>

\* The table is behind the edit form, and replaced by a text while it loads.
TableShown == ~rp.loading /\ rp.editing \notin rp.items /\ rp.deleting = None

\* The button that opens the form is there while the table loads, and ends an edit.
SubmitRole(r, perms) ==
    /\ rp.task = None /\ rp.editing \notin rp.items /\ rp.deleting = None
    /\ rp' = [rp EXCEPT !.editing = None, !.task = [kind |-> "create", role |-> r, perms |-> perms, step |-> 1,
                                                   done |-> FALSE, gone |-> FALSE]]
    /\ Person
    /\ UNCHANGED <<stored, accounts, details, up, shown, crossed, removed>>

\* Mutant: the permissions shown are those of the role edited before.
StartEditUnloaded(r) ==
    /\ TableShown /\ r \in rp.items
    /\ rp' = [rp EXCEPT !.editing = r]
    /\ Person
    /\ UNCHANGED <<stored, accounts, details, up, shown, crossed, removed>>

\* The form opens at once, with the permissions it last held.
StartEdit(r) ==
    /\ TableShown /\ r \in rp.items
    /\ rp' = [rp EXCEPT !.editing = r]
    /\ details' = Append(details, [role |-> r, reply |-> None])
    /\ crossed' = (crossed \/ details # << >>)
    /\ Person
    /\ UNCHANGED <<stored, accounts, up, shown, removed>>

Dropped(i) == SubSeq(details, 1, i - 1) \o SubSeq(details, i + 1, Len(details))

DetailRead(i) ==
    /\ details[i].reply = None /\ stored[details[i].role] # Absent
    /\ details' = [details EXCEPT ![i].reply = stored[details[i].role]]
    /\ System
    /\ UNCHANGED <<stored, accounts, rp, up, shown, crossed, removed>>

\* Whichever form is open receives the permissions.
DetailArrives(i) ==
    /\ details[i].reply # None
    /\ rp' = [rp EXCEPT !.editPerms = details[i].reply]
    /\ shown' = details[i].role
    /\ details' = Dropped(i)
    /\ System
    /\ UNCHANGED <<stored, accounts, up, crossed, removed>>

\* The request fails, or the role is gone: nothing is ticked.
DetailFails(i) ==
    /\ \/ Fault
       \/ stored[details[i].role] = Absent /\ details[i].reply = None /\ System
    /\ rp' = [rp EXCEPT !.editPerms = {}]
    /\ crossed' = TRUE
    /\ details' = Dropped(i)
    /\ UNCHANGED <<stored, accounts, up, shown, removed>>

EditShown == rp.editing # None /\ rp.editing \in rp.items

TogglePerm(p) ==
    /\ EditShown
    /\ rp' = [rp EXCEPT !.editPerms = IF p \in @ THEN @ \ {p} ELSE @ \cup {p}]
    /\ Person
    /\ UNCHANGED <<stored, accounts, details, up, shown, crossed, removed>>

CloseEdit ==
    /\ EditShown
    /\ rp' = [rp EXCEPT !.editing = None]
    /\ Person
    /\ UNCHANGED <<stored, accounts, details, up, shown, crossed, removed>>

SaveEdit ==
    /\ EditShown /\ rp.task = None
    /\ rp' = [rp EXCEPT !.task = [kind |-> "edit", role |-> rp.editing, perms |-> rp.editPerms, step |-> 1,
                                  done |-> FALSE, gone |-> FALSE]]
    /\ Person
    /\ UNCHANGED <<stored, accounts, details, up, shown, crossed, removed>>

\* After the last request: the form is closed, a later one too, and the list loaded.
RoleSaved == [Load(rp) EXCEPT !.task = None, !.editing = IF rp.task.kind = "edit" THEN None ELSE @]

\* The first request: POST /roles, refused for a stored key, or PUT /roles/{id}
\* (the name).
RoleStep1 ==
    LET t == rp.task IN
    /\ t # None /\ t.step = 1 /\ ~t.done
    /\ t.kind = "create" <=> stored[t.role] = Absent
    /\ stored' = IF t.kind = "create" THEN [stored EXCEPT ![t.role] = {}] ELSE stored
    /\ rp' = [rp EXCEPT !.task.done = TRUE]
    /\ System
    /\ UNCHANGED <<accounts, details, up, shown, crossed, removed>>

\* Mutant: the permissions are not replaced.
RoleStep2Unchecked ==
    LET t == rp.task IN
    /\ t # None /\ t.step = 2 /\ ~t.done
    /\ stored' = stored
    /\ rp' = [rp EXCEPT !.task.done = TRUE]
    /\ System
    /\ UNCHANGED <<accounts, details, up, shown, crossed, removed>>

\* The second request replaces the permissions in one transaction.
RoleStep2 ==
    LET t == rp.task IN
    /\ t # None /\ t.step = 2 /\ ~t.done
    /\ stored[t.role] # Absent
    /\ stored' = [stored EXCEPT ![t.role] = t.perms]
    /\ rp' = [rp EXCEPT !.task.done = TRUE]
    /\ System
    /\ UNCHANGED <<accounts, details, up, shown, crossed, removed>>

Refused(t) ==
    \/ t.step = 1 /\ (t.kind = "create" <=> stored[t.role] # Absent)
    \/ t.step = 2 /\ stored[t.role] = Absent /\ t.perms # {}

\* PUT permissions of a deleted role with none ticked inserts nothing and succeeds.
RoleStep2Empty ==
    LET t == rp.task IN
    /\ t # None /\ t.step = 2 /\ ~t.done
    /\ stored[t.role] = Absent /\ t.perms = {}
    /\ rp' = [rp EXCEPT !.task.done = TRUE]
    /\ System
    /\ UNCHANGED <<stored, accounts, details, up, shown, crossed, removed>>

\* The answer arrives, whatever has happened to the role since.  The second
\* request follows the first, but not for a new role with no permission ticked.
RoleAnswered ==
    LET t == rp.task IN
    /\ t # None /\ t.done
    /\ rp' = IF t.step = 1 /\ (t.kind = "edit" \/ t.perms # {})
             THEN [rp EXCEPT !.task.step = 2, !.task.done = FALSE] ELSE RoleSaved
    /\ System
    /\ UNCHANGED <<stored, accounts, details, up, shown, crossed, removed>>

\* Mutant: only a refused first request ends the saving state.
RoleTaskFailsFirst ==
    /\ rp.task # None /\ rp.task.step = 1 /\ ~rp.task.done /\ Refused(rp.task)
    /\ rp' = [rp EXCEPT !.task = None]
    /\ System
    /\ UNCHANGED <<stored, accounts, details, up, shown, crossed, removed>>

\* A request is refused, fails, or its answer is lost after it was carried out:
\* the form stays as it is, and nothing undoes the first request.
RoleTaskFails ==
    LET t == rp.task IN
    /\ t # None
    /\ IF ~t.done /\ Refused(t) THEN System ELSE Fault
    /\ rp' = [rp EXCEPT !.task = None]
    /\ UNCHANGED <<stored, accounts, details, up, shown, crossed, removed>>

\* The dialog names the role; its request is sent when it is confirmed.
DeleteRole(r) ==
    /\ TableShown /\ r \in rp.items
    /\ rp' = [rp EXCEPT !.deleting = r]
    /\ Person
    /\ UNCHANGED <<stored, accounts, details, up, shown, crossed, removed>>

\* The row goes, with its permissions and its assignments (ON DELETE CASCADE).
RoleDeleted ==
    /\ rp.deleting # None /\ ~rp.deleted /\ stored[rp.deleting] # Absent
    /\ stored' = [stored EXCEPT ![rp.deleting] = Absent]
    /\ accounts' = [e \in Emails |->
          IF accounts[e] = Absent THEN Absent
          ELSE [accounts[e] EXCEPT !.roles = {a \in @ : a[1] # rp.deleting}]]
    /\ removed' = TRUE
    /\ rp' = IF rp.task # None /\ rp.task.role = rp.deleting
             THEN [rp EXCEPT !.deleted = TRUE, !.task.gone = TRUE] ELSE [rp EXCEPT !.deleted = TRUE]
    /\ System
    /\ UNCHANGED <<details, up, shown, crossed>>

DeleteRoleAnswered ==
    /\ rp.deleted
    /\ rp' = [Load(rp) EXCEPT !.deleting = None, !.deleted = FALSE]
    /\ System
    /\ UNCHANGED <<stored, accounts, details, up, shown, crossed, removed>>

DeleteRoleFails ==
    /\ rp.deleting # None
    /\ IF ~rp.deleted /\ stored[rp.deleting] = Absent THEN System ELSE Fault
    /\ rp' = [rp EXCEPT !.deleting = None, !.deleted = FALSE]
    /\ UNCHANGED <<stored, accounts, details, up, shown, crossed, removed>>

-----------------------------------------------------------------------------
(* The Users page *)

StatusOf(e) == IF accounts[e] = Absent THEN Absent ELSE accounts[e].status

UsersListed ==
    /\ up.loads > 0
    /\ up' = [Loaded(up) EXCEPT !.items = [e \in Emails |-> StatusOf(e)], !.roles = StoredRoles]
    /\ System
    /\ UNCHANGED <<stored, accounts, rp, details, shown, crossed, removed>>

UserListFails ==
    /\ up.loads > 0
    /\ up' = Loaded(up)
    /\ Fault
    /\ UNCHANGED <<stored, accounts, rp, details, shown, crossed, removed>>

EditsForm == Person /\ UNCHANGED <<stored, accounts, rp, details, shown, crossed, removed>>

\* A new account type or tenant clears the choices that depended on it.
ChooseScope(s) ==
    /\ s # up.scope
    /\ up' = [up EXCEPT !.scope = s, !.tenant = None, !.role = None]
    /\ EditsForm

\* Mutant: the role chosen for another tenant stays.
ChooseTenantKeepRole(t) ==
    /\ up.scope = "tenant" /\ t # up.tenant
    /\ up' = [up EXCEPT !.tenant = t]
    /\ EditsForm

ChooseTenant(t) ==
    /\ up.scope = "tenant" /\ t # up.tenant
    /\ up' = [up EXCEPT !.tenant = t, !.role = None]
    /\ EditsForm

\* Before a tenant is chosen only the default tenant roles are on offer.
CreateRoleOptions ==
    {r \in up.roles : IF up.scope = "platform" THEN GroupOf[r] = "platform" ELSE GroupOf[r] \in {"any", up.tenant}}

ChooseRole(r) ==
    /\ r \in CreateRoleOptions
    /\ up' = [up EXCEPT !.role = r]
    /\ EditsForm

SubmitUser(e) ==
    /\ up.task = None
    /\ up.scope = "tenant" => up.tenant # None
    /\ up.role # None
    /\ up' = [up EXCEPT !.task = [kind |-> "create", email |-> e, tenant |-> up.tenant, role |-> up.role, step |-> 1,
                                  done |-> FALSE]]
    /\ EditsForm

\* Roles on offer for a listed user: platform roles, or roles of any tenant.
EditRoleOptions(e) ==
    {r \in up.roles : IF accounts[e].platform THEN GroupOf[r] = "platform" ELSE GroupOf[r] \in Tenants}

\* Edit user: the name, and a further role unless "No role change" is left.
SaveUser(e, r) ==
    /\ up.task = None /\ ~up.loading
    /\ up.items[e] # Absent /\ accounts[e] # Absent
    /\ r \in EditRoleOptions(e) \cup {None}
    /\ up' = [up EXCEPT !.task = [kind |-> "edit", email |-> e, role |-> r, step |-> 1, done |-> FALSE,
                                  tenant |-> IF r # None /\ GroupOf[r] \in Tenants THEN GroupOf[r] ELSE None]]
    /\ EditsForm

\* A user created with success empties the form.
UserSaved == IF up.task.kind = "edit" THEN [Load(up) EXCEPT !.task = None]
             ELSE [Load(up) EXCEPT !.task = None, !.scope = "tenant", !.tenant = None, !.role = None]

Created(t, member) ==
    [accounts EXCEPT ![t.email] = [platform |-> t.tenant = None, tenant |-> IF member THEN t.tenant ELSE None,
                                   status |-> "active", roles |-> {}]]
Assigned(t) == [accounts EXCEPT ![t.email].roles = @ \cup {<<t.role, t.tenant>>}]

\* POST /users, refused for a stored address, or PUT /users/{id}.
UserStep1 ==
    LET t == up.task IN
    /\ t # None /\ t.step = 1 /\ ~t.done
    /\ t.kind = "create" <=> accounts[t.email] = Absent
    /\ accounts' = IF t.kind = "create" THEN Created(t, TRUE) ELSE accounts
    /\ up' = [up EXCEPT !.task.done = TRUE]
    /\ System
    /\ UNCHANGED <<stored, rp, details, shown, crossed, removed>>

\* CreateUser ignores that the insert into tenant_users failed.
CreatedWithoutTenant ==
    LET t == up.task IN
    /\ t # None /\ t.step = 1 /\ ~t.done /\ t.kind = "create" /\ t.tenant # None
    /\ accounts[t.email] = Absent
    /\ accounts' = Created(t, FALSE)
    /\ up' = [up EXCEPT !.task.done = TRUE]
    /\ Fault
    /\ UNCHANGED <<stored, rp, details, shown, crossed, removed>>

Assignable(t) == stored[t.role] # Absent /\ <<t.role, t.tenant>> \notin accounts[t.email].roles

\* Mutant: the role is not assigned.
UserStep2Skip ==
    LET t == up.task IN
    /\ t # None /\ t.step = 2 /\ ~t.done
    /\ accounts' = accounts
    /\ up' = [up EXCEPT !.task.done = TRUE]
    /\ System
    /\ UNCHANGED <<stored, rp, details, shown, crossed, removed>>

\* POST /users/{id}/roles, refused when the role is gone or already assigned.
UserStep2 ==
    LET t == up.task IN
    /\ t # None /\ t.step = 2 /\ ~t.done
    /\ Assignable(t)
    /\ accounts' = Assigned(t)
    /\ up' = [up EXCEPT !.task.done = TRUE]
    /\ System
    /\ UNCHANGED <<stored, rp, details, shown, crossed, removed>>

\* The answer arrives; the assignment follows the first request if a role was chosen.
UserAnswered ==
    LET t == up.task IN
    /\ t # None /\ t.done
    /\ up' = IF t.step = 1 /\ t.role # None
             THEN [up EXCEPT !.task.step = 2, !.task.done = FALSE] ELSE UserSaved
    /\ System
    /\ UNCHANGED <<stored, accounts, rp, details, shown, crossed, removed>>

UserRefused(t) ==
    \/ t.step = 1 /\ (t.kind = "create" <=> accounts[t.email] # Absent)
    \/ t.step = 2 /\ ~Assignable(t)

\* The first request is not undone when the second fails.
UserTaskFails ==
    LET t == up.task IN
    /\ t # None
    /\ IF ~t.done /\ UserRefused(t) THEN System ELSE Fault
    /\ up' = [up EXCEPT !.task = None]
    /\ UNCHANGED <<stored, accounts, rp, details, shown, crossed, removed>>

\* The confirmed change of status: the opposite of the status listed.
ToggleUserStatus(e) ==
    /\ up.running = None /\ ~up.loading /\ up.items[e] # Absent
    /\ up' = [up EXCEPT !.running = <<e, IF up.items[e] = "active" THEN "disabled" ELSE "active">>]
    /\ EditsForm

DeleteUser(e) ==
    /\ up.running = None /\ ~up.loading /\ up.items[e] # Absent
    /\ up' = [up EXCEPT !.running = <<e, "delete">>]
    /\ EditsForm

\* Mutant: what the dialog is for is not looked at.
StatusChangedAny ==
    /\ up.running # None
    /\ accounts' = [accounts EXCEPT ![up.running[1]].status = up.running[2]]
    /\ up' = [up EXCEPT !.running = <<up.running[1], "done">>]
    /\ System
    /\ UNCHANGED <<stored, rp, details, shown, crossed, removed>>

StatusChanged ==
    /\ up.running # None /\ up.running[2] \in Statuses
    /\ accounts' = [accounts EXCEPT ![up.running[1]].status = up.running[2]]
    /\ up' = [up EXCEPT !.running = <<up.running[1], "done">>]
    /\ System
    /\ UNCHANGED <<stored, rp, details, shown, crossed, removed>>

StatusAnswered ==
    /\ up.running # None /\ up.running[2] = "done"
    /\ up' = [Load(up) EXCEPT !.running = None]
    /\ System
    /\ UNCHANGED <<stored, accounts, rp, details, shown, crossed, removed>>

\* The API has no route for DELETE /users/{id}: that request always fails.
UserChangeFails ==
    /\ up.running # None
    /\ IF up.running[2] = "delete" THEN System ELSE Fault
    /\ up' = [up EXCEPT !.running = None]
    /\ UNCHANGED <<stored, accounts, rp, details, shown, crossed, removed>>

-----------------------------------------------------------------------------
RolesStep ==
    \/ RolesListed \/ RoleListFails
    \/ \E i \in DOMAIN details : DetailRead(i) \/ DetailArrives(i) \/ DetailFails(i)
    \/ RoleStep1 \/ RoleStep2 \/ RoleStep2Empty \/ RoleAnswered \/ RoleTaskFails
    \/ RoleDeleted \/ DeleteRoleAnswered \/ DeleteRoleFails

UsersStep ==
    \/ UsersListed \/ UserListFails
    \/ UserStep1 \/ CreatedWithoutTenant \/ UserStep2 \/ UserAnswered \/ UserTaskFails
    \/ StatusChanged \/ StatusAnswered \/ UserChangeFails

PersonStep ==
    \/ \E r \in Roles : \/ \E perms \in SUBSET Perms : SubmitRole(r, perms)
                        \/ StartEdit(r) \/ DeleteRole(r) \/ ChooseRole(r)
    \/ \E p \in Perms : TogglePerm(p)
    \/ CloseEdit \/ SaveEdit
    \/ \E s \in Scopes : ChooseScope(s)
    \/ \E t \in Tenants : ChooseTenant(t)
    \/ \E e \in Emails : \/ SubmitUser(e) \/ ToggleUserStatus(e) \/ DeleteUser(e)
                         \/ \E r \in MaybeRole : SaveUser(e, r)

Next == RolesStep \/ UsersStep \/ PersonStep

Spec == Init /\ [][Next]_vars

\* Every request is answered or fails; the person is free.
FairSpec == Spec /\ WF_vars(RolesStep) /\ WF_vars(UsersStep)

-----------------------------------------------------------------------------
(* Properties *)

\* Once every detail request has been answered, one at a time and with success,
\* the open form holds the permissions of its own role: saving it cannot give a
\* role the permissions of the role that was edited before.
EditShowsOwnRole == EditShown /\ details = << >> /\ ~crossed => shown = rp.editing

\* When the page ends a save with success and reloads the list, the role is stored
\* with exactly the permissions that were ticked.  There is one exception: the
\* role was deleted while it was being saved, before its last request (none were
\* ticked) or between that request and its answer; the page reports success then.
SuccessMeansStored ==
    [][rp.task # None /\ rp'.task = None /\ rp'.loads > rp.loads =>
          \/ stored'[rp.task.role] = rp.task.perms
          \/ stored'[rp.task.role] = Absent /\ rp.task.gone]_vars

\* Every assignment fits its role and account: a platform role belongs to a
\* platform account and no tenant, a tenant's role is assigned within that tenant,
\* a default role within the account's tenant, if its membership is stored.
AssignmentFitsRole ==
    \A e \in Emails : accounts[e] # Absent => \A a \in accounts[e].roles :
        CASE GroupOf[a[1]] = "platform" -> accounts[e].platform /\ a[2] = None
          [] GroupOf[a[1]] = "any" -> a[2] # None /\ accounts[e].tenant \in {a[2], None}
          [] OTHER -> a[2] = GroupOf[a[1]]

\* Without a failed request and as long as no role is deleted, every account has
\* a role, and a tenant unless it is a platform account, once its creation has ended.
AccountsAreComplete ==
    \A e \in Emails :
        accounts[e] # Absent /\ (accounts[e].roles = {} \/ (~accounts[e].platform /\ accounts[e].tenant = None)) =>
            faults > 0 \/ removed \/ (up.task # None /\ up.task.email = e)

\* A save ends, whatever fails and whatever the other page does meanwhile.
SavesEnd ==
    /\ rp.task # None ~> rp.task = None
    /\ up.task # None ~> up.task = None

=============================================================================
