------------------------- MODULE AccessPagesProofs -------------------------
(***************************************************************************)
(* Safety of the Roles page and the Users page for any number of roles,    *)
(* permissions, users and tenants.                                         *)
(*                                                                         *)
(* The invariant has one part per page.  Roles: the one detail request     *)
(* under way, or the last one answered, is for the role being edited.      *)
(* Users: what the form offers fits its account type and tenant, a task    *)
(* keeps what was chosen, and an account is incomplete only until the      *)
(* second request of its creation is carried out.  The pages share the     *)
(* stored roles, which only a deletion takes away.  For what the Roles     *)
(* page reports, SaveOK says what a request that was carried out has left  *)
(* in the table while its answer is on its way.                            *)
(***************************************************************************)
EXTENDS AccessPages, SequenceTheorems, TLAPS

\* The Roles page.
DetailOK ==
    ~crossed =>
        /\ Len(details) <= 1
        /\ rp.editing # None =>
             IF details = << >> THEN shown = rp.editing ELSE details[1].role = rp.editing

\* Once a request of a save was carried out its role is stored, as that request
\* left it until the next one, or was deleted since.
SaveOK ==
    rp.task # None =>
        /\ rp.task.step = 2 \/ rp.task.done => stored[rp.task.role] # Absent \/ rp.task.gone
        /\ rp.task.step = 2 /\ rp.task.done => stored[rp.task.role] \in {rp.task.perms, Absent}
        /\ rp.task.step = 1 /\ rp.task.done /\ rp.task.kind = "create" => stored[rp.task.role] \in {{}, Absent}

\* Whoever is listed, changed or given a role has an account.
KnownOK ==
    /\ \A e \in Emails : up.items[e] # Absent => accounts[e] \in Account
    /\ up.running # None => accounts[up.running[1]] \in Account
    /\ up.task # None /\ (up.task.kind = "edit" \/ up.task.step = 2 \/ up.task.done) =>
          accounts[up.task.email] \in Account

\* The roles on offer and chosen are stored, as long as none is deleted.
ExistOK ==
    ~removed =>
        /\ up.roles \subseteq StoredRoles /\ up.role \in StoredRoles \cup {None}
        /\ up.task # None => up.task.role \in StoredRoles \cup {None}

\* A role fits the tenant it is chosen for, None for a platform account.
Suits(role, tenant) ==
    IF tenant = None THEN GroupOf[role] = "platform" ELSE GroupOf[role] \in {"any", tenant}

FormOK ==
    /\ up.scope = "platform" => up.tenant = None
    /\ up.role # None =>
          IF up.scope = "platform" THEN GroupOf[up.role] = "platform" ELSE GroupOf[up.role] \in {"any", up.tenant}

\* The first request was carried out and the second was not.
Made(t) == IF t.step = 1 THEN t.done ELSE ~t.done

\* A creation, and the account that its first request made.
CreationOK(t) ==
    /\ t.role # None /\ Suits(t.role, t.tenant)
    /\ Made(t) =>
          /\ accounts[t.email].platform = (t.tenant = None) /\ accounts[t.email].roles = {}
          /\ accounts[t.email].tenant \in {t.tenant, None}
          /\ faults = 0 => accounts[t.email].tenant = t.tenant

\* A change gives a platform role to a platform account, or a tenant's role.
ChangeOK(t) ==
    /\ t.step = 2 => t.role # None
    /\ t.role # None =>
          \/ GroupOf[t.role] = "platform" /\ t.tenant = None /\ accounts[t.email].platform
          \/ GroupOf[t.role] = t.tenant /\ t.tenant \in Tenants

TaskOK == up.task # None => IF up.task.kind = "create" THEN CreationOK(up.task) ELSE ChangeOK(up.task)

Fits(account, a) ==
    /\ GroupOf[a[1]] = "platform" => account.platform /\ a[2] = None
    /\ GroupOf[a[1]] = "any" => a[2] # None /\ account.tenant \in {a[2], None}
    /\ GroupOf[a[1]] \in Tenants => a[2] = GroupOf[a[1]]

FitsOK == \A e \in Emails : accounts[e] # Absent => \A a \in accounts[e].roles : Fits(accounts[e], a)

Incomplete(account) == account.roles = {} \/ (~account.platform /\ account.tenant = None)

\* The second request of the creation of e is still to be carried out.
Creating(e) == up.task # None /\ up.task.kind = "create" /\ Made(up.task) /\ up.task.email = e

CompleteOK ==
    \A e \in Emails : accounts[e] # Absent /\ Incomplete(accounts[e]) => faults > 0 \/ removed \/ Creating(e)

IndInv ==
    TypeOK /\ DetailOK /\ SaveOK /\ KnownOK /\ ExistOK /\ FormOK /\ TaskOK /\ FitsOK /\ CompleteOK

-----------------------------------------------------------------------------
(* Helpers *)

Detail == [role: Roles, reply: {None} \cup SUBSET Perms]

\* The part of the invariant that each page is responsible for.
RolesInv ==
    /\ stored \in [Roles -> {Absent} \cup SUBSET Perms] /\ rp \in RolesPage /\ details \in Seq(Detail)
    /\ shown \in MaybeRole /\ crossed \in BOOLEAN /\ removed \in BOOLEAN
    /\ DetailOK /\ SaveOK

UsersInv ==
    /\ accounts \in [Emails -> {Absent} \cup Account] /\ up \in UsersPage
    /\ KnownOK /\ ExistOK /\ FormOK /\ TaskOK /\ FitsOK /\ CompleteOK

Counters == ops \in 0..MaxOps /\ faults \in 0..MaxFaults

LEMMA Parts == IndInv <=> RolesInv /\ UsersInv /\ Counters
BY DEF IndInv, RolesInv, UsersInv, Counters, TypeOK, Detail

LEMMA PartsNext == ASSUME RolesInv', UsersInv', Counters' PROVE IndInv'
BY DEF IndInv, RolesInv, UsersInv, Counters, TypeOK, Detail

LEMMA CountersKept ==
    ASSUME Counters, Person \/ Fault \/ System
    PROVE  Counters' /\ faults \in Nat /\ faults' \in Nat /\ faults <= faults'
BY AccessConstants DEF Counters, Person, Fault, System

\* The parts of the Users page.
LEMMA UpFacts ==
    ASSUME UsersInv
    PROVE  /\ up.items \in [Emails -> Statuses \cup {Absent}] /\ up.roles \subseteq Roles /\ up.loads \in Nat
           /\ up.loading \in BOOLEAN /\ up.scope \in Scopes /\ up.tenant \in Tenants \cup {None}
           /\ up.role \in MaybeRole /\ up.task \in {None} \cup UserTask
           /\ up.running \in {None} \cup (Emails \X (Statuses \cup {"delete", "done"}))
BY DEF UsersInv, UsersPage

LEMMA TaskFacts ==
    ASSUME UsersInv, up.task # None
    PROVE  /\ up.task \in UserTask /\ up.task.kind \in {"create", "edit"} /\ up.task.email \in Emails
           /\ up.task.tenant \in Tenants \cup {None} /\ up.task.role \in MaybeRole /\ up.task.step \in {1, 2}
           /\ up.task.done \in BOOLEAN
<1>1. up.task \in UserTask BY UpFacts
<1>2. 1..2 = {1, 2} OBVIOUS
<1> QED BY <1>1, <1>2 DEF UserTask

LEMMA RpFacts ==
    ASSUME RolesInv
    PROVE  /\ rp.items \subseteq Roles /\ rp.loads \in Nat /\ rp.loading \in BOOLEAN
           /\ rp.editing \in MaybeRole /\ rp.editPerms \subseteq Perms /\ rp.task \in {None} \cup RoleTask
           /\ rp.deleting \in MaybeRole /\ rp.deleted \in BOOLEAN
BY DEF RolesInv, RolesPage

\* A step of the Roles page that deletes no role leaves the Users page alone.
LEMMA UsersFrame ==
    ASSUME UsersInv, UNCHANGED <<accounts, up, removed>>, faults \in Nat, faults' \in Nat, faults <= faults',
           \A r \in Roles : stored[r] # Absent => stored'[r] # Absent
    PROVE  UsersInv'
<1>1. KnownOK' /\ FormOK' BY DEF UsersInv, KnownOK, FormOK
<1>2. ExistOK'
  <2>1. StoredRoles \subseteq StoredRoles' BY DEF StoredRoles
  <2> QED BY <2>1 DEF UsersInv, ExistOK
<1>3. TaskOK'
  <2>1. faults' = 0 => faults = 0 OBVIOUS
  <2> QED BY <2>1 DEF UsersInv, TaskOK, CreationOK, ChangeOK, Suits, Made
<1>4. FitsOK' BY DEF UsersInv, FitsOK, Fits
<1>5. CompleteOK'
  <2>1. faults > 0 => faults' > 0 OBVIOUS
  <2> QED BY <2>1 DEF UsersInv, CompleteOK, Incomplete, Creating, Made
<1> QED BY <1>1, <1>2, <1>3, <1>4, <1>5 DEF UsersInv

\* A step of the Users page leaves the Roles page alone.
LEMMA RolesFrame ==
    ASSUME RolesInv, UNCHANGED <<stored, rp, details, shown, crossed, removed>>
    PROVE  RolesInv'
BY DEF RolesInv, DetailOK, SaveOK

-----------------------------------------------------------------------------
(* The Roles page *)

\* A step that leaves the save alone, or ends it.
LEMMA SameSave == ASSUME RolesInv, rp'.task \in {rp.task, None}, UNCHANGED stored PROVE SaveOK'
BY DEF RolesInv, SaveOK

\* A step that neither edits another role nor touches the detail requests.
LEMMA SameDetails ==
    ASSUME RolesInv, rp' \in RolesPage, rp'.editing \in {rp.editing, None}, SaveOK', UNCHANGED <<details, shown, crossed>>,
           stored' \in [Roles -> {Absent} \cup SUBSET Perms], removed' \in BOOLEAN
    PROVE  RolesInv'
<1>1. DetailOK' BY DEF RolesInv, DetailOK
<1> QED BY <1>1 DEF RolesInv

\* A step of the Roles page that does that and deletes no role.
LEMMA RolesOnly ==
    ASSUME IndInv, rp' \in RolesPage, rp'.editing \in {rp.editing, None}, SaveOK', Person \/ Fault \/ System,
           stored' \in [Roles -> {Absent} \cup SUBSET Perms],
           \A r \in Roles : stored[r] # Absent => stored'[r] # Absent,
           UNCHANGED <<accounts, details, up, shown, crossed, removed>>
    PROVE  IndInv'
<1>1. RolesInv /\ UsersInv /\ Counters BY Parts
<1>2. removed' \in BOOLEAN BY <1>1 DEF RolesInv
<1>3. RolesInv' BY <1>1, <1>2, SameDetails
<1>4. Counters' /\ faults \in Nat /\ faults' \in Nat /\ faults <= faults' BY <1>1, CountersKept
<1>5. UsersInv' BY <1>1, <1>4, UsersFrame
<1> QED BY <1>3, <1>4, <1>5, PartsNext

LEMMA SubmitRoleStep ==
    ASSUME IndInv, NEW r \in Roles, NEW perms \in SUBSET Perms, SubmitRole(r, perms) PROVE IndInv'
<1>1. RolesInv BY Parts
<1>2. PICK t : t = [kind |-> "create", role |-> r, perms |-> perms, step |-> 1, done |-> FALSE, gone |-> FALSE]
  OBVIOUS
<1>3. t \in RoleTask /\ t.step = 1 /\ t.done = FALSE BY <1>2 DEF RoleTask
<1>4. rp' = [rp EXCEPT !.editing = None, !.task = t] BY <1>2 DEF SubmitRole
<1>5. rp' \in RolesPage /\ rp'.editing = None /\ rp'.task = t BY <1>1, <1>3, <1>4 DEF RolesInv, RolesPage, MaybeRole
<1>6. SaveOK' BY <1>3, <1>5 DEF SaveOK
<1> QED BY <1>1, <1>5, <1>6, RolesOnly DEF RolesInv, SubmitRole

\* A load that starts, and one that ends.
LEMMA LoadFacts ==
    ASSUME NEW page \in RolesPage
    PROVE  /\ Load(page) \in RolesPage /\ Load(page).loads = page.loads + 1
           /\ Load(page).editing = page.editing /\ Load(page).task = page.task
           /\ page.loads > 0 => /\ Loaded(page) \in RolesPage /\ Loaded(page).editing = page.editing
                                 /\ Loaded(page).task = page.task
<1>1. page.loads \in Nat /\ page.loads + 1 \in Nat /\ (page.loads > 0 => page.loads - 1 \in Nat)
  BY DEF RolesPage
<1>2. Load(page) \in RolesPage /\ Load(page).loads = page.loads + 1
      /\ Load(page).editing = page.editing /\ Load(page).task = page.task
  BY <1>1 DEF RolesPage, Load
<1>3. page.loads > 0 => /\ Loaded(page) \in RolesPage /\ Loaded(page).editing = page.editing
                        /\ Loaded(page).task = page.task
  BY <1>1 DEF RolesPage, Loaded
<1> QED BY <1>2, <1>3

LEMMA RolesListedStep == ASSUME IndInv, RolesListed PROVE IndInv'
<1>1. RolesInv BY Parts
<1>2. StoredRoles \subseteq Roles BY DEF StoredRoles
<1>3. rp' \in RolesPage /\ rp'.editing = rp.editing /\ rp'.task = rp.task
  <2>1. PICK page : page = Loaded(rp) OBVIOUS
  <2>2. page \in RolesPage /\ page.editing = rp.editing /\ page.task = rp.task
    BY <1>1, <2>1, LoadFacts DEF RolesInv, RolesListed
  <2>3. rp' = [page EXCEPT !.items = StoredRoles] BY <2>1 DEF RolesListed
  <2> QED BY <1>2, <2>2, <2>3 DEF RolesPage
<1> QED BY <1>1, <1>3, SameSave, RolesOnly DEF RolesInv, RolesListed

LEMMA RoleListFailsStep == ASSUME IndInv, RoleListFails PROVE IndInv'
<1>1. RolesInv BY Parts
<1>2. rp' \in RolesPage /\ rp'.editing = rp.editing /\ rp'.task = rp.task BY <1>1, LoadFacts DEF RolesInv, RoleListFails
<1> QED BY <1>1, <1>2, SameSave, RolesOnly DEF RolesInv, RoleListFails

LEMMA FormSteps ==
    ASSUME IndInv, (\E p \in Perms : TogglePerm(p)) \/ CloseEdit \/ SaveEdit \/ (\E r \in Roles : DeleteRole(r))
    PROVE  IndInv'
<1>1. RolesInv BY Parts
<1>2. ASSUME NEW p \in Perms, TogglePerm(p) PROVE IndInv'
  <2>1. rp' \in RolesPage /\ rp'.editing = rp.editing /\ rp'.task = rp.task
    BY <1>1, <1>2 DEF RolesInv, TogglePerm, RolesPage
  <2> QED BY <1>1, <1>2, <2>1, SameSave, RolesOnly DEF RolesInv, TogglePerm
<1>3. CASE CloseEdit
  <2>1. rp' \in RolesPage /\ rp'.editing = None /\ rp'.task = rp.task
    BY <1>1, <1>3 DEF RolesInv, CloseEdit, RolesPage, MaybeRole
  <2> QED BY <1>1, <1>3, <2>1, SameSave, RolesOnly DEF RolesInv, CloseEdit
<1>4. CASE SaveEdit
  <2>1. rp.editing \in Roles /\ rp.editPerms \subseteq Perms
    BY <1>1, <1>4, RpFacts DEF SaveEdit, EditShown, MaybeRole
  <2>2. PICK t : t = [kind |-> "edit", role |-> rp.editing, perms |-> rp.editPerms, step |-> 1,
                      done |-> FALSE, gone |-> FALSE]
    OBVIOUS
  <2>3. t \in RoleTask /\ t.step = 1 /\ t.done = FALSE BY <2>1, <2>2 DEF RoleTask
  <2>4. rp' = [rp EXCEPT !.task = t] BY <1>4, <2>2 DEF SaveEdit
  <2>5. rp' \in RolesPage /\ rp'.editing = rp.editing /\ rp'.task = t BY <1>1, <2>3, <2>4 DEF RolesInv, RolesPage
  <2>6. SaveOK' BY <2>3, <2>5 DEF SaveOK
  <2> QED BY <1>1, <1>4, <2>5, <2>6, RolesOnly DEF RolesInv, SaveEdit
<1>5. ASSUME NEW r \in Roles, DeleteRole(r) PROVE IndInv'
  <2>1. rp' \in RolesPage /\ rp'.editing = rp.editing /\ rp'.task = rp.task
    BY <1>1, <1>5 DEF RolesInv, DeleteRole, RolesPage, MaybeRole
  <2> QED BY <1>1, <1>5, <2>1, SameSave, RolesOnly DEF RolesInv, DeleteRole
<1> QED BY <1>2, <1>3, <1>4, <1>5

\* The new detail request is the only one, or the requests are crossed.
LEMMA StartEditStep == ASSUME IndInv, NEW r \in Roles, StartEdit(r) PROVE IndInv'
<1>1. RolesInv /\ UsersInv /\ Counters BY Parts
<1>2. /\ rp' = [rp EXCEPT !.editing = r] /\ details' = Append(details, [role |-> r, reply |-> None])
      /\ crossed' = (crossed \/ details # << >>) /\ Person
      /\ UNCHANGED <<stored, accounts, up, shown, removed>>
  BY DEF StartEdit
<1>3. rp' \in RolesPage /\ rp'.editing = r /\ rp'.task = rp.task BY <1>1, <1>2 DEF RolesInv, RolesPage, MaybeRole
<1>4. [role |-> r, reply |-> None] \in Detail /\ [role |-> r, reply |-> None].role = r BY DEF Detail
<1>5. PICK d \in Detail : d = [role |-> r, reply |-> None] /\ d.role = r BY <1>4
<1>6. details \in Seq(Detail) /\ details' = Append(details, d) /\ details' \in Seq(Detail) BY <1>1, <1>2, <1>5 DEF RolesInv
<1>7. DetailOK'
  <2> SUFFICES ASSUME ~crossed' PROVE Len(details') <= 1 /\ details' # << >> /\ details'[1].role = r
    BY <1>3 DEF DetailOK
  <2>1. details = << >> BY <1>2, Zenon
  <2>2. details' = << d >> BY <1>6, <2>1
  <2> QED BY <1>5, <2>2
<1>8. crossed' \in BOOLEAN /\ removed' \in BOOLEAN BY <1>1, <1>2 DEF RolesInv
<1>9. RolesInv' BY <1>1, <1>2, <1>3, <1>6, <1>7, <1>8, SameSave DEF RolesInv
<1>10. Counters' /\ UsersInv' BY <1>1, <1>2, CountersKept, UsersFrame
<1> QED BY <1>9, <1>10, PartsNext

\* What is left of the detail requests when one is answered.
LEMMA DroppedFacts ==
    ASSUME details \in Seq(Detail), NEW i \in DOMAIN details
    PROVE  Dropped(i) \in Seq(Detail) /\ (Len(details) <= 1 => i = 1 /\ Dropped(i) = << >>)
<1>1. Len(details) \in Nat /\ DOMAIN details = 1..Len(details) /\ i \in 1..Len(details) OBVIOUS
<1>2. SubSeq(details, 1, i - 1) \in Seq(Detail) BY <1>1, SubSeqProperties
<1>3. SubSeq(details, i + 1, Len(details)) \in Seq(Detail) BY <1>1, SubSeqProperties
<1>4. Dropped(i) \in Seq(Detail) BY <1>2, <1>3 DEF Dropped
<1>5. ASSUME Len(details) <= 1 PROVE i = 1 /\ Dropped(i) = << >>
  <2>1. i = 1 /\ Len(details) = 1 BY <1>1, <1>5
  <2>2. SubSeq(details, 1, i - 1) = << >> BY <2>1, SubSeqEmpty
  <2>3. SubSeq(details, i + 1, Len(details)) = << >> BY <2>1, SubSeqEmpty
  <2> QED BY <2>1, <2>2, <2>3 DEF Dropped
<1> QED BY <1>4, <1>5

LEMMA DetailReadStep == ASSUME IndInv, NEW i \in DOMAIN details, DetailRead(i) PROVE IndInv'
<1>1. RolesInv /\ UsersInv /\ Counters BY Parts
<1>2. /\ details' = [details EXCEPT ![i].reply = stored[details[i].role]] /\ stored[details[i].role] # Absent
      /\ System /\ UNCHANGED <<stored, accounts, rp, up, shown, crossed, removed>>
  BY DEF DetailRead
<1>3. details \in Seq(Detail) /\ details[i] \in Detail /\ DOMAIN details = 1..Len(details) BY <1>1 DEF RolesInv
<1>4. details[i].role \in Roles BY <1>3 DEF Detail
<1>5. stored[details[i].role] \in SUBSET Perms BY <1>1, <1>2, <1>4 DEF RolesInv
<1>6. PICK d : d = [details[i] EXCEPT !.reply = stored[details[i].role]] OBVIOUS
<1>7. d \in Detail /\ d.role = details[i].role BY <1>3, <1>5, <1>6 DEF Detail
<1>8. details' = [details EXCEPT ![i] = d] BY <1>2, <1>6
<1>9. details' \in Seq(Detail) /\ Len(details') = Len(details) /\ (details' = << >> <=> details = << >>)
      /\ \A j \in DOMAIN details : details'[j].role = details[j].role
  BY <1>3, <1>7, <1>8
<1>10. DetailOK'
  <2>1. details # << >> => details'[1].role = details[1].role BY <1>3, <1>9
  <2> QED BY <1>1, <1>2, <1>9, <2>1 DEF RolesInv, DetailOK
<1>11. RolesInv' BY <1>1, <1>2, <1>9, <1>10, SameSave DEF RolesInv
<1>12. Counters' /\ UsersInv' BY <1>1, <1>2, CountersKept, UsersFrame
<1> QED BY <1>11, <1>12, PartsNext

LEMMA DetailArrivesStep == ASSUME IndInv, NEW i \in DOMAIN details, DetailArrives(i) PROVE IndInv'
<1>1. RolesInv /\ UsersInv /\ Counters BY Parts
<1>2. /\ details[i].reply # None /\ rp' = [rp EXCEPT !.editPerms = details[i].reply]
      /\ shown' = details[i].role /\ details' = Dropped(i)
      /\ System /\ UNCHANGED <<stored, accounts, up, crossed, removed>>
  BY DEF DetailArrives
<1>3. details \in Seq(Detail) /\ details[i] \in Detail BY <1>1 DEF RolesInv
<1>4. details[i].role \in Roles /\ details[i].reply \in SUBSET Perms BY <1>2, <1>3 DEF Detail
<1>5. rp' \in RolesPage /\ rp'.editing = rp.editing /\ rp'.task = rp.task BY <1>1, <1>2, <1>4 DEF RolesInv, RolesPage
<1>6. details' \in Seq(Detail) /\ (Len(details) <= 1 => i = 1 /\ details' = << >>) BY <1>2, <1>3, DroppedFacts
<1>7. DetailOK'
  <2> SUFFICES ASSUME ~crossed PROVE Len(details') <= 1 /\ details' = << >>
                                     /\ (rp.editing # None => shown' = rp.editing)
    BY <1>2, <1>5 DEF DetailOK
  <2>1. details' = << >> /\ i = 1 /\ details # << >> BY <1>1, <1>3, <1>6 DEF RolesInv, DetailOK
  <2>2. rp.editing # None => details[1].role = rp.editing BY <1>1, <2>1 DEF RolesInv, DetailOK
  <2> QED BY <1>2, <2>1, <2>2
<1>8. RolesInv' BY <1>1, <1>2, <1>4, <1>5, <1>6, <1>7, SameSave DEF RolesInv, MaybeRole
<1>9. Counters' /\ UsersInv' BY <1>1, <1>2, CountersKept, UsersFrame
<1> QED BY <1>8, <1>9, PartsNext

LEMMA DetailFailsStep == ASSUME IndInv, NEW i \in DOMAIN details, DetailFails(i) PROVE IndInv'
<1>1. RolesInv /\ UsersInv /\ Counters BY Parts
<1>2. /\ rp' = [rp EXCEPT !.editPerms = {}] /\ crossed' = TRUE /\ details' = Dropped(i)
  BY DEF DetailFails
<1>3. rp' \in RolesPage /\ rp'.task = rp.task BY <1>1, <1>2 DEF RolesInv, RolesPage
<1>4. details' \in Seq(Detail) BY <1>1, <1>2, DroppedFacts DEF RolesInv
<1>5. UNCHANGED <<stored, accounts, up, shown, removed>> BY DEF DetailFails
<1>6. Fault \/ System BY DEF DetailFails
<1>7. RolesInv' BY <1>1, <1>2, <1>3, <1>4, <1>5, SameSave DEF RolesInv, DetailOK
<1>8. Counters' /\ UsersInv' BY <1>1, <1>5, <1>6, CountersKept, UsersFrame
<1> QED BY <1>7, <1>8, PartsNext

-----------------------------------------------------------------------------
(* Saving and deleting a role *)

LEMMA RoleTaskFacts ==
    ASSUME RolesInv, rp.task # None
    PROVE  /\ rp.task \in RoleTask /\ rp.task.kind \in {"create", "edit"} /\ rp.task.role \in Roles
           /\ rp.task.perms \in SUBSET Perms /\ rp.task.step \in {1, 2}
           /\ rp.task.done \in BOOLEAN /\ rp.task.gone \in BOOLEAN
           /\ stored[rp.task.role] \in {Absent} \cup SUBSET Perms
<1>1. rp.task \in RoleTask BY RpFacts
<1>2. rp.task.role \in Roles BY <1>1 DEF RoleTask
<1>3. 1..2 = {1, 2} OBVIOUS
<1> QED BY <1>1, <1>2, <1>3 DEF RoleTask, RolesInv

LEMMA RoleSavedFacts ==
    ASSUME RolesInv
    PROVE  /\ RoleSaved \in RolesPage /\ RoleSaved.editing \in {rp.editing, None}
           /\ RoleSaved.task = None /\ RoleSaved.loads = rp.loads + 1
<1>1. rp \in RolesPage BY DEF RolesInv
<1>2. PICK page : page = Load(rp) OBVIOUS
<1>3. page \in RolesPage /\ page.editing = rp.editing /\ page.loads = rp.loads + 1 BY <1>1, <1>2, LoadFacts
<1>4. RoleSaved = [page EXCEPT !.task = None, !.editing = IF rp.task.kind = "edit" THEN None ELSE @]
  BY <1>2 DEF RoleSaved
<1> QED BY <1>3, <1>4 DEF RolesPage, MaybeRole

\* A role that is stored with other permissions.
LEMMA StoredFacts ==
    ASSUME RolesInv, NEW r \in Roles, NEW perms \in SUBSET Perms
    PROVE  LET new == [stored EXCEPT ![r] = perms] IN
           /\ new \in [Roles -> {Absent} \cup SUBSET Perms] /\ new[r] = perms
           /\ \A q \in Roles : stored[q] # Absent => new[q] # Absent
BY AccessConstants DEF RolesInv

\* The API has carried out a request of the save.
LEMMA RoleDoneFacts ==
    ASSUME RolesInv, rp.task # None, rp' = [rp EXCEPT !.task.done = TRUE]
    PROVE  /\ rp' \in RolesPage /\ rp'.editing = rp.editing /\ rp'.loads = rp.loads
           /\ rp'.task # None /\ rp'.task.done = TRUE /\ rp'.task.step = rp.task.step
           /\ rp'.task.kind = rp.task.kind /\ rp'.task.role = rp.task.role
           /\ rp'.task.perms = rp.task.perms /\ rp'.task.gone = rp.task.gone
<1>1. PICK t : t = [rp.task EXCEPT !.done = TRUE] OBVIOUS
<1>2. /\ t \in RoleTask /\ t.done = TRUE /\ t.step = rp.task.step /\ t.kind = rp.task.kind
      /\ t.role = rp.task.role /\ t.perms = rp.task.perms /\ t.gone = rp.task.gone
  BY <1>1, RoleTaskFacts DEF RoleTask
<1>3. rp' = [rp EXCEPT !.task = t] BY <1>1 DEF RolesInv, RolesPage
<1>4. t # None BY <1>2, Markers
<1> QED BY <1>2, <1>3, <1>4 DEF RolesInv, RolesPage

\* The page sends the second request of the save.
LEMMA RoleAdvanceFacts ==
    ASSUME RolesInv, rp.task # None, rp' = [rp EXCEPT !.task.step = 2, !.task.done = FALSE]
    PROVE  /\ rp' \in RolesPage /\ rp'.editing = rp.editing /\ rp'.loads = rp.loads
           /\ rp'.task # None /\ rp'.task.done = FALSE /\ rp'.task.step = 2
           /\ rp'.task.role = rp.task.role /\ rp'.task.gone = rp.task.gone
<1>1. PICK t : t = [rp.task EXCEPT !.step = 2, !.done = FALSE] OBVIOUS
<1>2. t \in RoleTask /\ t.done = FALSE /\ t.step = 2 /\ t.role = rp.task.role /\ t.gone = rp.task.gone
  <2>1. rp.task \in RoleTask /\ 2 \in 1..2 BY RoleTaskFacts
  <2> QED BY <1>1, <2>1 DEF RoleTask
<1>3. rp' = [rp EXCEPT !.task = t] BY <1>1 DEF RolesInv, RolesPage
<1>4. t # None BY <1>2, Markers
<1> QED BY <1>2, <1>3, <1>4 DEF RolesInv, RolesPage

LEMMA RoleStep1Step == ASSUME IndInv, RoleStep1 PROVE IndInv'
<1>1. RolesInv BY Parts
<1>2. /\ rp.task # None /\ rp.task.step = 1 /\ rp' = [rp EXCEPT !.task.done = TRUE]
      /\ System /\ UNCHANGED <<accounts, details, up, shown, crossed, removed>>
  BY DEF RoleStep1
<1>3. PICK t : t = rp.task OBVIOUS
<1>4. t.role \in Roles /\ t.kind \in {"create", "edit"} BY <1>1, <1>2, <1>3, RoleTaskFacts
<1>5. /\ stored' \in [Roles -> {Absent} \cup SUBSET Perms]
      /\ \A r \in Roles : stored[r] # Absent => stored'[r] # Absent
      /\ stored'[t.role] # Absent /\ (t.kind = "create" => stored'[t.role] = {})
  <2>1. CASE t.kind = "create"
    <3>1. stored' = [stored EXCEPT ![t.role] = {}] BY <1>3, <2>1 DEF RoleStep1
    <3> QED BY <1>1, <1>4, <3>1, StoredFacts, AccessConstants
  <2>2. CASE t.kind # "create"
    <3>1. stored' = stored /\ stored[t.role] # Absent BY <1>3, <2>2 DEF RoleStep1
    <3> QED BY <1>1, <2>2, <3>1 DEF RolesInv
  <2> QED BY <2>1, <2>2
<1>6. /\ rp' \in RolesPage /\ rp'.editing = rp.editing /\ rp'.task.step = 1
      /\ rp'.task.kind = t.kind /\ rp'.task.role = t.role
  BY <1>1, <1>2, <1>3, RoleDoneFacts
<1>7. SaveOK' BY <1>5, <1>6 DEF SaveOK
<1> QED BY <1>2, <1>5, <1>6, <1>7, RolesOnly

LEMMA RoleStep2Step == ASSUME IndInv, RoleStep2 PROVE IndInv'
<1>1. RolesInv BY Parts
<1>2. PICK t : t = rp.task OBVIOUS
<1>3. /\ t # None /\ t.step = 2 /\ rp' = [rp EXCEPT !.task.done = TRUE]
      /\ stored' = [stored EXCEPT ![t.role] = t.perms]
      /\ System /\ UNCHANGED <<accounts, details, up, shown, crossed, removed>>
  BY <1>2 DEF RoleStep2
<1>4. t.role \in Roles /\ t.perms \in SUBSET Perms BY <1>1, <1>2, <1>3, RoleTaskFacts
<1>5. /\ stored' \in [Roles -> {Absent} \cup SUBSET Perms] /\ stored'[t.role] = t.perms /\ t.perms # Absent
      /\ \A r \in Roles : stored[r] # Absent => stored'[r] # Absent
  <2>1. t.perms # Absent BY <1>4, AccessConstants
  <2> QED BY <1>1, <1>3, <1>4, <2>1 DEF RolesInv
<1>6. /\ rp' \in RolesPage /\ rp'.editing = rp.editing /\ rp'.task.step = 2
      /\ rp'.task.role = t.role /\ rp'.task.perms = t.perms
  BY <1>1, <1>2, <1>3, RoleDoneFacts
<1>7. SaveOK' BY <1>5, <1>6 DEF SaveOK
<1> QED BY <1>3, <1>5, <1>6, <1>7, RolesOnly

LEMMA RoleStep2EmptyStep == ASSUME IndInv, RoleStep2Empty PROVE IndInv'
<1>1. RolesInv BY Parts
<1>2. PICK t : t = rp.task OBVIOUS
<1>3. /\ t # None /\ t.step = 2 /\ stored[t.role] = Absent /\ rp' = [rp EXCEPT !.task.done = TRUE]
      /\ System /\ UNCHANGED <<stored, accounts, details, up, shown, crossed, removed>>
  BY <1>2 DEF RoleStep2Empty
<1>4. /\ rp' \in RolesPage /\ rp'.editing = rp.editing /\ rp'.task.step = 2
      /\ rp'.task.role = t.role /\ rp'.task.gone = t.gone
  BY <1>1, <1>2, <1>3, RoleDoneFacts
<1>5. t.gone BY <1>1, <1>2, <1>3 DEF RolesInv, SaveOK
<1>6. SaveOK' BY <1>3, <1>4, <1>5 DEF SaveOK
<1> QED BY <1>1, <1>3, <1>4, <1>6, RolesOnly DEF RolesInv

LEMMA RoleAnsweredStep == ASSUME IndInv, RoleAnswered PROVE IndInv'
<1>1. RolesInv BY Parts
<1>2. /\ rp.task # None /\ rp.task.done
      /\ System /\ UNCHANGED <<stored, accounts, details, up, shown, crossed, removed>>
  BY DEF RoleAnswered
<1>3. rp' = RoleSaved \/ rp' = [rp EXCEPT !.task.step = 2, !.task.done = FALSE] BY DEF RoleAnswered
<1>4. CASE rp' = RoleSaved
  <2>1. rp' \in RolesPage /\ rp'.editing \in {rp.editing, None} /\ rp'.task = None BY <1>1, <1>4, RoleSavedFacts
  <2> QED BY <1>1, <1>2, <2>1, SameSave, RolesOnly DEF RolesInv
<1>5. CASE rp' = [rp EXCEPT !.task.step = 2, !.task.done = FALSE]
  <2>1. /\ rp' \in RolesPage /\ rp'.editing = rp.editing /\ rp'.task.done = FALSE
        /\ rp'.task.role = rp.task.role /\ rp'.task.gone = rp.task.gone
    BY <1>1, <1>2, <1>5, RoleAdvanceFacts
  <2>2. stored[rp.task.role] # Absent \/ rp.task.gone BY <1>1, <1>2 DEF RolesInv, SaveOK
  <2>3. SaveOK' BY <1>2, <2>1, <2>2 DEF SaveOK
  <2> QED BY <1>1, <1>2, <2>1, <2>3, RolesOnly DEF RolesInv
<1> QED BY <1>3, <1>4, <1>5

LEMMA RoleTaskFailsStep == ASSUME IndInv, RoleTaskFails PROVE IndInv'
<1>1. RolesInv BY Parts
<1>2. /\ System \/ Fault
      /\ rp' = [rp EXCEPT !.task = None] /\ UNCHANGED <<stored, accounts, details, up, shown, crossed, removed>>
  BY DEF RoleTaskFails
<1>3. rp' \in RolesPage /\ rp'.editing = rp.editing /\ rp'.task = None BY <1>1, <1>2 DEF RolesInv, RolesPage
<1> QED BY <1>1, <1>2, <1>3, SameSave, RolesOnly DEF RolesInv

LEMMA DeleteRoleFailsStep == ASSUME IndInv, DeleteRoleFails PROVE IndInv'
<1>1. RolesInv BY Parts
<1>2. /\ rp' = [rp EXCEPT !.deleting = None, !.deleted = FALSE]
      /\ UNCHANGED <<stored, accounts, details, up, shown, crossed, removed>>
  BY DEF DeleteRoleFails
<1>3. System \/ Fault BY DEF DeleteRoleFails
<1>4. rp' \in RolesPage /\ rp'.editing = rp.editing /\ rp'.task = rp.task
  BY <1>1, <1>2 DEF RolesInv, RolesPage, MaybeRole
<1> QED BY <1>1, <1>2, <1>3, <1>4, SameSave, RolesOnly DEF RolesInv

LEMMA DeleteRoleAnsweredStep == ASSUME IndInv, DeleteRoleAnswered PROVE IndInv'
<1>1. RolesInv BY Parts
<1>2. System /\ UNCHANGED <<stored, accounts, details, up, shown, crossed, removed>> BY DEF DeleteRoleAnswered
<1>3. PICK page : page = Load(rp) OBVIOUS
<1>4. page \in RolesPage /\ page.editing = rp.editing /\ page.task = rp.task
  BY <1>1, <1>3, LoadFacts DEF RolesInv
<1>5. rp' = [page EXCEPT !.deleting = None, !.deleted = FALSE] BY <1>3 DEF DeleteRoleAnswered
<1>6. rp' \in RolesPage /\ rp'.editing = rp.editing /\ rp'.task = rp.task BY <1>4, <1>5 DEF RolesPage, MaybeRole
<1> QED BY <1>1, <1>2, <1>6, SameSave, RolesOnly DEF RolesInv

\* A deleted role disappears from all accounts.
LEMMA RoleDeletedStep == ASSUME IndInv, RoleDeleted PROVE IndInv'
<1>1. RolesInv /\ UsersInv /\ Counters BY Parts
<1>2. /\ rp.deleting # None /\ stored' = [stored EXCEPT ![rp.deleting] = Absent]
      /\ accounts' = [e \in Emails |->
            IF accounts[e] = Absent THEN Absent
            ELSE [accounts[e] EXCEPT !.roles = {a \in @ : a[1] # rp.deleting}]]
      /\ removed' = TRUE /\ System
      /\ UNCHANGED <<details, up, shown, crossed>>
  BY DEF RoleDeleted
<1>3. /\ rp' \in RolesPage /\ rp'.editing = rp.editing
      /\ SaveOK'
  <2>1. CASE rp.task # None /\ rp.task.role = rp.deleting
    <3>1. rp' = [rp EXCEPT !.deleted = TRUE, !.task.gone = TRUE] BY <2>1 DEF RoleDeleted
    <3>2. PICK t : t = [rp.task EXCEPT !.gone = TRUE] OBVIOUS
    <3>3. t \in RoleTask /\ t.role = rp.deleting /\ t.gone = TRUE
      BY <1>1, <2>1, <3>2, RoleTaskFacts DEF RoleTask
    <3>4. rp' = [rp EXCEPT !.deleted = TRUE, !.task = t] BY <1>1, <3>1, <3>2 DEF RolesInv, RolesPage
    <3>5. rp' \in RolesPage /\ rp'.editing = rp.editing /\ rp'.task = t
      BY <1>1, <3>3, <3>4 DEF RolesInv, RolesPage
    <3>6. stored'[rp.deleting] = Absent BY <1>1, <1>2, RpFacts DEF RolesInv, MaybeRole
    <3> QED BY <3>3, <3>5, <3>6 DEF SaveOK
  <2>2. CASE rp.task = None \/ rp.task.role # rp.deleting
    <3>1. rp' = [rp EXCEPT !.deleted = TRUE] BY <2>2 DEF RoleDeleted
    <3>2. rp' \in RolesPage /\ rp'.editing = rp.editing /\ rp'.task = rp.task
      BY <1>1, <3>1 DEF RolesInv, RolesPage
    <3>3. rp.task # None => stored'[rp.task.role] = stored[rp.task.role]
      BY <1>1, <1>2, <2>2, RoleTaskFacts DEF RolesInv
    <3> QED BY <1>1, <3>2, <3>3 DEF RolesInv, SaveOK
  <2> QED BY <2>1, <2>2
<1>4. stored' \in [Roles -> {Absent} \cup SUBSET Perms] BY <1>1, <1>2, RpFacts DEF RolesInv, MaybeRole
<1>5. RolesInv' BY <1>1, <1>2, <1>3, <1>4, SameDetails
<1>6. Counters' /\ faults' = faults BY <1>1, <1>2, CountersKept DEF System
<1>7. ASSUME NEW e \in Emails, accounts[e] # Absent
      PROVE  /\ accounts[e] \in Account /\ accounts'[e] \in Account
             /\ accounts'[e].platform = accounts[e].platform /\ accounts'[e].tenant = accounts[e].tenant
             /\ accounts'[e].roles \subseteq accounts[e].roles
  <2>1. accounts[e] \in Account BY <1>1, <1>7 DEF UsersInv
  <2>2. accounts'[e] = [accounts[e] EXCEPT !.roles = {a \in accounts[e].roles : a[1] # rp.deleting}]
    BY <1>2, <1>7, <2>1 DEF Account
  <2>3. {a \in accounts[e].roles : a[1] # rp.deleting} \subseteq accounts[e].roles OBVIOUS
  <2> QED BY <2>1, <2>2, <2>3 DEF Account
<1>8. \A e \in Emails : accounts[e] = Absent => accounts'[e] = Absent BY <1>2
<1>9. accounts' \in [Emails -> {Absent} \cup Account]
  <2>1. \A e \in Emails : accounts'[e] \in {Absent} \cup Account BY <1>7, <1>8
  <2>2. accounts' = [e \in Emails |-> accounts'[e]] BY <1>2, Zenon
  <2> QED BY <2>1, <2>2
<1>10. \A e \in Emails :
         \/ accounts'[e] = accounts[e]
         \/ /\ accounts'[e] \in Account
            /\ accounts'[e].platform = accounts[e].platform /\ accounts'[e].tenant = accounts[e].tenant
            /\ accounts'[e].roles \subseteq accounts[e].roles
  BY <1>7, <1>8
<1>11. KnownOK'
  <2>1. \A e \in Emails : accounts[e] \in Account => accounts'[e] \in Account BY <1>10
  <2>2. up.running # None => up.running[1] \in Emails BY <1>1, UpFacts
  <2>3. up.task # None => up.task.email \in Emails BY <1>1, TaskFacts
  <2> QED BY <1>1, <1>2, <2>1, <2>2, <2>3 DEF UsersInv, KnownOK
<1>12. TaskOK'
  <2> SUFFICES ASSUME up.task # None
               PROVE  IF up.task.kind = "create" THEN CreationOK(up.task)' ELSE ChangeOK(up.task)'
    BY <1>2 DEF TaskOK
  <2>1. PICK t : t = up.task /\ t.email \in Emails BY <1>1, TaskFacts
  <2>2. CASE t.kind = "create"
    <3>1. CreationOK(t) BY <1>1, <2>1, <2>2 DEF UsersInv, TaskOK
    <3>2. CreationOK(t)' BY <1>6, <1>10, <2>1, <3>1 DEF CreationOK, Suits, Made
    <3> QED BY <1>2, <2>1, <2>2, <3>2 DEF CreationOK, Suits, Made
  <2>3. CASE t.kind # "create"
    <3>1. ChangeOK(t) BY <1>1, <2>1, <2>3 DEF UsersInv, TaskOK
    <3>2. ChangeOK(t)' BY <1>10, <2>1, <3>1 DEF ChangeOK
    <3> QED BY <1>2, <2>1, <2>3, <3>2 DEF ChangeOK
  <2> QED BY <2>2, <2>3
<1>13. FitsOK' BY <1>1, <1>7, <1>8 DEF UsersInv, FitsOK, Fits
<1>14. ExistOK' /\ CompleteOK' /\ FormOK' BY <1>1, <1>2 DEF UsersInv, ExistOK, CompleteOK, FormOK
<1>15. UsersInv' BY <1>1, <1>2, <1>9, <1>11, <1>12, <1>13, <1>14 DEF UsersInv
<1> QED BY <1>5, <1>6, <1>15, PartsNext

-----------------------------------------------------------------------------
(* The Users page *)

LEMMA UsersOnly ==
    ASSUME IndInv, UNCHANGED <<stored, rp, details, shown, crossed, removed>>, Person \/ Fault \/ System, UsersInv'
    PROVE  IndInv'
BY Parts, RolesFrame, CountersKept, PartsNext

\* A load that starts, and one that ends.
LEMMA UserLoadFacts ==
    ASSUME NEW page \in UsersPage
    PROVE  /\ Load(page) \in UsersPage /\ Load(page).items = page.items /\ Load(page).roles = page.roles
           /\ Load(page).scope = page.scope /\ Load(page).tenant = page.tenant /\ Load(page).role = page.role
           /\ Load(page).task = page.task /\ Load(page).running = page.running
           /\ page.loads > 0 =>
                /\ Loaded(page) \in UsersPage /\ Loaded(page).items = page.items /\ Loaded(page).roles = page.roles
                /\ Loaded(page).scope = page.scope /\ Loaded(page).tenant = page.tenant
                /\ Loaded(page).role = page.role /\ Loaded(page).task = page.task
                /\ Loaded(page).running = page.running
<1>1. page.loads \in Nat /\ page.loads + 1 \in Nat /\ (page.loads > 0 => page.loads - 1 \in Nat)
  BY DEF UsersPage
<1>2. /\ Load(page) \in UsersPage /\ Load(page).items = page.items /\ Load(page).roles = page.roles
      /\ Load(page).scope = page.scope /\ Load(page).tenant = page.tenant /\ Load(page).role = page.role
      /\ Load(page).task = page.task /\ Load(page).running = page.running
  BY <1>1 DEF UsersPage, Load
<1>3. page.loads > 0 =>
        /\ Loaded(page) \in UsersPage /\ Loaded(page).items = page.items /\ Loaded(page).roles = page.roles
        /\ Loaded(page).scope = page.scope /\ Loaded(page).tenant = page.tenant
        /\ Loaded(page).role = page.role /\ Loaded(page).task = page.task
        /\ Loaded(page).running = page.running
  BY <1>1 DEF UsersPage, Loaded
<1> QED BY <1>2, <1>3

\* A step that leaves the accounts and the task alone: what is listed, chosen and
\* running may change.
LEMMA SameTask ==
    ASSUME IndInv, UNCHANGED <<accounts, stored, removed>>, Person \/ Fault \/ System,
           up' \in UsersPage, up'.task = up.task,
           \A e \in Emails : up'.items[e] # Absent => accounts[e] \in Account,
           up'.running # None => accounts[up'.running[1]] \in Account,
           ~removed => up'.roles \subseteq StoredRoles /\ up'.role \in StoredRoles \cup {None},
           FormOK'
    PROVE  UsersInv'
<1>1. RolesInv /\ UsersInv /\ Counters BY Parts
<1>2. faults \in Nat /\ faults' \in Nat /\ faults <= faults' BY <1>1, CountersKept
<1>3. KnownOK' BY <1>1 DEF UsersInv, KnownOK
<1>4. ExistOK' BY <1>1 DEF UsersInv, ExistOK, StoredRoles
<1>5. TaskOK'
  <2>1. faults' = 0 => faults = 0 BY <1>2
  <2> QED BY <1>1, <2>1 DEF UsersInv, TaskOK, CreationOK, ChangeOK, Suits, Made
<1>6. FitsOK' BY <1>1 DEF UsersInv, FitsOK, Fits
<1>7. CompleteOK'
  <2>1. faults > 0 => faults' > 0 BY <1>2
  <2> QED BY <1>1, <2>1 DEF UsersInv, CompleteOK, Incomplete, Creating, Made
<1> QED BY <1>1, <1>3, <1>4, <1>5, <1>6, <1>7 DEF UsersInv

LEMMA UsersListedStep == ASSUME IndInv, UsersListed PROVE IndInv'
<1>1. UsersInv /\ up \in UsersPage BY Parts DEF UsersInv
<1>2. PICK page : page = Loaded(up) OBVIOUS
<1>3. /\ page \in UsersPage /\ page.task = up.task /\ page.running = up.running
      /\ page.scope = up.scope /\ page.tenant = up.tenant /\ page.role = up.role
  BY <1>1, <1>2, UserLoadFacts DEF UsersListed
<1>4. \A e \in Emails : StatusOf(e) \in Statuses \cup {Absent} /\ (StatusOf(e) # Absent => accounts[e] \in Account)
  <2>1. \A e \in Emails : accounts[e] \in {Absent} \cup Account BY <1>1 DEF UsersInv
  <2>2. \A x \in Account : x.status \in Statuses BY DEF Account
  <2> QED BY <2>1, <2>2 DEF StatusOf
<1>5. PICK items : items = [e \in Emails |-> StatusOf(e)] OBVIOUS
<1>6. /\ items \in [Emails -> Statuses \cup {Absent}]
      /\ \A e \in Emails : items[e] # Absent => accounts[e] \in Account
  BY <1>4, <1>5
<1>7. StoredRoles \subseteq Roles BY DEF StoredRoles
<1>8. up' = [page EXCEPT !.items = items, !.roles = StoredRoles] BY <1>2, <1>5 DEF UsersListed
<1>9. /\ up' \in UsersPage /\ up'.task = up.task /\ up'.running = up.running /\ up'.items = items
      /\ up'.roles = StoredRoles /\ up'.scope = up.scope /\ up'.tenant = up.tenant /\ up'.role = up.role
  BY <1>3, <1>6, <1>7, <1>8 DEF UsersPage
<1>10. FormOK' BY <1>1, <1>9 DEF UsersInv, FormOK
<1>11. UNCHANGED <<stored, accounts, rp, details, shown, crossed, removed>> /\ System BY DEF UsersListed
<1>12. UsersInv'
  <2>1. up'.running # None => accounts[up'.running[1]] \in Account BY <1>1, <1>9 DEF UsersInv, KnownOK
  <2>2. ~removed => up'.roles \subseteq StoredRoles /\ up'.role \in StoredRoles \cup {None}
    BY <1>1, <1>9 DEF UsersInv, ExistOK
  <2> QED BY <1>6, <1>9, <1>10, <1>11, <2>1, <2>2, SameTask
<1> QED BY <1>11, <1>12, UsersOnly

\* A step that changes neither the lists nor what is running.
LEMMA ChoiceStep ==
    ASSUME IndInv, UNCHANGED <<stored, accounts, rp, details, shown, crossed, removed>>, Person \/ Fault \/ System,
           up' \in UsersPage, up'.task = up.task, up'.running = up.running, up'.items = up.items,
           up'.roles = up.roles, up'.role \in {up.role, None} \cup up.roles, FormOK'
    PROVE  IndInv'
<1>1. UsersInv BY Parts
<1>2. \A e \in Emails : up'.items[e] # Absent => accounts[e] \in Account BY <1>1 DEF UsersInv, KnownOK
<1>3. up'.running # None => accounts[up'.running[1]] \in Account BY <1>1 DEF UsersInv, KnownOK
<1>4. ~removed => up'.roles \subseteq StoredRoles /\ up'.role \in StoredRoles \cup {None}
  BY <1>1 DEF UsersInv, ExistOK
<1>5. UsersInv' BY <1>2, <1>3, <1>4, SameTask
<1> QED BY <1>5, UsersOnly

LEMMA UserListFailsStep == ASSUME IndInv, UserListFails PROVE IndInv'
<1>1. UsersInv /\ up \in UsersPage BY Parts DEF UsersInv
<1>2. /\ up' \in UsersPage /\ up'.task = up.task /\ up'.running = up.running /\ up'.items = up.items
      /\ up'.roles = up.roles /\ up'.scope = up.scope /\ up'.tenant = up.tenant /\ up'.role = up.role
  BY <1>1, UserLoadFacts DEF UserListFails
<1>3. FormOK' BY <1>1, <1>2 DEF UsersInv, FormOK
<1> QED BY <1>2, <1>3, ChoiceStep DEF UserListFails

LEMMA ChooseScopeStep == ASSUME IndInv, NEW s \in Scopes, ChooseScope(s) PROVE IndInv'
<1>1. UsersInv /\ up \in UsersPage BY Parts DEF UsersInv
<1>2. up' = [up EXCEPT !.scope = s, !.tenant = None, !.role = None] /\ EditsForm BY DEF ChooseScope
<1>3. /\ up' \in UsersPage /\ up'.task = up.task /\ up'.running = up.running /\ up'.items = up.items
      /\ up'.roles = up.roles /\ up'.tenant = None /\ up'.role = None
  BY <1>1, <1>2 DEF UsersPage, MaybeRole
<1>4. FormOK' BY <1>3 DEF FormOK
<1> QED BY <1>2, <1>3, <1>4, ChoiceStep DEF EditsForm

LEMMA ChooseTenantStep == ASSUME IndInv, NEW t \in Tenants, ChooseTenant(t) PROVE IndInv'
<1>1. UsersInv /\ up \in UsersPage BY Parts DEF UsersInv
<1>2. up.scope = "tenant" /\ up' = [up EXCEPT !.tenant = t, !.role = None] /\ EditsForm BY DEF ChooseTenant
<1>3. /\ up' \in UsersPage /\ up'.task = up.task /\ up'.running = up.running /\ up'.items = up.items
      /\ up'.roles = up.roles /\ up'.scope = "tenant" /\ up'.role = None
  BY <1>1, <1>2 DEF UsersPage, MaybeRole
<1>4. FormOK' BY <1>3 DEF FormOK
<1> QED BY <1>2, <1>3, <1>4, ChoiceStep DEF EditsForm

LEMMA ChooseRoleStep == ASSUME IndInv, NEW r \in Roles, ChooseRole(r) PROVE IndInv'
<1>1. UsersInv /\ up \in UsersPage BY Parts DEF UsersInv
<1>2. r \in CreateRoleOptions /\ up' = [up EXCEPT !.role = r] /\ EditsForm BY DEF ChooseRole
<1>3. /\ up' \in UsersPage /\ up'.task = up.task /\ up'.running = up.running /\ up'.items = up.items
      /\ up'.roles = up.roles /\ up'.scope = up.scope /\ up'.tenant = up.tenant /\ up'.role = r
  BY <1>1, <1>2 DEF UsersPage, MaybeRole
<1>4. r \in up.roles BY <1>2 DEF CreateRoleOptions
<1>5. FormOK' BY <1>1, <1>2, <1>3 DEF UsersInv, FormOK, CreateRoleOptions
<1> QED BY <1>2, <1>3, <1>4, <1>5, ChoiceStep DEF EditsForm

LEMMA RunStep ==
    ASSUME IndInv, NEW e \in Emails, ToggleUserStatus(e) \/ DeleteUser(e) PROVE IndInv'
<1>1. UsersInv /\ up \in UsersPage BY Parts DEF UsersInv
<1>2. PICK s \in Statuses \cup {"delete"} : up' = [up EXCEPT !.running = <<e, s>>]
  BY DEF ToggleUserStatus, DeleteUser, Statuses
<1>3. /\ up' \in UsersPage /\ up'.task = up.task /\ up'.running = <<e, s>> /\ up'.items = up.items
      /\ up'.roles = up.roles /\ up'.scope = up.scope /\ up'.tenant = up.tenant /\ up'.role = up.role
  BY <1>1, <1>2 DEF UsersPage
<1>4. EditsForm /\ up.items[e] # Absent BY DEF ToggleUserStatus, DeleteUser
<1>5. accounts[e] \in Account BY <1>1, <1>4 DEF UsersInv, KnownOK
<1>6. FormOK' BY <1>1, <1>3 DEF UsersInv, FormOK
<1>7. UsersInv'
  <2>1. \A f \in Emails : up'.items[f] # Absent => accounts[f] \in Account BY <1>1, <1>3 DEF UsersInv, KnownOK
  <2>2. accounts[up'.running[1]] \in Account BY <1>3, <1>5
  <2>3. ~removed => up'.roles \subseteq StoredRoles /\ up'.role \in StoredRoles \cup {None}
    BY <1>1, <1>3 DEF UsersInv, ExistOK
  <2> QED BY <1>3, <1>4, <1>6, <2>1, <2>2, <2>3, SameTask DEF EditsForm
<1> QED BY <1>4, <1>7, UsersOnly DEF EditsForm

LEMMA UserChangeFailsStep == ASSUME IndInv, UserChangeFails PROVE IndInv'
<1>1. UsersInv /\ up \in UsersPage BY Parts DEF UsersInv
<1>2. /\ up' = [up EXCEPT !.running = None] /\ (System \/ Fault)
      /\ UNCHANGED <<stored, accounts, rp, details, shown, crossed, removed>>
  BY DEF UserChangeFails
<1>3. /\ up' \in UsersPage /\ up'.task = up.task /\ up'.running = None /\ up'.items = up.items
      /\ up'.roles = up.roles /\ up'.scope = up.scope /\ up'.tenant = up.tenant /\ up'.role = up.role
  BY <1>1, <1>2 DEF UsersPage
<1>4. FormOK' BY <1>1, <1>3 DEF UsersInv, FormOK
<1>5. UsersInv'
  <2>1. \A f \in Emails : up'.items[f] # Absent => accounts[f] \in Account BY <1>1, <1>3 DEF UsersInv, KnownOK
  <2>2. ~removed => up'.roles \subseteq StoredRoles /\ up'.role \in StoredRoles \cup {None}
    BY <1>1, <1>3 DEF UsersInv, ExistOK
  <2> QED BY <1>2, <1>3, <1>4, <2>1, <2>2, SameTask
<1> QED BY <1>2, <1>5, UsersOnly

LEMMA StatusAnsweredStep == ASSUME IndInv, StatusAnswered PROVE IndInv'
<1>1. UsersInv /\ up \in UsersPage BY Parts DEF UsersInv
<1>2. /\ up' = [Load(up) EXCEPT !.running = None] /\ System
      /\ UNCHANGED <<stored, accounts, rp, details, shown, crossed, removed>>
  BY DEF StatusAnswered
<1>3. /\ up' \in UsersPage /\ up'.task = up.task /\ up'.running = None /\ up'.items = up.items
      /\ up'.roles = up.roles /\ up'.scope = up.scope /\ up'.tenant = up.tenant /\ up'.role = up.role
  <2>1. PICK page : page = Load(up) OBVIOUS
  <2>2. /\ page \in UsersPage /\ page.task = up.task /\ page.items = up.items
        /\ page.roles = up.roles /\ page.scope = up.scope /\ page.tenant = up.tenant /\ page.role = up.role
    BY <1>1, <2>1, UserLoadFacts
  <2>3. up' = [page EXCEPT !.running = None] BY <1>2, <2>1
  <2> QED BY <2>2, <2>3 DEF UsersPage
<1>4. FormOK' BY <1>1, <1>3 DEF UsersInv, FormOK
<1>5. UsersInv'
  <2>1. \A f \in Emails : up'.items[f] # Absent => accounts[f] \in Account BY <1>1, <1>3 DEF UsersInv, KnownOK
  <2>2. ~removed => up'.roles \subseteq StoredRoles /\ up'.role \in StoredRoles \cup {None}
    BY <1>1, <1>3 DEF UsersInv, ExistOK
  <2> QED BY <1>2, <1>3, <1>4, <2>1, <2>2, SameTask
<1> QED BY <1>2, <1>5, UsersOnly

LEMMA AccountFacts ==
    ASSUME UsersInv, NEW e \in Emails
    PROVE  accounts[e] # Absent <=> accounts[e] \in Account
BY Markers DEF UsersInv

\* A step that changes at most the account of e, and keeps, advances or ends the task.
LEMMA AccountStep ==
    ASSUME IndInv, NEW e \in Emails,
           UNCHANGED <<stored, rp, details, shown, crossed, removed>>, Person \/ Fault \/ System,
           accounts' \in [Emails -> {Absent} \cup Account], \A f \in Emails \ {e} : accounts'[f] = accounts[f],
           accounts[e] \in Account => accounts'[e] \in Account,
           accounts'[e] \in Account => \A a \in accounts'[e].roles : Fits(accounts'[e], a),
           accounts'[e] \in Account /\ Incomplete(accounts'[e]) => faults' > 0 \/ removed \/ Creating(e)',
           \A f \in Emails \ {e} : Creating(f) => Creating(f)',
           up' \in UsersPage, up'.items = up.items, up'.roles = up.roles,
           up'.running # None => up.running # None /\ up'.running[1] = up.running[1],
           up'.role \in {up.role, None},
           up'.task # None =>
              /\ up.task # None /\ up'.task.role = up.task.role
              /\ (up'.task.kind = "edit" \/ up'.task.step = 2 \/ up'.task.done) => accounts'[up'.task.email] \in Account,
           FormOK', TaskOK'
    PROVE  IndInv'
<1>1. UsersInv /\ Counters BY Parts
<1>2. faults \in Nat /\ faults' \in Nat /\ faults <= faults' BY <1>1, CountersKept
<1>3. \A f \in Emails : accounts[f] \in Account => accounts'[f] \in Account OBVIOUS
<1>4. KnownOK'
  <2>1. \A f \in Emails : up'.items[f] # Absent => accounts'[f] \in Account BY <1>1, <1>3 DEF UsersInv, KnownOK
  <2>2. up'.running # None => accounts'[up'.running[1]] \in Account
    BY <1>1, <1>3, UpFacts DEF UsersInv, KnownOK
  <2> QED BY <2>1, <2>2 DEF KnownOK
<1>5. ExistOK' BY <1>1 DEF UsersInv, ExistOK, StoredRoles
<1>6. \A f \in Emails : accounts'[f] # Absent => accounts'[f] \in Account OBVIOUS
<1>7. FitsOK'
  <2>1. \A f \in Emails \ {e} : accounts[f] # Absent => \A a \in accounts[f].roles : Fits(accounts[f], a)
    BY <1>1 DEF UsersInv, FitsOK
  <2>2. \A f \in Emails : accounts'[f] # Absent => \A a \in accounts'[f].roles : Fits(accounts'[f], a)
    BY <1>6, <2>1
  <2> QED BY <2>2 DEF FitsOK, Fits
<1>8. CompleteOK'
  <2>1. \A f \in Emails \ {e} : accounts[f] # Absent /\ Incomplete(accounts[f]) => faults > 0 \/ removed \/ Creating(f)
    BY <1>1 DEF UsersInv, CompleteOK
  <2>2. faults > 0 => faults' > 0 BY <1>2
  <2>3. \A f \in Emails :
          accounts'[f] # Absent /\ Incomplete(accounts'[f]) => faults' > 0 \/ removed' \/ Creating(f)'
    BY <1>6, <2>1, <2>2
  <2> QED BY <2>3 DEF CompleteOK, Incomplete
<1>9. UsersInv' BY <1>4, <1>5, <1>7, <1>8 DEF UsersInv
<1> QED BY <1>9, UsersOnly

\* A step that starts a task.
LEMMA NewTask ==
    ASSUME IndInv, NEW t \in UserTask, up.task = None, up' = [up EXCEPT !.task = t], EditsForm,
           t.step = 1, t.done = FALSE, t.role \in up.roles \cup {up.role, None}, t.kind = "edit" => accounts[t.email] \in Account,
           IF t.kind = "create" THEN t.role # None /\ Suits(t.role, t.tenant) ELSE ChangeOK(t)
    PROVE  IndInv'
<1>1. UsersInv /\ Counters /\ up \in UsersPage BY Parts DEF UsersInv
<1>2. UNCHANGED <<stored, accounts, rp, details, shown, crossed, removed>> /\ Person BY DEF EditsForm
<1>3. /\ up' \in UsersPage /\ up'.task = t /\ up'.running = up.running /\ up'.items = up.items
      /\ up'.roles = up.roles /\ up'.scope = up.scope /\ up'.tenant = up.tenant /\ up'.role = up.role
  BY <1>1 DEF UsersPage
<1>4. faults' = faults BY <1>2 DEF Person
<1>5. KnownOK' BY <1>1, <1>2, <1>3 DEF UsersInv, KnownOK
<1>6. ExistOK' BY <1>1, <1>2, <1>3 DEF UsersInv, ExistOK, StoredRoles
<1>7. FormOK' BY <1>1, <1>3 DEF UsersInv, FormOK
<1>8. TaskOK'
  <2>1. CASE t.kind = "create" BY <1>3, <2>1 DEF TaskOK, CreationOK, Suits, Made
  <2>2. CASE t.kind # "create" BY <1>2, <1>3, <2>2 DEF TaskOK, ChangeOK
  <2> QED BY <2>1, <2>2
<1>9. FitsOK' BY <1>1, <1>2 DEF UsersInv, FitsOK, Fits
<1>10. CompleteOK' BY <1>1, <1>2, <1>4 DEF UsersInv, CompleteOK, Incomplete, Creating, Made
<1>11. UsersInv' BY <1>1, <1>2, <1>3, <1>5, <1>6, <1>7, <1>8, <1>9, <1>10 DEF UsersInv
<1> QED BY <1>2, <1>11, UsersOnly

LEMMA SubmitUserStep == ASSUME IndInv, NEW e \in Emails, SubmitUser(e) PROVE IndInv'
<1>1. UsersInv BY Parts
<1>2. PICK t : t = [kind |-> "create", email |-> e, tenant |-> up.tenant, role |-> up.role, step |-> 1,
                    done |-> FALSE]
  OBVIOUS
<1>3. /\ up.task = None /\ up.role # None /\ (up.scope = "tenant" => up.tenant # None)
      /\ up' = [up EXCEPT !.task = t] /\ EditsForm
  BY <1>2 DEF SubmitUser
<1>4. /\ t \in UserTask /\ t.step = 1 /\ t.done = FALSE /\ t.role = up.role /\ t.kind = "create" /\ t.tenant = up.tenant
  BY <1>1, <1>2, UpFacts DEF UserTask
<1>5. Suits(up.role, up.tenant) BY <1>1, <1>3, UpFacts DEF UsersInv, FormOK, Suits, Scopes
<1> QED BY <1>3, <1>4, <1>5, NewTask

LEMMA SaveUserStep == ASSUME IndInv, NEW e \in Emails, NEW r \in MaybeRole, SaveUser(e, r) PROVE IndInv'
<1>1. UsersInv BY Parts
<1>2. PICK n : n = IF r # None /\ GroupOf[r] \in Tenants THEN GroupOf[r] ELSE None OBVIOUS
<1>3. PICK t : t = [kind |-> "edit", email |-> e, role |-> r, step |-> 1, done |-> FALSE, tenant |-> n]
  OBVIOUS
<1>4. /\ up.task = None /\ accounts[e] # Absent /\ r \in EditRoleOptions(e) \cup {None}
      /\ up' = [up EXCEPT !.task = t] /\ EditsForm
  BY <1>2, <1>3 DEF SaveUser
<1>5. /\ t \in UserTask /\ t.step = 1 /\ t.done = FALSE /\ t.role = r /\ t.kind = "edit" /\ t.tenant = n /\ t.email = e
  BY <1>1, <1>2, <1>3 DEF UserTask
<1>6. accounts[e] \in Account BY <1>1, <1>4, AccountFacts
<1>7. ChangeOK(t)
  <2> SUFFICES ASSUME r # None
               PROVE  \/ GroupOf[r] = "platform" /\ n = None /\ accounts[e].platform
                      \/ GroupOf[r] = n /\ n \in Tenants
    BY <1>5 DEF ChangeOK
  <2>1. r \in EditRoleOptions(e) BY <1>4
  <2>2. CASE accounts[e].platform BY <1>2, <2>1, <2>2, AccessConstants DEF EditRoleOptions
  <2>3. CASE ~accounts[e].platform BY <1>2, <2>1, <2>3 DEF EditRoleOptions
  <2> QED BY <2>2, <2>3
<1>8. r \in up.roles \cup {None} BY <1>4 DEF EditRoleOptions
<1> QED BY <1>4, <1>5, <1>6, <1>7, <1>8, NewTask

\* The account of a listed user exists: the API deletes none.
LEMMA StatusChangedStep == ASSUME IndInv, StatusChanged PROVE IndInv'
<1>1. UsersInv /\ up \in UsersPage /\ Counters BY Parts DEF UsersInv
<1>2. /\ up.running # None /\ up.running[2] \in Statuses
      /\ accounts' = [accounts EXCEPT ![up.running[1]].status = up.running[2]]
      /\ up' = [up EXCEPT !.running = <<up.running[1], "done">>] /\ System
      /\ UNCHANGED <<stored, rp, details, shown, crossed, removed>>
  BY DEF StatusChanged
<1>3. PICK e \in Emails, s \in Statuses : e = up.running[1] /\ s = up.running[2] BY <1>1, <1>2, UpFacts
<1>4. accounts[e] \in Account /\ accounts[e] # Absent BY <1>1, <1>2, <1>3, AccountFacts DEF UsersInv, KnownOK
<1>5. accounts \in [Emails -> {Absent} \cup Account] BY <1>1 DEF UsersInv
<1>6. accounts' = [accounts EXCEPT ![e] = [accounts[e] EXCEPT !.status = s]] BY <1>2, <1>3, <1>5
<1>7. /\ accounts'[e] \in Account /\ accounts'[e].platform = accounts[e].platform
      /\ accounts'[e].tenant = accounts[e].tenant /\ accounts'[e].roles = accounts[e].roles
  BY <1>4, <1>5, <1>6 DEF Account
<1>8. \A f \in Emails \ {e} : accounts'[f] = accounts[f] BY <1>5, <1>6
<1>9. accounts' \in [Emails -> {Absent} \cup Account]
  <2>1. [accounts[e] EXCEPT !.status = s] \in Account BY <1>4 DEF Account
  <2> QED BY <1>5, <1>6, <2>1
<1>10. /\ up' \in UsersPage /\ up'.task = up.task /\ up'.running[1] = up.running[1] /\ up'.items = up.items
       /\ up'.roles = up.roles /\ up'.scope = up.scope /\ up'.tenant = up.tenant /\ up'.role = up.role
  <2>1. PICK x \in Emails \X (Statuses \cup {"delete", "done"}) : x = <<e, "done">> OBVIOUS
  <2>2. up' = [up EXCEPT !.running = x] BY <1>2, <1>3, <2>1
  <2>3. x[1] = e BY <2>1
  <2> QED BY <1>1, <1>3, <2>2, <2>3 DEF UsersPage
<1>11. FormOK' BY <1>1, <1>10 DEF UsersInv, FormOK
<1>12. faults' = faults BY <1>2 DEF System
<1>13. \A f \in Emails : Creating(f)' <=> Creating(f) BY <1>10 DEF Creating, Made
<1>14. TaskOK'
  <2> SUFFICES ASSUME up.task # None
               PROVE  IF up.task.kind = "create" THEN CreationOK(up.task)' ELSE ChangeOK(up.task)'
    BY <1>10 DEF TaskOK
  <2>1. PICK t : t = up.task /\ t.email \in Emails BY <1>1, TaskFacts
  <2>2. \A f \in Emails : /\ accounts'[f].platform = accounts[f].platform
                          /\ accounts'[f].tenant = accounts[f].tenant /\ accounts'[f].roles = accounts[f].roles
    BY <1>7, <1>8
  <2>3. CASE t.kind = "create"
    <3>1. CreationOK(t) BY <1>1, <2>1, <2>3 DEF UsersInv, TaskOK
    <3>2. CreationOK(t)' BY <1>12, <2>1, <2>2, <3>1 DEF CreationOK, Suits, Made
    <3> QED BY <1>10, <2>1, <2>3, <3>2 DEF CreationOK, Suits, Made
  <2>4. CASE t.kind # "create"
    <3>1. ChangeOK(t) BY <1>1, <2>1, <2>4 DEF UsersInv, TaskOK
    <3>2. ChangeOK(t)' BY <2>1, <2>2, <3>1 DEF ChangeOK
    <3> QED BY <1>10, <2>1, <2>4, <3>2 DEF ChangeOK
  <2> QED BY <2>3, <2>4
<1>15. \A a \in accounts'[e].roles : Fits(accounts'[e], a) BY <1>1, <1>4, <1>7 DEF UsersInv, FitsOK, Fits
<1>16. Incomplete(accounts'[e]) => faults' > 0 \/ removed \/ Creating(e)'
  <2>1. Incomplete(accounts[e]) => faults > 0 \/ removed \/ Creating(e) BY <1>1, <1>4 DEF UsersInv, CompleteOK
  <2>2. Incomplete(accounts'[e]) => Incomplete(accounts[e]) BY <1>7 DEF Incomplete
  <2> QED BY <1>12, <1>13, <2>1, <2>2
<1>17. up'.task # None =>
         /\ up.task # None /\ up'.task.role = up.task.role
         /\ (up'.task.kind = "edit" \/ up'.task.step = 2 \/ up'.task.done) => accounts'[up'.task.email] \in Account
  BY <1>1, <1>7, <1>8, <1>10, TaskFacts DEF UsersInv, KnownOK
<1> QED BY <1>2, <1>7, <1>8, <1>9, <1>10, <1>11, <1>13, <1>14, <1>15, <1>16, <1>17, AccountStep

-----------------------------------------------------------------------------
(* The two requests that create or change a user *)

\* The page once the last request has succeeded.
LEMMA UserSavedFacts ==
    ASSUME UsersInv
    PROVE  /\ UserSaved \in UsersPage /\ UserSaved.task = None /\ UserSaved.items = up.items
           /\ UserSaved.roles = up.roles /\ UserSaved.running = up.running /\ UserSaved.role \in {up.role, None}
           /\ \/ UserSaved.role = None /\ UserSaved.scope = "tenant"
              \/ UserSaved.role = up.role /\ UserSaved.scope = up.scope /\ UserSaved.tenant = up.tenant
<1>1. up \in UsersPage BY DEF UsersInv
<1>2. PICK page : page = Load(up) OBVIOUS
<1>3. /\ page \in UsersPage /\ page.items = up.items /\ page.roles = up.roles /\ page.running = up.running
      /\ page.scope = up.scope /\ page.tenant = up.tenant /\ page.role = up.role
  BY <1>1, <1>2, UserLoadFacts
<1>4. CASE up.task.kind = "edit"
  <2>1. UserSaved = [page EXCEPT !.task = None] BY <1>2, <1>4 DEF UserSaved
  <2> QED BY <1>3, <2>1 DEF UsersPage
<1>5. CASE up.task.kind # "edit"
  <2>1. UserSaved = [page EXCEPT !.task = None, !.scope = "tenant", !.tenant = None, !.role = None]
    BY <1>2, <1>5 DEF UserSaved
  <2> QED BY <1>3, <2>1 DEF UsersPage, Scopes, MaybeRole
<1> QED BY <1>4, <1>5

\* The API has carried out a request, or the page sends the second one.
LEMMA UserDoneFacts ==
    ASSUME UsersInv, up.task # None, NEW n \in 1..2, NEW b \in BOOLEAN,
           up' = [up EXCEPT !.task = [up.task EXCEPT !.step = n, !.done = b]]
    PROVE  /\ up' \in UsersPage /\ up'.items = up.items /\ up'.roles = up.roles /\ up'.running = up.running
           /\ up'.role = up.role /\ up'.scope = up.scope /\ up'.tenant = up.tenant
           /\ up'.task # None /\ up'.task.step = n /\ up'.task.done = b /\ up'.task.kind = up.task.kind
           /\ up'.task.email = up.task.email /\ up'.task.role = up.task.role /\ up'.task.tenant = up.task.tenant
<1>1. up.task \in UserTask BY TaskFacts
<1>2. PICK t : t = [up.task EXCEPT !.step = n, !.done = b] OBVIOUS
<1>3. /\ t \in UserTask /\ t.step = n /\ t.done = b /\ t.kind = up.task.kind /\ t.email = up.task.email
      /\ t.role = up.task.role /\ t.tenant = up.task.tenant
  BY <1>1, <1>2 DEF UserTask
<1>4. up' = [up EXCEPT !.task = t] BY <1>2
<1>5. t # None BY <1>3, Markers
<1> QED BY <1>3, <1>4, <1>5 DEF UsersInv, UsersPage

LEMMA UserDone ==
    ASSUME UsersInv, up.task # None, up' = [up EXCEPT !.task.done = TRUE]
    PROVE  up' = [up EXCEPT !.task = [up.task EXCEPT !.step = up.task.step, !.done = TRUE]] /\ up.task.step \in 1..2
<1>1. up.task \in UserTask BY TaskFacts
<1>2. PICK t : t = [up.task EXCEPT !.done = TRUE] OBVIOUS
<1>3. up' = [up EXCEPT !.task = t] BY <1>2 DEF UsersInv, UsersPage
<1>4. [up.task EXCEPT !.step = up.task.step, !.done = TRUE] = t /\ up.task.step \in 1..2 BY <1>1, <1>2 DEF UserTask
<1> QED BY <1>3, <1>4

\* The account that the first request of a creation makes.
LEMMA CreatedFacts ==
    ASSUME UsersInv, up.task # None, NEW member \in BOOLEAN, accounts' = Created(up.task, member)
    PROVE  LET e == up.task.email IN
           /\ accounts' \in [Emails -> {Absent} \cup Account] /\ accounts'[e] \in Account
           /\ \A f \in Emails \ {e} : accounts'[f] = accounts[f]
           /\ accounts'[e].platform = (up.task.tenant = None) /\ accounts'[e].roles = {}
           /\ accounts'[e].tenant = IF member THEN up.task.tenant ELSE None
<1>1. PICK e \in Emails : e = up.task.email BY TaskFacts
<1>2. PICK n \in Tenants \cup {None} : n = up.task.tenant BY TaskFacts
<1>3. PICK m \in Tenants \cup {None} : m = IF member THEN n ELSE None BY <1>2
<1>4. PICK b \in BOOLEAN : b = (n = None) OBVIOUS
<1>5. PICK x : x = [platform |-> b, tenant |-> m, status |-> "active", roles |-> {}] OBVIOUS
<1>6. x \in Account /\ x.platform = b /\ x.tenant = m /\ x.roles = {} BY <1>5 DEF Account, Statuses
<1>7. accounts' = [accounts EXCEPT ![e] = x] BY <1>1, <1>2, <1>3, <1>4, <1>5 DEF Created
<1>8. accounts \in [Emails -> {Absent} \cup Account] BY DEF UsersInv
<1>9. accounts' \in [Emails -> {Absent} \cup Account] /\ accounts'[e] = x
      /\ \A f \in Emails \ {e} : accounts'[f] = accounts[f]
  BY <1>6, <1>7, <1>8
<1> QED BY <1>1, <1>2, <1>3, <1>4, <1>6, <1>9

\* The account that the second request gives a role.
LEMMA AssignedFacts ==
    ASSUME UsersInv, up.task # None, up.task.step = 2, up.task.role # None, accounts' = Assigned(up.task)
    PROVE  LET e == up.task.email IN
           /\ accounts' \in [Emails -> {Absent} \cup Account] /\ accounts'[e] \in Account
           /\ \A f \in Emails \ {e} : accounts'[f] = accounts[f]
           /\ accounts'[e].platform = accounts[e].platform /\ accounts'[e].tenant = accounts[e].tenant
           /\ accounts'[e].roles = accounts[e].roles \cup {<<up.task.role, up.task.tenant>>}
<1>1. PICK e \in Emails : e = up.task.email BY TaskFacts
<1>2. PICK p \in Roles \X (Tenants \cup {None}) : p = <<up.task.role, up.task.tenant>>
  BY TaskFacts DEF MaybeRole
<1>3. accounts[e] \in Account BY <1>1 DEF UsersInv, KnownOK
<1>4. accounts \in [Emails -> {Absent} \cup Account] BY DEF UsersInv
<1>5. PICK x : x = [accounts[e] EXCEPT !.roles = accounts[e].roles \cup {p}] OBVIOUS
<1>6. accounts[e].roles \cup {p} \in SUBSET (Roles \X (Tenants \cup {None})) BY <1>3 DEF Account
<1>7. /\ x \in Account /\ x.platform = accounts[e].platform /\ x.tenant = accounts[e].tenant
      /\ x.roles = accounts[e].roles \cup {p}
  BY <1>3, <1>5, <1>6 DEF Account
<1>8. accounts' = [accounts EXCEPT ![e] = x] BY <1>1, <1>2, <1>3, <1>4, <1>5 DEF Assigned, Account
<1>9. accounts' \in [Emails -> {Absent} \cup Account] /\ accounts'[e] = x
      /\ \A f \in Emails \ {e} : accounts'[f] = accounts[f]
  BY <1>4, <1>7, <1>8
<1> QED BY <1>1, <1>2, <1>7, <1>9

\* What the invariant says of a task.
LEMMA TaskCases ==
    ASSUME UsersInv, up.task # None
    PROVE  /\ up.task.kind = "create" => CreationOK(up.task)
           /\ up.task.kind = "edit" => ChangeOK(up.task)
           /\ up.task.step = 2 => up.task.role # None /\ accounts[up.task.email] \in Account
           /\ ~removed => up.task.role \in StoredRoles \cup {None}
BY TaskFacts DEF UsersInv, TaskOK, CreationOK, ChangeOK, KnownOK, ExistOK

\* The role that the second request assigns fits the account and its tenant.
LEMMA AssignedFits ==
    ASSUME UsersInv, up.task # None, up.task.step = 2, ~up.task.done, accounts' = Assigned(up.task)
    PROVE  LET e == up.task.email IN
           /\ \A a \in accounts'[e].roles : Fits(accounts'[e], a)
           /\ faults \in Nat /\ faults = 0 /\ ~removed => ~Incomplete(accounts'[e])
<1>1. PICK t, e, p : t = up.task /\ e = t.email /\ p = <<t.role, t.tenant>> OBVIOUS
<1>2. /\ t.kind \in {"create", "edit"} /\ e \in Emails /\ t.role \in Roles /\ t.role # None
      /\ t.tenant \in Tenants \cup {None} /\ accounts[e] \in Account /\ accounts[e] # Absent
  BY <1>1, TaskFacts, TaskCases, AccountFacts DEF MaybeRole
<1>3. /\ accounts'[e].platform = accounts[e].platform /\ accounts'[e].tenant = accounts[e].tenant
      /\ accounts'[e].roles = accounts[e].roles \cup {p}
  BY <1>1, <1>2, AssignedFacts
<1>4. GroupOf[t.role] \in Tenants \cup {"platform", "any"} BY <1>2, AccessConstants
<1>5. p[1] = t.role /\ p[2] = t.tenant BY <1>1
<1>6. Fits(accounts'[e], p)
  <2>1. CASE t.kind = "create"
    <3>1. /\ Suits(t.role, t.tenant) /\ accounts[e].platform = (t.tenant = None)
          /\ accounts[e].tenant \in {t.tenant, None}
      BY <1>1, <2>1, TaskCases DEF CreationOK, Made
    <3> QED BY <1>2, <1>3, <1>4, <1>5, <3>1, AccessConstants DEF Fits, Suits
  <2>2. CASE t.kind = "edit"
    <3>1. \/ GroupOf[t.role] = "platform" /\ t.tenant = None /\ accounts[e].platform
          \/ GroupOf[t.role] = t.tenant /\ t.tenant \in Tenants
      BY <1>1, <1>2, <2>2, TaskCases DEF ChangeOK
    <3> QED BY <1>2, <1>3, <1>5, <3>1, AccessConstants DEF Fits
  <2> QED BY <1>2, <2>1, <2>2
<1>7. \A a \in accounts[e].roles : Fits(accounts'[e], a) BY <1>2, <1>3 DEF UsersInv, FitsOK, Fits
<1>8. ASSUME faults \in Nat, faults = 0, ~removed PROVE ~Incomplete(accounts'[e])
  <2>1. accounts'[e].roles # {} BY <1>3
  <2>2. CASE t.kind = "create"
    <3>1. accounts[e].platform = (t.tenant = None) /\ accounts[e].tenant = t.tenant
      BY <1>1, <1>8, <2>2, TaskCases DEF CreationOK, Made
    <3> QED BY <1>3, <2>1, <3>1 DEF Incomplete
  <2>3. CASE t.kind = "edit"
    <3>1. ~Creating(e) BY <1>1, <2>3 DEF Creating
    <3>2. ~Incomplete(accounts[e]) BY <1>2, <1>8, <3>1 DEF UsersInv, CompleteOK
    <3> QED BY <1>3, <2>1, <3>2 DEF Incomplete
  <2> QED BY <1>2, <2>2, <2>3
<1> QED BY <1>1, <1>3, <1>6, <1>7, <1>8

\* A first request that creates the account, with its tenant or without.
LEMMA CreateStep ==
    ASSUME IndInv, up.task # None, up.task.step = 1, up.task.kind = "create", accounts[up.task.email] = Absent,
           NEW member \in BOOLEAN, accounts' = Created(up.task, member), up' = [up EXCEPT !.task.done = TRUE],
           UNCHANGED <<stored, rp, details, shown, crossed, removed>>, System \/ Fault, ~member => faults' > 0
    PROVE  IndInv'
<1>1. UsersInv /\ Counters BY Parts
<1>2. PICK t, e : t = up.task /\ e = t.email OBVIOUS
<1>3. /\ e \in Emails /\ t.tenant \in Tenants \cup {None} /\ CreationOK(t) BY <1>1, <1>2, TaskFacts, TaskCases
<1>4. /\ accounts' \in [Emails -> {Absent} \cup Account] /\ accounts'[e] \in Account
      /\ \A f \in Emails \ {e} : accounts'[f] = accounts[f]
      /\ accounts'[e].platform = (t.tenant = None) /\ accounts'[e].roles = {}
      /\ accounts'[e].tenant = IF member THEN t.tenant ELSE None
  BY <1>1, <1>2, CreatedFacts
<1>5. /\ up' \in UsersPage /\ up'.items = up.items /\ up'.roles = up.roles /\ up'.running = up.running
      /\ up'.role = up.role /\ up'.scope = up.scope /\ up'.tenant = up.tenant
      /\ up'.task # None /\ up'.task.step = 1 /\ up'.task.done = TRUE /\ up'.task.kind = "create"
      /\ up'.task.email = e /\ up'.task.role = t.role /\ up'.task.tenant = t.tenant
  BY <1>1, <1>2, UserDone, UserDoneFacts
<1>6. FormOK' BY <1>1, <1>5 DEF UsersInv, FormOK
<1>7. Creating(e)' BY <1>5 DEF Creating, Made
<1>8. \A f \in Emails \ {e} : ~Creating(f) BY <1>2 DEF Creating
<1>9. TaskOK'
  <2>1. CreationOK(up.task)'
    <3>1. t.role # None /\ Suits(t.role, t.tenant) BY <1>3 DEF CreationOK
    <3>2. Suits(up'.task.role, up'.task.tenant) BY <1>5, <3>1
    <3>3. accounts'[e].tenant \in {t.tenant, None} /\ (faults' = 0 => accounts'[e].tenant = t.tenant) BY <1>4
    <3> QED BY <1>4, <1>5, <3>1, <3>2, <3>3 DEF CreationOK, Suits
  <2> QED BY <1>5, <2>1 DEF TaskOK
<1> QED BY <1>2, <1>3, <1>4, <1>5, <1>6, <1>7, <1>8, <1>9, AccountStep

LEMMA CreatedWithoutTenantStep == ASSUME IndInv, CreatedWithoutTenant PROVE IndInv'
<1>1. Counters BY Parts
<1>2. faults' > 0 BY <1>1 DEF CreatedWithoutTenant, Fault, Counters
<1> QED BY <1>2, CreateStep DEF CreatedWithoutTenant

\* A step of the task that leaves the accounts as they are.
LEMMA SameAccounts ==
    ASSUME IndInv, up.task # None, accounts' = accounts, NEW e \in Emails, e = up.task.email,
           UNCHANGED <<stored, rp, details, shown, crossed, removed>>, System \/ Fault,
           Creating(e) => faults' > 0 \/ removed \/ Creating(e)',
           up' \in UsersPage, up'.items = up.items, up'.roles = up.roles, up'.running = up.running,
           up'.role \in {up.role, None}, FormOK', TaskOK',
           up'.task # None => up'.task.role = up.task.role /\ accounts[up'.task.email] \in Account
    PROVE  IndInv'
<1>1. UsersInv /\ Counters BY Parts
<1>3. accounts \in [Emails -> {Absent} \cup Account] /\ (accounts[e] # Absent <=> accounts[e] \in Account)
  BY <1>1, AccountFacts DEF UsersInv
<1>4. \A f \in Emails \ {e} : ~Creating(f) BY DEF Creating
<1>5. accounts[e] \in Account => \A a \in accounts[e].roles : Fits(accounts[e], a)
  BY <1>1, <1>3 DEF UsersInv, FitsOK
<1>6. faults \in Nat /\ faults' \in Nat /\ faults <= faults' BY <1>1, CountersKept
<1>7. accounts[e] \in Account /\ Incomplete(accounts[e]) => faults' > 0 \/ removed \/ Creating(e)'
  BY <1>1, <1>3, <1>6 DEF UsersInv, CompleteOK
<1>8. \A f \in Emails \ {e} : accounts'[f] = accounts[f] OBVIOUS
<1> QED BY <1>3, <1>4, <1>5, <1>7, <1>8, AccountStep

LEMMA UserStep1Step == ASSUME IndInv, UserStep1 PROVE IndInv'
<1>1. UsersInv BY Parts
<1>2. PICK t : t = up.task OBVIOUS
<1>3. /\ t # None /\ t.step = 1 /\ (t.kind = "create" <=> accounts[t.email] = Absent)
      /\ accounts' = (IF t.kind = "create" THEN Created(t, TRUE) ELSE accounts)
      /\ up' = [up EXCEPT !.task.done = TRUE]
      /\ System /\ UNCHANGED <<stored, rp, details, shown, crossed, removed>>
  BY <1>2 DEF UserStep1
<1>4. t.kind \in {"create", "edit"} /\ t.email \in Emails BY <1>1, <1>2, <1>3, TaskFacts
<1>5. CASE t.kind = "create" BY <1>2, <1>3, <1>5, CreateStep
<1>6. CASE t.kind = "edit"
  <2>1. accounts' = accounts /\ accounts[t.email] \in Account BY <1>1, <1>3, <1>4, <1>6, AccountFacts
  <2>2. ~Creating(t.email) BY <1>2, <1>6 DEF Creating
  <2>3. ChangeOK(t) BY <1>1, <1>2, <1>3, <1>6, TaskCases
  <2>4. /\ up' \in UsersPage /\ up'.items = up.items /\ up'.roles = up.roles /\ up'.running = up.running
        /\ up'.role = up.role /\ up'.scope = up.scope /\ up'.tenant = up.tenant
        /\ up'.task # None /\ up'.task.step = 1 /\ up'.task.kind = "edit"
        /\ up'.task.email = t.email /\ up'.task.role = t.role /\ up'.task.tenant = t.tenant
    BY <1>1, <1>2, <1>3, <1>6, UserDone, UserDoneFacts
  <2>5. FormOK' BY <1>1, <2>4 DEF UsersInv, FormOK
  <2>6. TaskOK'
    <3>1. ChangeOK(up.task)' BY <2>1, <2>3, <2>4 DEF ChangeOK
    <3> QED BY <2>4, <3>1 DEF TaskOK
  <2>7. PICK e \in Emails : e = t.email BY <1>4
  <2> QED BY <1>2, <1>3, <2>1, <2>2, <2>4, <2>5, <2>6, <2>7, SameAccounts
<1> QED BY <1>4, <1>5, <1>6

\* The second request assigns the role.
LEMMA UserStep2Step == ASSUME IndInv, UserStep2 PROVE IndInv'
<1>1. UsersInv /\ Counters BY Parts
<1>2. /\ up.task # None /\ up.task.step = 2 /\ ~up.task.done /\ accounts' = Assigned(up.task)
      /\ up' = [up EXCEPT !.task.done = TRUE]
      /\ System /\ UNCHANGED <<stored, rp, details, shown, crossed, removed>>
  BY DEF UserStep2
<1>3. PICK t, e : t = up.task /\ e = t.email OBVIOUS
<1>4. e \in Emails /\ t.kind \in {"create", "edit"} BY <1>1, <1>2, <1>3, TaskFacts
<1>5. faults \in Nat /\ faults' \in Nat /\ faults <= faults' BY <1>1, <1>2, CountersKept
<1>6. /\ up' \in UsersPage /\ up'.items = up.items /\ up'.roles = up.roles /\ up'.running = up.running
      /\ up'.role = up.role /\ up'.scope = up.scope /\ up'.tenant = up.tenant
      /\ up'.task # None /\ up'.task.step = 2 /\ up'.task.done = TRUE /\ up'.task.kind = t.kind
      /\ up'.task.email = e /\ up'.task.role = t.role /\ up'.task.tenant = t.tenant
  BY <1>1, <1>2, <1>3, UserDone, UserDoneFacts
<1>7. FormOK' BY <1>1, <1>6 DEF UsersInv, FormOK
<1>8. /\ accounts' \in [Emails -> {Absent} \cup Account] /\ accounts'[e] \in Account
      /\ \A f \in Emails \ {e} : accounts'[f] = accounts[f]
      /\ accounts'[e].platform = accounts[e].platform
  BY <1>1, <1>2, <1>3, TaskCases, AssignedFacts
<1>9. /\ \A a \in accounts'[e].roles : Fits(accounts'[e], a)
      /\ faults = 0 /\ ~removed => ~Incomplete(accounts'[e])
  BY <1>1, <1>2, <1>3, <1>5, AssignedFits
<1>10. \A f \in Emails \ {e} : ~Creating(f) BY <1>3 DEF Creating
<1>11. TaskOK'
  <2>1. CASE t.kind = "create"
    <3>1. t.role # None /\ Suits(t.role, t.tenant) BY <1>1, <1>2, <1>3, <2>1, TaskCases DEF CreationOK
    <3>2. ~Made(up'.task) BY <1>6 DEF Made
    <3>3. CreationOK(up.task)' BY <1>6, <3>1, <3>2 DEF CreationOK, Suits, Made
    <3> QED BY <1>6, <2>1, <3>3 DEF TaskOK
  <2>2. CASE t.kind = "edit"
    <3>1. ChangeOK(t) BY <1>1, <1>2, <1>3, <2>2, TaskCases
    <3>2. ChangeOK(up.task)' BY <1>2, <1>3, <1>6, <1>8, <3>1 DEF ChangeOK
    <3> QED BY <1>6, <2>2, <3>2 DEF TaskOK
  <2> QED BY <1>4, <2>1, <2>2
<1>12. Incomplete(accounts'[e]) => faults' > 0 \/ removed BY <1>5, <1>9
<1>13. /\ accounts'[e] \in Account /\ Incomplete(accounts'[e]) => faults' > 0 \/ removed \/ Creating(e)'
       /\ \A f \in Emails \ {e} : Creating(f) => Creating(f)'
  BY <1>10, <1>12
<1>14. up'.task # None => /\ up.task # None /\ up'.task.role = up.task.role
                         /\ accounts'[up'.task.email] \in Account
  BY <1>2, <1>3, <1>6, <1>8
<1> QED BY <1>2, <1>4, <1>6, <1>7, <1>8, <1>9, <1>11, <1>13, <1>14, AccountStep

\* The second request follows, or the task ends.
LEMMA UserAnsweredStep == ASSUME IndInv, UserAnswered PROVE IndInv'
<1>1. UsersInv BY Parts
<1>2. PICK t, e : t = up.task /\ e = t.email OBVIOUS
<1>3. /\ t # None /\ t.done /\ accounts' = accounts
      /\ up' = (IF t.step = 1 /\ t.role # None THEN [up EXCEPT !.task.step = 2, !.task.done = FALSE] ELSE UserSaved)
      /\ System /\ UNCHANGED <<stored, rp, details, shown, crossed, removed>>
  BY <1>2 DEF UserAnswered
<1>4. /\ t \in UserTask /\ e \in Emails /\ t.kind \in {"create", "edit"} /\ t.step \in {1, 2}
      /\ accounts[e] \in Account
  BY <1>1, <1>2, <1>3, TaskFacts DEF UsersInv, KnownOK
<1>5. CASE t.step = 1 /\ t.role # None
  <2>1. up' = [up EXCEPT !.task = [up.task EXCEPT !.step = 2, !.done = FALSE]]
    <3>1. PICK u : u = [t EXCEPT !.step = 2, !.done = FALSE] OBVIOUS
    <3>2. up' = [up EXCEPT !.task = u] BY <1>1, <1>2, <1>3, <1>5, <3>1 DEF UsersInv, UsersPage
    <3> QED BY <1>2, <3>1, <3>2
  <2>2. /\ up' \in UsersPage /\ up'.items = up.items /\ up'.roles = up.roles /\ up'.running = up.running
        /\ up'.role = up.role /\ up'.scope = up.scope /\ up'.tenant = up.tenant
        /\ up'.task # None /\ up'.task.step = 2 /\ up'.task.done = FALSE /\ up'.task.kind = t.kind
        /\ up'.task.email = e /\ up'.task.role = t.role /\ up'.task.tenant = t.tenant
    <3>1. 2 \in 1..2 /\ FALSE \in BOOLEAN OBVIOUS
    <3>2. up.task # None BY <1>2, <1>3
    <3>3. /\ up' \in UsersPage /\ up'.items = up.items /\ up'.roles = up.roles /\ up'.running = up.running
          /\ up'.role = up.role /\ up'.scope = up.scope /\ up'.tenant = up.tenant
          /\ up'.task # None /\ up'.task.step = 2 /\ up'.task.done = FALSE /\ up'.task.kind = up.task.kind
          /\ up'.task.email = up.task.email /\ up'.task.role = up.task.role /\ up'.task.tenant = up.task.tenant
      BY <1>1, <2>1, <3>1, <3>2, UserDoneFacts
    <3> QED BY <1>2, <3>3
  <2>3. FormOK' BY <1>1, <2>2 DEF UsersInv, FormOK
  <2>4. TaskOK'
    <3>1. CASE t.kind = "create"
      <4>1. CreationOK(t) /\ Made(t) BY <1>1, <1>2, <1>3, <1>5, <3>1, TaskCases DEF Made
      <4>2. faults' = faults BY <1>3 DEF System
      <4>3. CreationOK(up.task)' BY <1>2, <1>3, <2>2, <4>1, <4>2 DEF CreationOK, Suits
      <4> QED BY <2>2, <3>1, <4>3 DEF TaskOK
    <3>2. CASE t.kind = "edit"
      <4>1. ChangeOK(t) BY <1>1, <1>2, <1>3, <3>2, TaskCases
      <4>2. ChangeOK(up.task)' BY <1>2, <1>3, <1>5, <2>2, <4>1 DEF ChangeOK
      <4> QED BY <2>2, <3>2, <4>2 DEF TaskOK
    <3> QED BY <1>4, <3>1, <3>2
  <2>5. Creating(e) => Creating(e)' BY <1>2, <2>2 DEF Creating, Made
  <2> QED BY <1>2, <1>3, <1>4, <2>2, <2>3, <2>4, <2>5, SameAccounts
<1>6. CASE ~(t.step = 1 /\ t.role # None)
  <2>1. up' = UserSaved BY <1>3, <1>6
  <2>2. /\ up' \in UsersPage /\ up'.task = None /\ up'.items = up.items /\ up'.roles = up.roles
        /\ up'.running = up.running /\ up'.role \in {up.role, None}
    BY <1>1, <2>1, UserSavedFacts
  <2>3. FormOK' BY <1>1, <2>1, UserSavedFacts DEF UsersInv, FormOK
  <2>4. TaskOK' BY <2>2 DEF TaskOK
  <2>5. ~Creating(e)
    <3>1. t.kind = "create" => t.role # None BY <1>1, <1>2, <1>3, TaskCases DEF CreationOK
    <3> QED BY <1>2, <1>3, <1>4, <1>6, <3>1 DEF Creating, Made
  <2> QED BY <1>2, <1>3, <1>4, <2>2, <2>3, <2>4, <2>5, SameAccounts
<1> QED BY <1>5, <1>6

\* Without a fault, a creation's second request is refused only for a deleted role.
LEMMA UserTaskFailsStep == ASSUME IndInv, UserTaskFails PROVE IndInv'
<1>1. UsersInv /\ Counters /\ up \in UsersPage BY Parts DEF UsersInv
<1>2. PICK t, e : t = up.task /\ e = t.email OBVIOUS
<1>3. /\ t # None /\ up' = [up EXCEPT !.task = None] /\ accounts' = accounts
      /\ UNCHANGED <<stored, rp, details, shown, crossed, removed>>
  BY <1>2 DEF UserTaskFails
<1>4. /\ up' \in UsersPage /\ up'.task = None /\ up'.items = up.items /\ up'.roles = up.roles
      /\ up'.running = up.running /\ up'.role = up.role /\ up'.scope = up.scope /\ up'.tenant = up.tenant
  BY <1>1, <1>3 DEF UsersPage
<1>5. FormOK' /\ TaskOK' BY <1>1, <1>4 DEF UsersInv, FormOK, TaskOK
<1>6. t.kind \in {"create", "edit"} /\ t.step \in {1, 2} /\ e \in Emails BY <1>1, <1>2, <1>3, TaskFacts
<1>7. Creating(e) => faults' > 0 \/ removed
  <2> SUFFICES ASSUME Creating(e), ~removed PROVE faults' > 0
    OBVIOUS
  <2>1. t.kind = "create" /\ Made(t) /\ CreationOK(t) BY <1>1, <1>2, <1>3, TaskCases DEF Creating
  <2>2. accounts[e].roles = {} BY <1>2, <2>1 DEF CreationOK
  <2>3. t.role # None /\ t.role \in StoredRoles BY <1>1, <1>2, <1>3, <2>1, TaskCases DEF CreationOK
  <2>4. Assignable(t) BY <1>2, <2>2, <2>3 DEF Assignable, StoredRoles
  <2>5. ~(~t.done /\ UserRefused(t)) BY <1>6, <2>1, <2>4 DEF Made, UserRefused
  <2>6. Fault BY <1>2, <2>5 DEF UserTaskFails
  <2> QED BY <1>1, <2>6 DEF Fault, Counters
<1>8. System \/ Fault BY DEF UserTaskFails
<1> QED BY <1>2, <1>3, <1>4, <1>5, <1>6, <1>7, <1>8, SameAccounts

-----------------------------------------------------------------------------
(* The invariant *)

LEMMA InitHolds == Init => IndInv
<1> SUFFICES ASSUME Init PROVE IndInv
  OBVIOUS
<1>1. stored \in [Roles -> {Absent} \cup SUBSET Perms]
  <2>1. {{}, Perms, Absent} \subseteq {Absent} \cup SUBSET Perms OBVIOUS
  <2> QED BY <2>1 DEF Init
<1>2. rp \in RolesPage /\ rp.editing = None /\ rp.task = None BY AccessConstants DEF Init, RolesPage, MaybeRole
<1>3. RolesInv
  <2>1. details = << >> /\ shown = None /\ crossed = FALSE /\ removed = FALSE BY DEF Init
  <2>2. details \in Seq(Detail) /\ Len(details) <= 1 BY <2>1
  <2>3. DetailOK /\ SaveOK BY <1>2, <2>2 DEF DetailOK, SaveOK
  <2> QED BY <1>1, <1>2, <2>1, <2>2, <2>3 DEF RolesInv, MaybeRole
<1>4. accounts = [e \in Emails |-> Absent] /\ faults = 0 BY DEF Init
<1>5. /\ up.items = accounts /\ up.roles = Existing /\ up.loads = 0 /\ up.loading = FALSE /\ up.scope = "tenant"
      /\ up.tenant = None /\ up.role = None /\ up.task = None /\ up.running = None
  BY DEF Init
<1>6. up \in UsersPage
  <2>1. accounts \in [Emails -> Statuses \cup {Absent}] BY <1>4
  <2> QED BY <1>5, <2>1, AccessConstants DEF Init, UsersPage, Scopes, MaybeRole
<1>7. KnownOK /\ FormOK /\ TaskOK /\ FitsOK /\ CompleteOK
  BY <1>4, <1>5 DEF KnownOK, FormOK, TaskOK, FitsOK, CompleteOK
<1>8. Existing \subseteq StoredRoles BY AccessConstants DEF Init, StoredRoles
<1>9. ExistOK BY <1>5, <1>8 DEF ExistOK
<1>10. UsersInv BY <1>4, <1>6, <1>7, <1>9 DEF UsersInv
<1>11. Counters BY AccessConstants DEF Init, Counters
<1> QED BY <1>3, <1>10, <1>11, Parts

LEMMA StutterStep == IndInv /\ UNCHANGED vars => IndInv'
<1> SUFFICES ASSUME IndInv, UNCHANGED vars PROVE IndInv'
  OBVIOUS
<1>1. System /\ UNCHANGED <<stored, accounts, rp, details, up, shown, crossed, removed>> BY DEF vars, System
<1>2. RolesInv /\ UsersInv /\ Counters BY Parts
<1> QED BY <1>1, <1>2, RolesFrame, CountersKept, UsersFrame, PartsNext

LEMMA InductiveStep == IndInv /\ [Next]_vars => IndInv'
<1> SUFFICES ASSUME IndInv, [Next]_vars PROVE IndInv'
  OBVIOUS
<1>1. CASE RolesStep
  <2>1. ASSUME NEW i \in DOMAIN details, DetailRead(i) \/ DetailArrives(i) \/ DetailFails(i) PROVE IndInv'
    BY <2>1, DetailReadStep, DetailArrivesStep, DetailFailsStep
  <2> QED BY <1>1, <2>1, RolesListedStep, RoleListFailsStep, RoleStep1Step, RoleStep2Step, RoleStep2EmptyStep,
             RoleAnsweredStep, RoleTaskFailsStep, RoleDeletedStep, DeleteRoleAnsweredStep, DeleteRoleFailsStep
     DEF RolesStep
<1>2. CASE UsersStep
  BY <1>2, UsersListedStep, UserListFailsStep, UserStep1Step, CreatedWithoutTenantStep, UserStep2Step,
     UserAnsweredStep, UserTaskFailsStep, StatusChangedStep, StatusAnsweredStep, UserChangeFailsStep DEF UsersStep
<1>3. CASE PersonStep
  <2>1. ASSUME NEW r \in Roles, \/ \E perms \in SUBSET Perms : SubmitRole(r, perms)
                                \/ StartEdit(r) \/ DeleteRole(r) \/ ChooseRole(r)
        PROVE  IndInv'
    BY <2>1, SubmitRoleStep, StartEditStep, FormSteps, ChooseRoleStep
  <2>2. ASSUME NEW e \in Emails, \/ SubmitUser(e) \/ ToggleUserStatus(e) \/ DeleteUser(e)
                                 \/ \E r \in MaybeRole : SaveUser(e, r)
        PROVE  IndInv'
    BY <2>2, SubmitUserStep, RunStep, SaveUserStep
  <2>3. ASSUME NEW s \in Scopes, ChooseScope(s) PROVE IndInv' BY <2>3, ChooseScopeStep
  <2>4. ASSUME NEW t \in Tenants, ChooseTenant(t) PROVE IndInv' BY <2>4, ChooseTenantStep
  <2> QED BY <1>3, <2>1, <2>2, <2>3, <2>4, FormSteps DEF PersonStep
<1>4. CASE UNCHANGED vars BY <1>4, StutterStep
<1> QED BY <1>1, <1>2, <1>3, <1>4 DEF Next

\* The inductive invariant holds in every reachable state.
THEOREM Inductive == Spec => []IndInv
BY InitHolds, InductiveStep, PTL DEF Spec

\* The role and user tables, the two pages and their requests stay within their
\* types: no answer, late or repeated, leaves a page or a row malformed.
THEOREM AccessTypeCorrect == Spec => []TypeOK
<1>1. IndInv => TypeOK BY DEF IndInv
<1> QED BY <1>1, Inductive, PTL

\* The edit form that startEdit opened, its one request answered, holds the
\* permissions of its own role, however many roles were edited before.
THEOREM FormShowsOwnRole == Spec => []EditShowsOwnRole
<1>1. IndInv => EditShowsOwnRole BY DEF IndInv, DetailOK, EditShowsOwnRole, EditShown
<1> QED BY <1>1, Inductive, PTL

\* A role is assigned only to an account of its kind and only within its tenant,
\* whatever was chosen, changed or refused in between.
THEOREM AssignmentsFit == Spec => []AssignmentFitsRole
<1>1. ASSUME IndInv PROVE AssignmentFitsRole
  <2> SUFFICES ASSUME NEW e \in Emails, accounts[e] # Absent, NEW a \in accounts[e].roles
               PROVE  CASE GroupOf[a[1]] = "platform" -> accounts[e].platform /\ a[2] = None
                        [] GroupOf[a[1]] = "any" -> a[2] # None /\ accounts[e].tenant \in {a[2], None}
                        [] OTHER -> a[2] = GroupOf[a[1]]
    BY DEF AssignmentFitsRole
  <2>1. UsersInv /\ Fits(accounts[e], a) BY <1>1, Parts DEF IndInv, FitsOK
  <2>2. accounts[e] \in Account BY <2>1, AccountFacts
  <2>3. a[1] \in Roles BY <2>2 DEF Account
  <2>4. GroupOf[a[1]] \in Tenants \cup {"platform", "any"} BY <2>3, AccessConstants
  <2>5. CASE GroupOf[a[1]] = "platform" BY <2>1, <2>5 DEF Fits
  <2>6. CASE GroupOf[a[1]] = "any" BY <2>1, <2>6 DEF Fits
  <2>7. CASE GroupOf[a[1]] \in Tenants
    <3>1. GroupOf[a[1]] # "platform" /\ GroupOf[a[1]] # "any" BY <2>7, AccessConstants
    <3> QED BY <2>1, <2>7, <3>1 DEF Fits
  <2> QED BY <2>4, <2>5, <2>6, <2>7
<1> QED BY <1>1, Inductive, PTL

\* An account without a role or a tenant is one whose second request is under way,
\* or the trace of a failed request or of a deleted role.
THEOREM AccountsComplete == Spec => []AccountsAreComplete
<1>1. IndInv => AccountsAreComplete BY DEF IndInv, CompleteOK, AccountsAreComplete, Incomplete, Creating
<1> QED BY <1>1, Inductive, PTL

-----------------------------------------------------------------------------
(* What the page reports *)

\* A step that ends a save and reloads the list: the role is stored as ticked, or
\* was deleted during the save.
EndsStored ==
    rp.task # None /\ rp'.task = None /\ rp'.loads > rp.loads =>
        \/ stored'[rp.task.role] = rp.task.perms
        \/ stored'[rp.task.role] = Absent /\ rp.task.gone

LEMMA TaskKept == ASSUME rp'.task = rp.task \/ rp.task = None PROVE EndsStored
BY DEF EndsStored

LEMMA StepEndsStored == ASSUME IndInv, Next PROVE EndsStored
<1>1. RolesInv /\ rp \in RolesPage /\ rp.loads \in Nat BY Parts, RpFacts DEF RolesInv
<1>2. CASE rp' = rp BY <1>2, TaskKept
<1>3. CASE RolesListed \/ RoleListFails BY <1>1, <1>3, TaskKept DEF RolesListed, RoleListFails, Loaded, RolesPage
<1>4. ASSUME NEW i \in DOMAIN details, DetailArrives(i) \/ DetailFails(i) PROVE EndsStored
  BY <1>1, <1>4, TaskKept DEF DetailArrives, DetailFails, RolesPage
<1>5. CASE DeleteRoleAnswered \/ DeleteRoleFails
  BY <1>1, <1>5, TaskKept DEF DeleteRoleAnswered, DeleteRoleFails, Load, RolesPage
<1>6. CASE RoleStep1 \/ RoleStep2 \/ RoleStep2Empty
  <2>1. rp.task # None /\ rp' = [rp EXCEPT !.task.done = TRUE] BY <1>6 DEF RoleStep1, RoleStep2, RoleStep2Empty
  <2> QED BY <1>1, <2>1, RoleDoneFacts DEF EndsStored
<1>7. CASE RoleDeleted
  <2>1. CASE rp.task # None /\ rp.task.role = rp.deleting
    <3>1. PICK t : t = [rp.task EXCEPT !.gone = TRUE] OBVIOUS
    <3>2. t \in RoleTask BY <1>1, <2>1, <3>1, RoleTaskFacts DEF RoleTask
    <3>3. rp' = [rp EXCEPT !.deleted = TRUE, !.task = t] BY <1>1, <1>7, <2>1, <3>1 DEF RoleDeleted, RolesPage
    <3>4. rp'.task = t BY <1>1, <3>3 DEF RolesPage
    <3> QED BY <3>2, <3>4, Markers DEF EndsStored
  <2>2. CASE ~(rp.task # None /\ rp.task.role = rp.deleting)
    <3>1. rp' = [rp EXCEPT !.deleted = TRUE] BY <1>7, <2>2 DEF RoleDeleted
    <3> QED BY <1>1, <3>1, TaskKept DEF RolesPage
  <2> QED BY <2>1, <2>2
<1>8. CASE RoleAnswered
  <2>1. PICK t : t = rp.task OBVIOUS
  <2>2. /\ t # None /\ t.done /\ stored' = stored
        /\ rp' = (IF t.step = 1 /\ (t.kind = "edit" \/ t.perms # {})
                  THEN [rp EXCEPT !.task.step = 2, !.task.done = FALSE] ELSE RoleSaved)
    BY <1>8, <2>1 DEF RoleAnswered
  <2>3. t.kind \in {"create", "edit"} /\ t.step \in {1, 2} BY <1>1, <2>1, <2>2, RoleTaskFacts
  <2>4. CASE t.step = 1 /\ (t.kind = "edit" \/ t.perms # {})
    BY <1>1, <2>1, <2>2, <2>4, RoleAdvanceFacts DEF EndsStored
  <2>5. CASE ~(t.step = 1 /\ (t.kind = "edit" \/ t.perms # {}))
    <3>1. stored[t.role] \in {t.perms, Absent} /\ (stored[t.role] # Absent \/ t.gone)
      BY <1>1, <2>1, <2>2, <2>3, <2>5 DEF RolesInv, SaveOK
    <3> QED BY <2>1, <2>2, <3>1 DEF EndsStored
  <2> QED BY <2>4, <2>5
<1>9. CASE RoleTaskFails
  <2>1. rp'.loads = rp.loads BY <1>1, <1>9 DEF RoleTaskFails, RolesPage
  <2> QED BY <1>1, <2>1 DEF EndsStored
<1>10. ASSUME NEW r \in Roles, StartEdit(r) \/ DeleteRole(r) PROVE EndsStored
  BY <1>1, <1>10, TaskKept DEF StartEdit, DeleteRole, RolesPage
<1>11. ASSUME NEW p \in Perms, TogglePerm(p) PROVE EndsStored
  BY <1>1, <1>11, TaskKept DEF TogglePerm, RolesPage
<1>12. CASE CloseEdit \/ SaveEdit BY <1>1, <1>12, TaskKept DEF CloseEdit, SaveEdit, RolesPage
<1>13. ASSUME NEW r \in Roles, NEW perms \in SUBSET Perms, SubmitRole(r, perms) PROVE EndsStored
  BY <1>13, TaskKept DEF SubmitRole
<1>14. ASSUME NEW i \in DOMAIN details, DetailRead(i) PROVE EndsStored BY <1>2, <1>14 DEF DetailRead
<1>15. CASE UsersStep
  BY <1>2, <1>15 DEF UsersStep, UsersListed, UserListFails, UserStep1, CreatedWithoutTenant, UserStep2,
                     UserAnswered, UserTaskFails, StatusChanged, StatusAnswered, UserChangeFails
<1>16. ASSUME EditsForm PROVE EndsStored BY <1>2, <1>16 DEF EditsForm
<1>17. CASE RolesStep
  BY <1>3, <1>4, <1>5, <1>6, <1>7, <1>8, <1>9, <1>14, <1>17 DEF RolesStep
<1>18. CASE PersonStep
  <2>1. ASSUME NEW r \in Roles, ChooseRole(r) PROVE EditsForm BY <2>1 DEF ChooseRole
  <2>2. ASSUME NEW s \in Scopes, ChooseScope(s) PROVE EditsForm BY <2>2 DEF ChooseScope
  <2>3. ASSUME NEW t \in Tenants, ChooseTenant(t) PROVE EditsForm BY <2>3 DEF ChooseTenant
  <2>4. ASSUME NEW e \in Emails, SubmitUser(e) \/ ToggleUserStatus(e) \/ DeleteUser(e) PROVE EditsForm
    BY <2>4 DEF SubmitUser, ToggleUserStatus, DeleteUser
  <2>5. ASSUME NEW e \in Emails, NEW r \in MaybeRole, SaveUser(e, r) PROVE EditsForm BY <2>5 DEF SaveUser
  <2> QED BY <1>10, <1>11, <1>12, <1>13, <1>16, <1>18, <2>1, <2>2, <2>3, <2>4, <2>5 DEF PersonStep
<1> QED BY <1>15, <1>17, <1>18 DEF Next

\* The two-request save reports success only when the role is stored with exactly
\* what was ticked when the last answer arrives, or was deleted during the save.
THEOREM SuccessIsStored == Spec => SuccessMeansStored
<1>1. ASSUME IndInv, [Next]_vars PROVE [EndsStored]_vars BY <1>1, StepEndsStored
<1>2. Spec => [][EndsStored]_vars BY <1>1, Inductive, PTL DEF Spec
<1> QED BY <1>2 DEF EndsStored, SuccessMeansStored

=============================================================================
