---------------------------- MODULE Registration -----------------------------
(* Opening an organisation (register() and all it calls) and adding a starter *)
(* setup to one that is open (applyPreset()).  Nothing here runs in a         *)
(* transaction: each step is one call, after which the rest may never come.   *)
(* Everybody asks for the same name, so that they compete for its slugs.      *)
EXTENDS Naturals, FiniteSets

CONSTANTS
  Registrars,   \* requests under way
  Emails,       \* addresses people register with
  Slugs,        \* 1..n: the slugs of one name, in the order they are tried
  Names,        \* categories, types and fields of the starter setups, by name
  MaxBegun,     \* bound: requests begun
  Unset         \* null

ASSUME RegistrationAssumption ==
  /\ Slugs \subseteq Nat /\ MaxBegun \in Nat
  /\ Unset \notin Emails \cup Slugs

VARIABLES
  user,         \* users: there, and the organisation they are at home in
  organisation, \* tenants by slug, with what is kept under each
  registrar,    \* what each request holds between two calls
  asked,        \* requests begun, up to MaxBegun
  overlapped,   \* history: organisations two setups looked through side by side
  stopped       \* history: a registration ended early with its owner entered

registrationVars == <<user, organisation, registrar, asked, overlapped, stopped>>

\* In the order in which applyPreset() adds them.
Kinds == <<"category", "type", "field">>

Presets == SUBSET Names

\* A copy too many is as far as a property looks.
Copies == 0..2

\* What startTrial() and the seeds have made; items counts the rows of a name;
\* brought is a history of the setups it was opened with and given since.
Organisation == [roles : BOOLEAN, trial : BOOLEAN, workflow : BOOLEAN, seats : {Unset} \cup 0..1,
                 items : [1..3 -> [Names -> Copies]], owner : Emails \cup {Unset},
                 brought : Presets]

ASSUME NoOrganisationAssumption == Unset \notin Organisation

NoRegistrar == [pc |-> "idle"]

Registrar == {NoRegistrar}
  \cup [pc : {"search", "check", "open", "roles", "trial", "usage", "workflow", "owner", "count", "home"},
        email : Emails, slug : Slugs \cup {Unset}, preset : Presets]
  \cup [pc : {"look", "add", "adopt"}, email : Emails \cup {Unset}, slug : Slugs,
        preset : Presets, kind : 1..3, found : SUBSET Names]

RegistrationTypeOK ==
  /\ user \in [Emails -> [there : BOOLEAN, home : Slugs \cup {Unset}]]
  /\ organisation \in [Slugs -> Organisation \cup {Unset}]
  /\ registrar \in [Registrars -> Registrar]
  /\ asked \in 0..MaxBegun
  /\ overlapped \subseteq Slugs /\ stopped \subseteq Slugs

RegistrationInit ==
  /\ user = [e \in Emails |-> [there |-> FALSE, home |-> Unset]]
  /\ organisation = [s \in Slugs |-> Unset]
  /\ registrar = [r \in Registrars |-> NoRegistrar]
  /\ asked = 0
  /\ overlapped = {} /\ stopped = {}

Opened == {s \in Slugs : organisation[s] # Unset}

\* The organisation request r works for.
Ours(r) == organisation[registrar[r].slug]

\* Request r makes the call its pc names, and goes on to the next.
Calls(r, pc, next) ==
  registrar[r].pc = pc /\ registrar' = [registrar EXCEPT ![r].pc = next]

\* The call changes the request's organisation, to o.
Keeps(r, o) ==
  /\ organisation' = [organisation EXCEPT ![registrar[r].slug] = o]
  /\ UNCHANGED <<user, asked, overlapped, stopped>>

-----------------------------------------------------------------------------
\* createUser(); the unique index refuses an address that has an account.
CreateUser(r, e, preset) ==
  /\ registrar[r] = NoRegistrar /\ asked < MaxBegun
  /\ ~user[e].there
  /\ asked' = asked + 1
  /\ user' = [user EXCEPT ![e].there = TRUE]
  /\ registrar' = [registrar EXCEPT ![r] = [pc |-> "search", email |-> e, slug |-> Unset,
                                            preset |-> preset]]
  /\ UNCHANGED <<organisation, overlapped, stopped>>

\* uniqueSlug(): no slug becomes free, so those it has passed are still taken.
UniqueSlug(r) ==
  /\ registrar[r].pc = "search"
  /\ \E s \in Slugs \ Opened :
       /\ \A t \in Slugs : t < s => t \in Opened
       /\ registrar' = [registrar EXCEPT ![r].pc = "check", ![r].slug = s]
  /\ UNCHANGED <<user, organisation, asked, overlapped, stopped>>

\* createTenant() asks once more.
SlugIsAvailable(r) ==
  /\ Calls(r, "check", "open") /\ registrar[r].slug \notin Opened
  /\ UNCHANGED <<user, organisation, asked, overlapped, stopped>>

\* The unique index on slugs has the last word.
CreateTenant(r) ==
  /\ Calls(r, "open", "roles") /\ registrar[r].slug \notin Opened
  /\ Keeps(r, [roles |-> FALSE, trial |-> FALSE, workflow |-> FALSE, seats |-> Unset,
                items |-> [k \in 1..3 |-> [n \in Names |-> 0]], owner |-> Unset,
                brought |-> registrar[r].preset])

SeedSystemRoles(r) ==
  Calls(r, "roles", "trial") /\ Keeps(r, [Ours(r) EXCEPT !.roles = TRUE])

\* startTrial() writes the subscription, then the usage counters.
CreateSubscription(r) ==
  Calls(r, "trial", "usage") /\ Keeps(r, [Ours(r) EXCEPT !.trial = TRUE])

CreateUsage(r) ==
  Calls(r, "usage", "workflow") /\ Keeps(r, [Ours(r) EXCEPT !.seats = 0])

Adding(r, preset, slug, email) ==
  [pc |-> "look", email |-> email, slug |-> slug, preset |-> preset, kind |-> 1, found |-> {}]

\* Mutant: once there is a workflow the catalogue passes for seeded.
SeedWorkflowOnly(r) ==
  /\ registrar[r].pc = "workflow"
  /\ registrar' = [registrar EXCEPT ![r].pc = "owner"]
  /\ Keeps(r, [Ours(r) EXCEPT !.workflow = TRUE])

\* seedCatalog(): nobody else works for an organisation without members, so
\* what it looks for is not there.
SeedDefaultWorkflow(r) ==
  /\ registrar[r].pc = "workflow"
  /\ registrar' = [registrar EXCEPT ![r] = Adding(r, registrar[r].preset, registrar[r].slug,
                                                  registrar[r].email)]
  /\ Keeps(r, [Ours(r) EXCEPT !.workflow = TRUE])

-----------------------------------------------------------------------------
\* applyIndustryPreset(), long after signup.
ApplyPreset(r, s, preset) ==
  /\ registrar[r] = NoRegistrar /\ asked < MaxBegun
  /\ s \in Opened /\ organisation[s].owner # Unset
  /\ registrar' = [registrar EXCEPT ![r] = Adding(r, preset, s, Unset)]
  /\ asked' = asked + 1
  /\ UNCHANGED <<user, organisation, overlapped, stopped>>

Existing(o, k) == {n \in Names : o.items[k][n] > 0}

Missing(r) == registrar[r].preset \ registrar[r].found

\* Another request adds rows of the same kind it has not all written yet.
Beside(r) ==
  \E d \in Registrars \ {r} :
    /\ registrar[d].pc = "add" /\ registrar[d].slug = registrar[r].slug
    /\ registrar[d].kind = registrar[r].kind /\ Missing(d) # {}

\* The names of one kind are read before any row of it is added.
ReadNames(r) ==
  /\ registrar[r].pc = "look"
  /\ registrar' = [registrar EXCEPT ![r].pc = "add", ![r].found = Existing(Ours(r), registrar[r].kind)]
  /\ overlapped' = IF Beside(r) THEN overlapped \cup {registrar[r].slug} ELSE overlapped
  /\ UNCHANGED <<user, organisation, asked, stopped>>

\* No index keeps two categories from one name, and a field of a name that is
\* taken is given another key; the unique key of a type refuses a second one.
AddRow(r, n) ==
  /\ registrar[r].pc = "add" /\ n \in Missing(r)
  /\ LET k == registrar[r].kind IN
       /\ Kinds[k] = "type" => Ours(r).items[k][n] = 0
       /\ Ours(r).items[k][n] < 2
       /\ Keeps(r, [Ours(r) EXCEPT !.items[k][n] = @ + 1])
  /\ registrar' = [registrar EXCEPT ![r].found = @ \cup {n}]

NextKind(r) ==
  /\ registrar[r].pc = "add" /\ Missing(r) = {} /\ registrar[r].kind < 3
  /\ registrar' = [registrar EXCEPT ![r].pc = "look", ![r].kind = @ + 1, ![r].found = {}]
  /\ UNCHANGED <<user, organisation, asked, overlapped, stopped>>

\* createTenant() returns to register(), applyPreset() to its controller.
AllAdded(r) ==
  /\ registrar[r].pc = "add" /\ Missing(r) = {} /\ registrar[r].kind = 3
  /\ registrar' = [registrar EXCEPT ![r] =
       IF registrar[r].email = Unset THEN [registrar[r] EXCEPT !.pc = "adopt"]
       ELSE [pc |-> "owner", email |-> registrar[r].email, slug |-> registrar[r].slug,
             preset |-> registrar[r].preset]]
  /\ UNCHANGED <<user, organisation, asked, overlapped, stopped>>

\* updateSettings() notes the industry, a label that members may change; then the
\* request tells what it added.
AdoptIndustry(r) ==
  /\ registrar[r].pc = "adopt"
  /\ registrar' = [registrar EXCEPT ![r] = NoRegistrar]
  /\ Keeps(r, [Ours(r) EXCEPT !.brought = @ \cup registrar[r].preset])

-----------------------------------------------------------------------------
CreateOwnerMembership(r) ==
  /\ Calls(r, "owner", "count") /\ Ours(r).roles
  /\ Keeps(r, [Ours(r) EXCEPT !.owner = registrar[r].email])

IncrementSeats(r) ==
  Calls(r, "count", "home") /\ Keeps(r, [Ours(r) EXCEPT !.seats = @ + 1])

\* The last save; the sign-in that follows is that of Sessions.
SetDefaultTenant(r) ==
  /\ registrar[r].pc = "home"
  /\ user' = [user EXCEPT ![registrar[r].email].home = registrar[r].slug]
  /\ registrar' = [registrar EXCEPT ![r] = NoRegistrar]
  /\ UNCHANGED <<organisation, asked, overlapped, stopped>>

\* A call fails (a slug that was taken meanwhile, a type that exists, an error of
\* the database) or the process dies.  Nothing is undone.
RegistrationFails(r) ==
  /\ registrar[r] # NoRegistrar
  /\ registrar' = [registrar EXCEPT ![r] = NoRegistrar]
  /\ stopped' = IF registrar[r].pc \in {"count", "home"} THEN stopped \cup {registrar[r].slug}
                ELSE stopped
  /\ UNCHANGED <<user, organisation, asked, overlapped>>

RegistrationNext ==
  \E r \in Registrars :
    \/ \E preset \in Presets :
         \/ \E e \in Emails : CreateUser(r, e, preset)
         \/ \E s \in Slugs : ApplyPreset(r, s, preset)
    \/ UniqueSlug(r) \/ SlugIsAvailable(r) \/ CreateTenant(r) \/ SeedSystemRoles(r)
    \/ CreateSubscription(r) \/ CreateUsage(r) \/ SeedDefaultWorkflow(r)
    \/ ReadNames(r) \/ \E n \in Names : AddRow(r, n)
    \/ NextKind(r) \/ AllAdded(r) \/ AdoptIndustry(r)
    \/ CreateOwnerMembership(r) \/ IncrementSeats(r) \/ SetDefaultTenant(r)
    \/ RegistrationFails(r)

RegistrationSpec == RegistrationInit /\ [][RegistrationNext]_registrationVars

-----------------------------------------------------------------------------
(* Properties                                                               *)

\* The registration of s has not ended yet.
BeingOpened(s) == \E r \in Registrars : registrar[r].pc \in {"count", "home"} /\ registrar[r].slug = s

\* Although nothing is undone when a registration fails, whoever can enter an
\* organisation finds it whole: with roles, a trial and a workflow, with all of
\* every setup it was opened with or told was added, and, once its registration
\* has ended and did not fail in its last calls, with its owner at home in it and
\* counted.  And however often setups are added ("idempotent", applyPreset()),
\* each name is there once, unless two were added side by side.
OrganisationsOpenWhole ==
  \A s \in Opened :
    LET o == organisation[s] IN
      /\ o.owner # Unset =>
           /\ o.roles /\ o.trial /\ o.workflow
           /\ \A k \in 1..3 : o.brought \subseteq Existing(o, k)
           /\ BeingOpened(s) \/ s \in stopped \/ (o.seats = 1 /\ user[o.owner].home = s)
      /\ s \notin overlapped => \A k \in 1..3, n \in Names : o.items[k][n] <= 1
===============================================================================
