-------------------------------- MODULE Accounts --------------------------------
(***************************************************************************)
(* How a server is set up and gets its accounts: db::init_db and           *)
(* migrate_from_sqlite_if_needed when it starts, then                      *)
(* SystemServiceImpl::init_system, the check_setup middleware and          *)
(* AuthServiceImpl::signup.                                                *)
(*                                                                         *)
(* Nothing here runs in a transaction: each statement is an action of its  *)
(* own, requests interleave between them, and the server may stop at any   *)
(* of them and start again on the same database.                           *)
(***************************************************************************)
EXTENDS Naturals, FiniteSets

CONSTANTS
  Proc,         \* request slots
  Username,
  LegacyUser,   \* accounts of a legacy SQLite database; none: there is no such file
  MaxRequests,  \* bound: requests accepted
  MaxFaults     \* bound: crashes plus failed statements of the data migration

ASSUME AccountsAssumption ==
  /\ LegacyUser \subseteq Username
  /\ MaxRequests \in Nat
  /\ MaxFaults \in Nat

VARIABLES
  server,      \* "down", "copying" the legacy database, or "up"
  legacy,      \* the SQLite file is there (not yet renamed to .bak)
  todo,        \* names of the legacy accounts still to be copied
  users,       \* rows of sys.users
  setup,       \* system_config: value of setup_completed
  deviceName,  \* ... and of the device's name and id: which init wrote them, 0 if none
  deviceId,
  roots,       \* directories made for accounts
  fresh,       \* the next random uuid
  h,           \* requests: program counter and locals
  answered,    \* history: names and ids signup has answered Ok
  printed,     \* history: an error of the copy has been printed, and dropped
  requests, faults

conf == <<setup, deviceName, deviceId>>
vars == <<server, legacy, todo, users, setup, deviceName, deviceId, roots, fresh,
          h, answered, printed, requests, faults>>

Role == {"admin", "user"}
User == [id : Nat, name : Username, role : Role]
IdOf(name) == {u.id : u \in {v \in users : v.name = name}}
Idle == [pc |-> "idle", name |-> "none", id |-> 0]

Init ==
  /\ server = "down"
  /\ legacy = (LegacyUser # {}) /\ todo = {}
  /\ users = {}
  /\ setup = "absent" /\ deviceName = 0 /\ deviceId = 0
  /\ roots = {}
  /\ fresh = 1
  /\ h = [p \in Proc |-> Idle]
  /\ answered = {} /\ printed = FALSE
  /\ requests = 0 /\ faults = 0

\* is_initialized: the users count only where the key is missing.
IsInitialized == IF setup = "absent" THEN users # {} ELSE setup = "true"

\* insert into sys.users: id and username are unique.
CanInsert(name) == \A u \in users : u.name # name
InsertUser(id, name, role) == users' = users \cup {[id |-> id, name |-> name, role |-> role]}

-----------------------------------------------------------------------------
(* Start-up *)

\* Mutant: the file is put aside before it is copied.
BootAside ==
  /\ server = "down"
  /\ setup' = IF setup = "absent" THEN "false" ELSE setup
  /\ server' = "copying" /\ legacy' = FALSE
  /\ todo' = IF legacy THEN LegacyUser ELSE {}
  /\ UNCHANGED <<users, deviceName, deviceId, roots, fresh, h, answered, printed, requests, faults>>

\* The migrations insert setup_completed = 'false' on conflict do nothing.
Boot ==
  /\ server = "down"
  /\ setup' = IF setup = "absent" THEN "false" ELSE setup
  /\ server' = "copying"
  /\ todo' = IF legacy THEN LegacyUser ELSE {}
  /\ UNCHANGED <<legacy, users, deviceName, deviceId, roots, fresh, h, answered, printed, requests, faults>>

\* migrate_table, one row of users: on conflict do nothing.
CopyUser ==
  /\ server = "copying"
  /\ \E name \in todo, role \in Role :
       /\ todo' = todo \ {name}
       /\ IF CanInsert(name) THEN InsertUser(fresh, name, role) ELSE UNCHANGED users
  /\ fresh' = fresh + 1
  /\ UNCHANGED <<server, legacy, conf, roots, h, answered, printed, requests, faults>>

\* Mutant: the copied row replaces the one the migrations have put there.
CopyConfigOver ==
  /\ server = "copying" /\ todo = {}
  /\ legacy' = FALSE /\ server' = "up"
  /\ setup' = IF legacy THEN "true" ELSE setup
  /\ UNCHANGED <<todo, users, deviceName, deviceId, roots, fresh, h, answered, printed, requests, faults>>

\* The rows of system_config, then the rename to .bak.  The legacy database has
\* setup_completed = 'true', which conflicts with the key the migrations have
\* put there: nothing is copied.
CopyConfig ==
  /\ server = "copying" /\ todo = {}
  /\ legacy' = FALSE /\ server' = "up"
  /\ UNCHANGED <<todo, users, conf, roots, fresh, h, answered, printed, requests, faults>>

\* Errors are printed: of a row, which is passed over; of reading the table, which
\* is passed over whole; of connecting to the file, before anything is copied, or
\* of renaming it, after which it is still there.
CopyFails ==
  /\ server = "copying" /\ faults < MaxFaults
  /\ faults' = faults + 1 /\ printed' = TRUE
  /\ \/ /\ \E name \in todo : todo' = todo \ {name}
        /\ UNCHANGED server
     \/ todo' = {} /\ UNCHANGED server
     \/ /\ legacy /\ todo \in {{}, LegacyUser}
        /\ todo' = {} /\ server' = "up"
  /\ UNCHANGED <<legacy, users, conf, roots, fresh, h, answered, requests>>

Crash ==
  /\ server # "down" /\ faults < MaxFaults
  /\ server' = "down" /\ faults' = faults + 1
  /\ h' = [p \in Proc |-> Idle] /\ todo' = {}
  /\ UNCHANGED <<legacy, users, conf, roots, fresh, answered, printed, requests>>

-----------------------------------------------------------------------------
(* Requests *)

Accept(p) ==
  /\ server = "up" /\ h[p].pc = "idle" /\ requests < MaxRequests
  /\ requests' = requests + 1
  /\ UNCHANGED <<server, legacy, todo, faults, printed, users, conf, roots, answered>>

At(p, pc) == server = "up" /\ h[p].pc = pc /\ UNCHANGED <<server, legacy, todo, printed, requests, faults>>
Jump(p, pc) == h' = [h EXCEPT ![p] = IF pc = "idle" THEN Idle ELSE [@ EXCEPT !.pc = pc]]

\* Mutant: the check for a completed setup is left out.
InitSystemAgain(p) ==
  /\ Accept(p)
  /\ \E name \in Username :
       h' = [h EXCEPT ![p] = [pc |-> "admin", name |-> name, id |-> fresh]]
  /\ fresh' = fresh + 1

\* init_system: refused when initialized, else an id for the administrator.
InitSystem(p) ==
  /\ Accept(p)
  /\ IF IsInitialized THEN UNCHANGED <<h, fresh>>
     ELSE /\ \E name \in Username :
               h' = [h EXCEPT ![p] = [pc |-> "admin", name |-> name, id |-> fresh]]
          /\ fresh' = fresh + 1

InsertAdmin(p) ==
  /\ At(p, "admin")
  /\ IF CanInsert(h[p].name)
     THEN InsertUser(h[p].id, h[p].name, "admin") /\ Jump(p, "deviceName")
     ELSE UNCHANGED users /\ Jump(p, "idle")
  /\ UNCHANGED <<conf, roots, fresh, answered>>

WriteDeviceName(p) ==
  /\ At(p, "deviceName")
  /\ deviceName' = h[p].id
  /\ Jump(p, "deviceId")
  /\ UNCHANGED <<users, setup, deviceId, roots, fresh, answered>>

\* Mutant: the setup is marked completed before the device's id is written.
WriteDeviceIdLate(p) ==
  /\ At(p, "deviceId")
  /\ setup' = "true"
  /\ Jump(p, "completed")
  /\ UNCHANGED <<users, deviceName, deviceId, roots, fresh, answered>>

WriteDeviceId(p) ==
  /\ At(p, "deviceId")
  /\ deviceId' = h[p].id
  /\ Jump(p, "completed")
  /\ UNCHANGED <<users, setup, deviceName, roots, fresh, answered>>

\* Mutant: is_initialized does not know the value that is written.
MarkCompletedYes(p) ==
  /\ At(p, "completed")
  /\ setup' = "yes"
  /\ Jump(p, "adminRoot")
  /\ UNCHANGED <<users, deviceName, deviceId, roots, fresh, answered>>

MarkCompleted(p) ==
  /\ At(p, "completed")
  /\ setup' = "true"
  /\ Jump(p, "adminRoot")
  /\ UNCHANGED <<users, deviceName, deviceId, roots, fresh, answered>>

\* FS_BASE_DIR/users/<uid>: not where the document store keeps its users.
MakeAdminRoot(p) ==
  /\ At(p, "adminRoot")
  /\ roots' = roots \cup {<<"users", h[p].id>>}
  /\ Jump(p, "idle")
  /\ UNCHANGED <<users, conf, fresh, answered>>

\* Mutant: the middleware lets signup through as it does the init requests.
SignupUnchecked(p) ==
  /\ Accept(p)
  /\ \E name \in Username : h' = [h EXCEPT ![p] = [pc |-> "lookup", name |-> name, id |-> fresh]]
  /\ fresh' = fresh + 1

\* check_setup, then signup.
Signup(p) ==
  /\ Accept(p)
  /\ IF ~IsInitialized THEN UNCHANGED <<h, fresh>>
     ELSE /\ \E name \in Username :
               h' = [h EXCEPT ![p] = [pc |-> "lookup", name |-> name, id |-> fresh]]
          /\ fresh' = fresh + 1

\* A name that exists is answered with its account.
Lookup(p) ==
  /\ At(p, "lookup")
  /\ IF CanInsert(h[p].name)
     THEN Jump(p, "insert") /\ UNCHANGED answered
     ELSE /\ answered' = answered \cup {[name |-> h[p].name, id |-> i] : i \in IdOf(h[p].name)}
          /\ Jump(p, "idle")
  /\ UNCHANGED <<users, conf, roots, fresh>>

\* Mutant: on conflict do nothing.
InsertAccountOrNothing(p) ==
  /\ At(p, "insert")
  /\ IF CanInsert(h[p].name) THEN InsertUser(h[p].id, h[p].name, "user") ELSE UNCHANGED users
  /\ Jump(p, "userRoot")
  /\ UNCHANGED <<conf, roots, fresh, answered>>

InsertAccount(p) ==
  /\ At(p, "insert")
  /\ IF CanInsert(h[p].name)
     THEN InsertUser(h[p].id, h[p].name, "user") /\ Jump(p, "userRoot")
     ELSE UNCHANGED users /\ Jump(p, "idle")
  /\ UNCHANGED <<conf, roots, fresh, answered>>

MakeUserRoot(p) ==
  /\ At(p, "userRoot")
  /\ roots' = roots \cup {<<"User", h[p].name>>}
  /\ answered' = answered \cup {[name |-> h[p].name, id |-> h[p].id]}
  /\ Jump(p, "idle")
  /\ UNCHANGED <<users, conf, fresh>>

-----------------------------------------------------------------------------

Start == Boot \/ CopyUser \/ CopyConfig \/ CopyFails
Serve(p) ==
  \/ InitSystem(p) \/ InsertAdmin(p) \/ WriteDeviceName(p) \/ WriteDeviceId(p)
  \/ MarkCompleted(p) \/ MakeAdminRoot(p)
  \/ Signup(p) \/ Lookup(p) \/ InsertAccount(p) \/ MakeUserRoot(p)

Next == Start \/ Crash \/ \E p \in Proc : Serve(p)
Spec == Init /\ [][Next]_vars

-----------------------------------------------------------------------------
(* Properties *)

PC == {"idle", "admin", "deviceName", "deviceId", "completed", "adminRoot",
       "lookup", "insert", "userRoot"}
Locals == [pc : PC, name : Username \cup {"none"}, id : Nat]

\* The types of the database, of the server and of its requests.
TypeOK ==
  /\ server \in {"down", "copying", "up"} /\ legacy \in BOOLEAN /\ todo \subseteq LegacyUser
  /\ users \subseteq User
  /\ setup \in {"absent", "false", "true"} /\ deviceName \in Nat /\ deviceId \in Nat
  /\ fresh \in Nat \ {0}
  /\ h \in [Proc -> Locals]
  /\ answered \subseteq [name : Username, id : Nat]
  /\ printed \in BOOLEAN
  /\ requests \in 0 .. MaxRequests /\ faults \in 0 .. MaxFaults

\* A server whose setup is marked completed has a named device with an id and an
\* administrator: however many inits overlap, and wherever one was cut off.
CompletedIsComplete ==
  setup = "true" => deviceName # 0 /\ deviceId # 0 /\ \E u \in users : u.role = "admin"

\* Until then nobody can sign up: an ordinary account is a copied one.
NoSignupBeforeSetup ==
  \A u \in users : u.role = "user" /\ u.name \notin LegacyUser => setup = "true"

\* An id that signup has answered is that of the account of that name, though
\* several signups of one name overlap.
AnswersNameAccounts ==
  \A a \in answered : \E u \in users : u.name = a.name /\ u.id = a.id

\* Once the setup is completed, and no init is left that had begun before, it
\* stays so, and nothing changes what the setup has written: neither requests nor
\* a restart, which runs the migrations and perhaps the copy again.
Setting == {"admin", "deviceName", "deviceId", "completed"}
Settled == setup = "true" /\ \A p \in Proc : h[p].pc \notin Setting
SetupIsFinal ==
  [][Settled => /\ Settled' /\ conf' = conf
                /\ \A u \in users' \ users : u.role = "admin" => server = "copying"]_vars

\* The legacy file is put aside only when the accounts in it have been copied,
\* or the error of one has been printed: a stop in the middle is made up for.
NothingLostInCopy ==
  (~legacy /\ ~printed /\ server # "copying") =>
    \A name \in LegacyUser : \E u \in users : u.name = name

\* "Compatible with the old logic: without the key setup_completed, look at the
\* users" (system_service.rs:241): a server that was set up under the legacy
\* database still is when it comes up with that database's accounts.
LegacyStaysSetUp ==
  (server = "up" /\ \E u \in users : u.name \in LegacyUser) => IsInitialized
=============================================================================
