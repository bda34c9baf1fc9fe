----------------------------- MODULE AccountsProofs -----------------------------
(* What the statements of a setup and of a signup leave behind, wherever the  *)
(* server stops and however many of them overlap.                            *)
EXTENDS Accounts, TLAPS

\* What the earlier statements of a request have written is still there: no
\* statement of the module deletes an account or a setting.
AdminExists == \E u \in users : u.role = "admin"
SetupSoFar(l) ==
  /\ l.pc \in {"deviceName", "deviceId", "completed", "adminRoot"} => AdminExists
  /\ l.pc \in {"deviceId", "completed", "adminRoot"} => deviceName # 0
  /\ l.pc \in {"completed", "adminRoot"} => deviceId # 0
SignupSoFar(l) ==
  /\ l.pc \in {"lookup", "insert", "userRoot"} => setup = "true"
  /\ l.pc = "userRoot" => \E u \in users : u.name = l.name /\ u.id = l.id
Named(l) == l.pc # "idle" => l.name \in Username /\ l.id # 0

InFlight == \A p \in Proc : SetupSoFar(h[p]) /\ SignupSoFar(h[p]) /\ Named(h[p])
Migrated == server # "down" => setup # "absent"

AccountsInv ==
  /\ TypeOK /\ Migrated /\ InFlight
  /\ CompletedIsComplete /\ NoSignupBeforeSetup /\ AnswersNameAccounts

LEMMA InitAccounts == Init => AccountsInv
<1> SUFFICES ASSUME Init PROVE AccountsInv
  OBVIOUS
<1>1. legacy \in BOOLEAN
  BY Zenon DEF Init
<1>2. h \in [Proc -> Locals]
  BY DEF Init, Idle, Locals, PC
<1>3. /\ server = "down" /\ todo = {} /\ users = {} /\ setup = "absent" /\ answered = {}
      /\ deviceName = 0 /\ deviceId = 0 /\ fresh = 1 /\ requests = 0 /\ faults = 0
  BY DEF Init
<1>4. printed \in BOOLEAN
  BY Zenon DEF Init
<1>5. TypeOK
  BY <1>1, <1>2, <1>3, <1>4, AccountsAssumption DEF TypeOK
<1>6. InFlight
  BY DEF Init, InFlight, SetupSoFar, SignupSoFar, Named, Idle
<1> QED
  BY <1>3, <1>5, <1>6 DEF AccountsInv, Migrated, CompletedIsComplete, NoSignupBeforeSetup,
     AnswersNameAccounts

\* The steps of the server: the locals of the requests stay, or are gone.
LEMMA StartKeeps ==
  ASSUME AccountsInv, Start \/ Crash
  PROVE  AccountsInv'
<1> USE AccountsAssumption DEF AccountsInv, conf, TypeOK, Migrated, InFlight, SetupSoFar, SignupSoFar,
     Named, AdminExists, Locals, PC, User, Role, CompletedIsComplete, NoSignupBeforeSetup,
     AnswersNameAccounts
<1>1. CASE Boot
  BY <1>1 DEF Boot
<1>2. CASE CopyUser
  BY <1>2 DEF CopyUser, CanInsert, InsertUser
<1>3. CASE CopyConfig
  BY <1>3 DEF CopyConfig
<1>4. CASE CopyFails
  BY <1>4 DEF CopyFails
<1>5. CASE Crash
  BY <1>5 DEF Crash, Idle
<1> QED BY <1>1, <1>2, <1>3, <1>4, <1>5 DEF Start

LEMMA RequestKeeps ==
  ASSUME AccountsInv, NEW p \in Proc, Serve(p)
  PROVE  AccountsInv'
<1> USE AccountsAssumption DEF AccountsInv, conf, TypeOK, Migrated, InFlight, SetupSoFar, SignupSoFar,
     Named, AdminExists, Locals, PC, User, Role, CompletedIsComplete, NoSignupBeforeSetup,
     AnswersNameAccounts, Idle, Jump, Accept, At, CanInsert, InsertUser
<1>1. CASE InitSystem(p)
  BY <1>1 DEF InitSystem, IsInitialized
<1>2. CASE InsertAdmin(p)
  <2>1. CASE CanInsert(h[p].name)
    <3> DEFINE new == [id |-> h[p].id, name |-> h[p].name, role |-> "admin"]
    <3>1. new \in User /\ users' = users \cup {new}
      BY <1>2, <2>1 DEF InsertAdmin
    <3>2. new \in users' /\ new.role = "admin" /\ users \subseteq users'
      BY <3>1
    <3>3. TypeOK' /\ Migrated'
      BY <1>2, <2>1, <3>1 DEF InsertAdmin
    <3>4. InFlight'
      BY <1>2, <2>1, <3>2 DEF InsertAdmin
    <3>5. CompletedIsComplete' /\ NoSignupBeforeSetup' /\ AnswersNameAccounts'
      BY <1>2, <2>1, <3>1 DEF InsertAdmin
    <3> QED BY <3>3, <3>4, <3>5
  <2>2. CASE ~CanInsert(h[p].name)
    BY <1>2, <2>2 DEF InsertAdmin
  <2> QED BY <2>1, <2>2
<1>3. CASE WriteDeviceName(p)
  BY <1>3 DEF WriteDeviceName
<1>4. CASE WriteDeviceId(p)
  BY <1>4 DEF WriteDeviceId
<1>5. CASE MarkCompleted(p)
  BY <1>5 DEF MarkCompleted
<1>6. CASE MakeAdminRoot(p)
  BY <1>6 DEF MakeAdminRoot
<1>7. CASE Signup(p)
  BY <1>7 DEF Signup, IsInitialized
<1>8. CASE Lookup(p)
  BY <1>8 DEF Lookup, IdOf
<1>9. CASE InsertAccount(p)
  <2>1. CASE CanInsert(h[p].name)
    <3> DEFINE new == [id |-> h[p].id, name |-> h[p].name, role |-> "user"]
    <3>1. new \in User /\ users' = users \cup {new}
      BY <1>9, <2>1 DEF InsertAccount
    <3>2. new \in users' /\ new.name = h[p].name /\ new.id = h[p].id /\ users \subseteq users'
      BY <3>1
    <3>3. TypeOK' /\ Migrated'
      BY <1>9, <2>1, <3>1 DEF InsertAccount
    <3>4. InFlight'
      BY <1>9, <2>1, <3>2 DEF InsertAccount
    <3>5. CompletedIsComplete' /\ NoSignupBeforeSetup' /\ AnswersNameAccounts'
      BY <1>9, <2>1, <3>1 DEF InsertAccount
    <3> QED BY <3>3, <3>4, <3>5
  <2>2. CASE ~CanInsert(h[p].name)
    BY <1>9, <2>2 DEF InsertAccount
  <2> QED BY <2>1, <2>2
<1>10. CASE MakeUserRoot(p)
  BY <1>10 DEF MakeUserRoot
<1> QED BY <1>1, <1>2, <1>3, <1>4, <1>5, <1>6, <1>7, <1>8, <1>9, <1>10 DEF Serve

LEMMA StepAccounts == AccountsInv /\ [Next]_vars => AccountsInv'
<1>1. CASE UNCHANGED vars
  BY <1>1 DEF vars, AccountsInv, TypeOK, Migrated, InFlight, SetupSoFar, SignupSoFar, Named,
     AdminExists, Locals, CompletedIsComplete, NoSignupBeforeSetup, AnswersNameAccounts
<1> QED BY <1>1, StartKeeps, RequestKeeps DEF Next

\* The inductive invariant of the setup, the accounts and the requests in flight.
THEOREM AccountsCorrect == Spec => []AccountsInv
BY InitAccounts, StepAccounts, PTL DEF Spec

\* A completed setup is whole, for any number of overlapping inits, any number
\* of restarts and any legacy accounts.
THEOREM SetupWhole == Spec => []CompletedIsComplete
<1>1. AccountsInv => CompletedIsComplete
  BY DEF AccountsInv
<1> QED BY <1>1, AccountsCorrect, PTL

\* Nobody signs up before the setup is completed.
THEOREM SignupWaits == Spec => []NoSignupBeforeSetup
<1>1. AccountsInv => NoSignupBeforeSetup
  BY DEF AccountsInv
<1> QED BY <1>1, AccountsCorrect, PTL

\* Every id a signup has answered is that of the account of the name it was asked for.
THEOREM SignupNames == Spec => []AnswersNameAccounts
<1>1. AccountsInv => AnswersNameAccounts
  BY DEF AccountsInv
<1> QED BY <1>1, AccountsCorrect, PTL

\* A step of a settled server.
SettledStep ==
  Settled => /\ Settled' /\ conf' = conf
             /\ \A u \in users' \ users : u.role = "admin" => server = "copying"

LEMMA SettledStays == AccountsInv /\ [Next]_vars => SettledStep
<1> SUFFICES ASSUME AccountsInv, [Next]_vars, Settled
             PROVE  /\ Settled' /\ conf' = conf
                    /\ \A u \in users' \ users : u.role = "admin" => server = "copying"
  BY DEF SettledStep
<1> USE DEF Settled, Setting, conf
<1>1. setup = "true" /\ h \in [Proc -> Locals] /\ \A p \in Proc : h[p].pc \notin Setting
  BY DEF AccountsInv, TypeOK
<1>2. CASE UNCHANGED vars
  BY <1>1, <1>2 DEF vars
<1>3. CASE Start \/ Crash
  BY <1>1, <1>3 DEF Start, Boot, CopyUser, CopyConfig, CopyFails, Crash, InsertUser, Idle
<1>4. ASSUME NEW p \in Proc, Serve(p)
      PROVE  /\ Settled' /\ conf' = conf
             /\ \A u \in users' \ users : u.role = "admin" => server = "copying"
  <2> USE <1>1 DEF At, Accept, Jump, Idle, Locals
  <2>1. ~(InsertAdmin(p) \/ WriteDeviceName(p) \/ WriteDeviceId(p) \/ MarkCompleted(p))
    BY DEF InsertAdmin, WriteDeviceName, WriteDeviceId, MarkCompleted
  <2>2. CASE InitSystem(p)
    BY <2>2 DEF InitSystem, IsInitialized
  <2>3. CASE Signup(p)
    BY <2>3 DEF Signup, IsInitialized
  <2>4. CASE MakeAdminRoot(p) \/ Lookup(p) \/ MakeUserRoot(p)
    BY <2>4 DEF MakeAdminRoot, Lookup, MakeUserRoot
  <2>5. CASE InsertAccount(p)
    BY <2>5 DEF InsertAccount, InsertUser
  <2> QED BY <1>4, <2>1, <2>2, <2>3, <2>4, <2>5 DEF Serve
<1> QED BY <1>2, <1>3, <1>4 DEF Next

\* Once settled the setup is final, for any number of requests and restarts.
THEOREM SetupFinal == Spec => SetupIsFinal
<1>1. AccountsInv /\ [Next]_vars => [SettledStep]_vars
  BY SettledStays
<1> QED BY <1>1, AccountsCorrect, PTL DEF Spec, SetupIsFinal, SettledStep

\* AccountTypes: the types of the database, of the server and of its requests.
THEOREM AccountTypes == Spec => []TypeOK
<1>1. AccountsInv => TypeOK
  BY DEF AccountsInv
<1> QED BY <1>1, AccountsCorrect, PTL

-----------------------------------------------------------------------------
(* The copy of the legacy accounts. *)

\* As long as no error was printed, a copy that is under way has done the accounts it
\* no longer has to do, and a file that was put aside has been done.
CopiedBut(names) == \A name \in LegacyUser \ names : \E u \in users : u.name = name
CopyInv ==
  ~printed => /\ server = "copying" /\ legacy => CopiedBut(todo)
              /\ ~legacy => CopiedBut({})

\* No statement deletes an account.
LEMMA UsersStay == [Next]_vars => users \subseteq users'
<1> SUFFICES ASSUME [Next]_vars PROVE users \subseteq users'
  OBVIOUS
<1>1. CASE UNCHANGED vars
  BY <1>1 DEF vars
<1>2. CASE Start \/ Crash
  BY <1>2 DEF Start, Boot, CopyUser, CopyConfig, CopyFails, Crash, InsertUser
<1>3. ASSUME NEW p \in Proc, Serve(p) PROVE users \subseteq users'
  BY <1>3 DEF Serve, InitSystem, InsertAdmin, WriteDeviceName, WriteDeviceId, MarkCompleted,
     MakeAdminRoot, Signup, Lookup, InsertAccount, MakeUserRoot, InsertUser, Accept
<1> QED BY <1>1, <1>2, <1>3 DEF Next

\* A request changes nothing of the copy.
LEMMA RequestsLeaveCopy ==
  ASSUME NEW p \in Proc, Serve(p)
  PROVE  UNCHANGED <<server, legacy, todo, printed>>
BY DEF Serve, InitSystem, InsertAdmin, WriteDeviceName, WriteDeviceId, MarkCompleted,
   MakeAdminRoot, Signup, Lookup, InsertAccount, MakeUserRoot, Accept, At

LEMMA CopyStep == CopyInv /\ [Next]_vars => CopyInv'
<1> SUFFICES ASSUME CopyInv, [Next]_vars PROVE CopyInv'
  OBVIOUS
<1>1. \A names : CopiedBut(names) => CopiedBut(names)'
  BY UsersStay DEF CopiedBut
<1>2. CASE UNCHANGED <<server, legacy, todo, printed>>
  BY <1>1, <1>2 DEF CopyInv
<1>3. CASE Boot
  <2>1. legacy => todo' = LegacyUser
    BY <1>3 DEF Boot
  <2>2. \A names : names = LegacyUser => CopiedBut(names)'
    BY DEF CopiedBut
  <2>3. legacy' = legacy /\ printed' = printed
    BY <1>3 DEF Boot
  <2> QED BY <1>1, <2>1, <2>2, <2>3 DEF CopyInv
<1>4. CASE CopyUser
  <2>1. PICK name \in todo, role \in Role :
          /\ todo' = todo \ {name}
          /\ IF CanInsert(name) THEN InsertUser(fresh, name, role) ELSE UNCHANGED users
    BY <1>4 DEF CopyUser
  <2>2. UNCHANGED <<server, legacy, printed>>
    BY <1>4 DEF CopyUser
  <2>3. \E u \in users' : u.name = name
    <3>1. CASE CanInsert(name)
      <4>1. [id |-> fresh, name |-> name, role |-> role] \in users'
        BY <2>1, <3>1 DEF InsertUser
      <4> QED BY <4>1
    <3>2. CASE ~CanInsert(name)
      BY <2>1, <3>2 DEF CanInsert
    <3> QED BY <3>1, <3>2
  <2>4. CopiedBut(todo) => CopiedBut(todo)'
    BY <1>1, <2>1, <2>3, UsersStay DEF CopiedBut
  <2> QED BY <1>1, <2>2, <2>4 DEF CopyInv
<1>5. CASE CopyConfig
  <2>1. server = "copying" /\ todo = {} /\ printed' = printed /\ server' = "up"
    BY <1>5 DEF CopyConfig
  <2> QED BY <1>1, <2>1 DEF CopyInv
<1>6. CASE CopyFails
  BY <1>6 DEF CopyFails, CopyInv
<1>7. CASE Crash
  BY <1>1, <1>7 DEF Crash, CopyInv
<1> QED
  BY <1>2, <1>3, <1>4, <1>5, <1>6, <1>7, RequestsLeaveCopy DEF Next, Start, vars

\* NothingLost: a legacy file that was put aside without a printed error has left an
\* account for each of its own, wherever the copy was cut off and started again.
THEOREM NothingLost == Spec => []NothingLostInCopy
<1>1. Init => CopyInv
  BY DEF Init, CopyInv, CopiedBut
<1>2. CopyInv => NothingLostInCopy
  BY DEF CopyInv, CopiedBut, NothingLostInCopy
<1> QED BY <1>1, <1>2, CopyStep, PTL DEF Spec
=============================================================================
