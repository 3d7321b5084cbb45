---------------------------- MODULE AccountsProofs ---------------------------
(***************************************************************************)
(* What Accounts keeps for any number of accounts, profiles and pages,     *)
(* with or without threads that are killed.                                *)
(***************************************************************************)
EXTENDS Accounts, TLAPS

\* What a handler has read or was given by the time it uses it.
LocalOK(t) ==
  /\ t.at \in {"createUser", "saveNewProfile", "getUser", "getProfile", "saveUser",
               "saveProfile", "deleteUser", "updateVerified"} => t.user \in Account
  /\ t.at \in {"saveProfile", "updateVerified"} => t.prof \in ProfileRow
  /\ t.at = "saveUser" /\ SavesProfile(t) => t.prof \in ProfileRow
  /\ t.op = "none" => t.at = "idle"
  /\ t.op = "verify" \/ t.at \in {"saveProfile", "updateVerified"} => t.staff

RowsOK ==
  /\ DOMAIN account \subseteq Account /\ \A u \in DOMAIN account : account[u] \in UserRow
  /\ DOMAIN profile \subseteq DOMAIN account
  /\ \A u \in DOMAIN profile : profile[u] \in ProfileRow
  /\ bare \subseteq DOMAIN account

PagesOK == page \in [Page -> Task] /\ \A r \in Page : LocalOK(page[r])

IInv == RowsOK /\ PagesOK /\ ProfilesComplete

\* Thread r is about to save the profile of a new account u.
Registering(t, u) == t.at = "saveNewProfile" /\ t.user = u

-----------------------------------------------------------------------------
(* What a step of one page has to establish: its own local variables, the rows,
   and of an account without a profile that is not given up either that the page
   goes on registering it, or that it was such an account of another page. *)
LEMMA StepOfPage ==
  ASSUME IInv, NEW r \in Page, NEW t \in Task, LocalOK(t),
         page' = [page EXCEPT ![r] = t], RowsOK',
         \A u \in DOMAIN account' \ ({Admin} \cup bare' \cup DOMAIN profile') :
           \/ Registering(t, u)
           \/ /\ u \in DOMAIN account \ (bare \cup DOMAIN profile)
              /\ ~Registering(page[r], u)
  PROVE  IInv'
<1>1. page' \in [Page -> Task] /\ page'[r] = t
  BY DEF IInv, PagesOK
<1>2. \A q \in Page : q # r => page'[q] = page[q]
  BY DEF IInv, PagesOK
<1>3. PagesOK'
  BY <1>1, <1>2 DEF IInv, PagesOK
<1>4. ASSUME NEW u \in DOMAIN account' \ ({Admin} \cup bare' \cup DOMAIN profile')
      PROVE  \E q \in Page : page'[q].at = "saveNewProfile" /\ page'[q].user = u
  <2>1. CASE Registering(t, u)
    BY <1>1, <2>1 DEF Registering
  <2>2. CASE u \in DOMAIN account \ (bare \cup DOMAIN profile) /\ ~Registering(page[r], u)
    <3>1. PICK q \in Page : Registering(page[q], u)
      BY <1>4, <2>2 DEF IInv, ProfilesComplete, Registering
    <3> QED
      BY <1>2, <2>2, <3>1 DEF Registering
  <2> QED
    BY <2>1, <2>2
<1>5. ProfilesComplete'
  BY <1>4 DEF ProfilesComplete
<1> QED
  BY <1>3, <1>5 DEF IInv

\* A step that writes no row, of a page that is not registering anyone.
LEMMA ReadingStep ==
  ASSUME IInv, NEW r \in Page, NEW t \in Task, LocalOK(t),
         page' = [page EXCEPT ![r] = t], UNCHANGED <<account, profile, bare>>,
         page[r].at # "saveNewProfile"
  PROVE  IInv'
<1>1. RowsOK'
  BY DEF IInv, RowsOK
<1> QED
  BY <1>1, StepOfPage DEF Registering

LEMMA IdleOK == Idle \in Task /\ LocalOK(Idle)
BY DEF Idle, Task, UserRow, LocalOK, SavesProfile

LEMMA PageIsTask ==
  ASSUME IInv, NEW r \in Page
  PROVE  page[r] \in Task /\ LocalOK(page[r])
BY DEF IInv, PagesOK

\* A handler that raises or is done.
LEMMA LeaveKeepsIInv ==
  ASSUME IInv, NEW r \in Page, Leave(r), page[r].at # "saveNewProfile"
  PROVE  IInv'
BY IdleOK, ReadingStep DEF Leave, Finish

-----------------------------------------------------------------------------
\* What the writes do to the rows

LEMMA PutProfile ==
  ASSUME RowsOK, NEW u \in DOMAIN account, NEW row \in ProfileRow,
         profile' = Put(profile, u, row), account' = account, bare' = bare \ {u}
  PROVE  RowsOK' /\ DOMAIN profile' = DOMAIN profile \cup {u} /\ profile'[u] = row
BY DEF RowsOK, Put

LEMMA NewProfile ==
  ASSUME RowsOK, NEW u \in DOMAIN account, InsertProfile(u),
         account' = account, bare' = bare \ {u}
  PROVE  /\ RowsOK'
         /\ DOMAIN profile' = DOMAIN profile \cup {u}
         /\ profile'[u] \in ProfileRow /\ ~profile'[u].verified
<1>1. PICK i \in FreshProfiles(u) :
        profile' = Put(profile, u, [id |-> i, verified |-> FALSE])
  BY DEF InsertProfile
<1> DEFINE row == [id |-> i, verified |-> FALSE]
<1>2. row \in ProfileRow /\ ~row.verified
  BY DEF FreshProfiles, ProfileRow
<1>3. profile' = Put(profile, u, row)
  BY <1>1
<1> HIDE DEF row
<1> QED
  BY <1>2, <1>3, PutProfile

LEMMA ProfileThere ==
  ASSUME RowsOK, NEW u \in DOMAIN account, getOrCreateProfile(u), account' = account
  PROVE  /\ RowsOK'
         /\ DOMAIN profile' = DOMAIN profile \cup {u}
         /\ profile'[u] \in ProfileRow
         /\ bare \ {u} \subseteq bare'
<1>1. CASE u \in DOMAIN profile
  BY <1>1 DEF getOrCreateProfile, RowsOK
<1>2. CASE u \notin DOMAIN profile
  BY <1>2, NewProfile DEF getOrCreateProfile
<1> QED
  BY <1>1, <1>2

-----------------------------------------------------------------------------
\* The actions

LEMMA BeginsKeepIInv ==
  ASSUME IInv, NEW r \in Page,
         Register(r) \/ NewUser(r) \/ VerifyUser(r) \/ UserSettings(r)
           \/ ShowProfiles(r) \/ FilterUsers(r)
  PROVE  IInv'
<1>0. page[r].at = "idle"
  BY PageIsTask DEF LocalOK, Register, NewUser, VerifyUser, UserSettings, ShowProfiles,
     FilterUsers
<1>1. DOMAIN account \subseteq Account
  BY DEF IInv, RowsOK
<1>2. CASE Register(r)
  <2>1. PICK u \in Account : Begin(r, "register", "createUser", u, FALSE)
    BY <1>2 DEF Register, FreshAccounts
  <2> QED
    BY <1>2, <2>1, <1>0, ReadingStep DEF Register, Begin, Idle, Task, UserRow, LocalOK, SavesProfile
<1>3. CASE NewUser(r)
  <2>1. PICK u \in Account : Begin(r, "newuser", "createUser", u, TRUE)
    BY <1>3 DEF NewUser, FreshAccounts
  <2> QED
    BY <1>3, <2>1, <1>0, ReadingStep DEF NewUser, Begin, Idle, Task, UserRow, LocalOK, SavesProfile
<1>4. CASE VerifyUser(r)
  <2>1. PICK u \in Account : Begin(r, "verify", "getUser", u, TRUE)
    BY <1>1, <1>4 DEF VerifyUser
  <2> QED
    BY <1>4, <2>1, <1>0, ReadingStep DEF VerifyUser, Begin, Idle, Task, UserRow, LocalOK, SavesProfile
<1>5. CASE UserSettings(r)
  <2>1. PICK a \in DOMAIN account, u \in DOMAIN account,
             op \in {"settings", "password", "deleteuser"} :
          page' = [page EXCEPT ![r] = [Idle EXCEPT !.op = op, !.at = "getUser",
                     !.user = u, !.staff = Staff(a), !.allowed = Staff(a) \/ a = u]]
    BY <1>5 DEF UserSettings
  <2>2. Staff(a) \in BOOLEAN
    BY DEF Staff, IInv, RowsOK, UserRow
  <2> DEFINE t == [Idle EXCEPT !.op = op, !.at = "getUser",
                     !.user = u, !.staff = Staff(a), !.allowed = Staff(a) \/ a = u]
  <2>3. t \in Task /\ LocalOK(t)
    BY <1>1, <2>2 DEF Idle, Task, UserRow, LocalOK, SavesProfile
  <2> HIDE DEF t
  <2> QED
    BY <1>5, <2>1, <2>3, <1>0, ReadingStep DEF UserSettings, t
<1>6. CASE ShowProfiles(r)
  <2>1. PICK a \in DOMAIN account, shown \in SUBSET Account :
          page' = [page EXCEPT ![r] = [Idle EXCEPT !.op = "profiles",
                     !.at = "getProfiles", !.staff = Staff(a), !.todo = shown]]
    BY <1>1, <1>6 DEF ShowProfiles
  <2>2. Staff(a) \in BOOLEAN
    BY DEF Staff, IInv, RowsOK, UserRow
  <2> DEFINE t == [Idle EXCEPT !.op = "profiles",
                     !.at = "getProfiles", !.staff = Staff(a), !.todo = shown]
  <2>3. t \in Task /\ LocalOK(t)
    BY <2>2 DEF Idle, Task, UserRow, LocalOK, SavesProfile
  <2> QED
    BY <1>6, <2>1, <2>3, <1>0, ReadingStep DEF ShowProfiles
<1>7. CASE FilterUsers(r)
  <2>1. PICK listed \in SUBSET Account :
          page' = [page EXCEPT ![r] = [Idle EXCEPT !.op = "filter",
                     !.at = "readProfiles", !.staff = TRUE, !.todo = listed]]
    BY <1>1, <1>7 DEF FilterUsers
  <2> QED
    BY <1>7, <2>1, <1>0, ReadingStep DEF FilterUsers, Idle, Task, UserRow, LocalOK, SavesProfile
<1> QED
  BY <1>2, <1>3, <1>4, <1>5, <1>6, <1>7

LEMMA CreateUserKeepsIInv ==
  ASSUME IInv, NEW r \in Page, CreateUser(r)
  PROVE  IInv'
<1> DEFINE t == [page[r] EXCEPT !.at = "saveNewProfile"]
<1>1. page[r].user \in Account /\ page[r] \in Task /\ LocalOK(page[r])
      /\ page[r].at = "createUser"
  BY PageIsTask DEF CreateUser, LocalOK
<1>2. t \in Task /\ LocalOK(t)
  <2>1. t \in Task
    BY <1>1 DEF Task
  <2>2. t.at = "saveNewProfile" /\ t.user = page[r].user /\ t.op = page[r].op
        /\ t.staff = page[r].staff
    BY <1>1 DEF Task
  <2> QED
    BY <1>1, <2>1, <2>2 DEF LocalOK
<1>3. RowsOK'
  BY <1>1 DEF CreateUser, IInv, RowsOK, Put, UserRow
<1>4. page' = [page EXCEPT ![r] = t]
  BY DEF CreateUser
<1>5. DOMAIN account' = DOMAIN account \cup {page[r].user} /\ t.user = page[r].user
  BY <1>1 DEF CreateUser, Put, Task
<1>6. t.at = "saveNewProfile"
  BY <1>1 DEF Task
<1> HIDE DEF t
<1> QED
  BY <1>2, <1>3, <1>4, <1>5, <1>6, StepOfPage DEF CreateUser, Registering

LEMMA SaveNewProfileKeepsIInv ==
  ASSUME IInv, NEW r \in Page, SaveNewProfile(r)
  PROVE  IInv'
<1> DEFINE u == page[r].user
<1>1. page' = [page EXCEPT ![r] = Idle] /\ account' = account
  BY DEF SaveNewProfile, Finish
<1>2. CASE CanInsertProfile(u)
  <2>1. RowsOK' /\ DOMAIN profile' = DOMAIN profile \cup {u} /\ bare' = bare \ {u}
    BY <1>1, <1>2, NewProfile DEF SaveNewProfile, CanInsertProfile, IInv
  <2> QED
    BY <1>1, <2>1, IdleOK, StepOfPage DEF Registering
<1>3. CASE ~CanInsertProfile(u)
  <2>1. profile' = profile /\ bare' = bare
    BY <1>3 DEF SaveNewProfile
  <2>2. RowsOK'
    BY <1>1, <2>1 DEF IInv, RowsOK
  <2> QED
    BY <1>1, <1>3, <2>1, <2>2, IdleOK, StepOfPage DEF Registering, CanInsertProfile
<1> QED
  BY <1>2, <1>3

LEMMA GetProfilesKeepsIInv ==
  ASSUME IInv, NEW r \in Page, GetProfiles(r)
  PROVE  IInv'
<1>1. PICK u \in page[r].todo :
        IF u \in DOMAIN account
        THEN /\ getOrCreateProfile(u)
             /\ page' = [page EXCEPT ![r].todo = @ \ {u}]
             /\ UNCHANGED account
        ELSE Leave(r)
  BY DEF GetProfiles
<1>2. CASE u \notin DOMAIN account
  BY <1>1, <1>2, LeaveKeepsIInv DEF GetProfiles
<1>3. CASE u \in DOMAIN account
  <2> DEFINE t == [page[r] EXCEPT !.todo = @ \ {u}]
  <2>1. t \in Task /\ LocalOK(t)
    BY PageIsTask DEF Task, LocalOK, SavesProfile
  <2>2. page' = [page EXCEPT ![r] = t]
    BY <1>1, <1>3
  <2>3. RowsOK' /\ DOMAIN profile' = DOMAIN profile \cup {u} /\ bare \ {u} \subseteq bare'
    BY <1>1, <1>3, ProfileThere DEF IInv
  <2>4. account' = account /\ page[r].at # "saveNewProfile"
    BY <1>1, <1>3 DEF GetProfiles
  <2> HIDE DEF t
  <2> QED
    BY <2>1, <2>2, <2>3, <2>4, StepOfPage DEF Registering
<1> QED
  BY <1>2, <1>3

LEMMA ReadProfilesKeepsIInv ==
  ASSUME IInv, NEW r \in Page, ReadProfiles(r)
  PROVE  IInv'
<1>1. PICK u \in page[r].todo :
        page' = IF u \in DOMAIN profile THEN [page EXCEPT ![r].todo = @ \ {u}]
                                        ELSE [page EXCEPT ![r] = Idle]
  BY DEF ReadProfiles
<1> DEFINE t == IF u \in DOMAIN profile THEN [page[r] EXCEPT !.todo = @ \ {u}] ELSE Idle
<1>2. t \in Task /\ LocalOK(t)
  BY PageIsTask, IdleOK DEF Task, LocalOK, SavesProfile
<1>3. page' = [page EXCEPT ![r] = t]
  BY <1>1
<1> HIDE DEF t
<1> QED
  BY <1>2, <1>3, ReadingStep DEF ReadProfiles

LEMMA GetUserKeepsIInv ==
  ASSUME IInv, NEW r \in Page, GetUser(r)
  PROVE  IInv'
<1> DEFINE u == page[r].user
           t == IF u \in DOMAIN account
                THEN [page[r] EXCEPT !.at = "getProfile", !.row = account[u]] ELSE Idle
<1>1. u \in DOMAIN account => account[u] \in UserRow
  BY DEF IInv, RowsOK
<1>2. page[r] \in Task /\ LocalOK(page[r]) /\ page[r].at = "getUser"
  BY PageIsTask DEF GetUser
<1>3. t \in Task /\ LocalOK(t)
  <2>1. CASE u \notin DOMAIN account
    BY <2>1, IdleOK
  <2>2. CASE u \in DOMAIN account
    <3>1. t \in Task
      BY <1>1, <1>2, <2>2 DEF Task
    <3>2. t.at = "getProfile" /\ t.user = u /\ t.op = page[r].op /\ t.staff = page[r].staff
      BY <1>2, <2>2 DEF Task
    <3> QED
      BY <1>2, <3>1, <3>2 DEF LocalOK
  <2> QED
    BY <2>1, <2>2
<1>4. page' = [page EXCEPT ![r] = t]
  BY DEF GetUser
<1> HIDE DEF t
<1> QED
  BY <1>3, <1>4, ReadingStep DEF GetUser

\* The handler goes on with the instances the forms or the switch have edited.
LEMMA EditedOK ==
  ASSUME NEW t \in Task, NEW p \in ProfileRow,
         NEW row \in EditedUser(t), NEW v \in EditedVerified(t, p.verified)
  PROVE  row \in UserRow /\ [id |-> p.id, verified |-> v] \in ProfileRow
BY DEF Task, EditedUser, EditedVerified, ProfileRow

LEMMA GetProfileKeepsIInv ==
  ASSUME IInv, NEW r \in Page, GetProfile(r)
  PROVE  IInv'
<1> DEFINE t == page[r]
           u == page[r].user
<1>1. t \in Task /\ LocalOK(t) /\ t.at = "getProfile" /\ u \in Account
  BY PageIsTask DEF GetProfile, LocalOK
<1>2. CASE u \notin DOMAIN account
  BY <1>1, <1>2, LeaveKeepsIInv DEF GetProfile
<1>3. CASE u \in DOMAIN account
  <2>1. getOrCreateProfile(u) /\ account' = account
    BY <1>3 DEF GetProfile
  <2>2. /\ RowsOK' /\ DOMAIN profile' = DOMAIN profile \cup {u}
        /\ profile'[u] \in ProfileRow /\ bare \ {u} \subseteq bare'
    BY <1>3, <2>1, ProfileThere DEF IInv
  <2>3. ASSUME NEW n \in Task, LocalOK(n), page' = [page EXCEPT ![r] = n]
        PROVE  IInv'
    BY <1>1, <2>1, <2>2, <2>3, StepOfPage DEF Registering
  <2>4. CASE ~t.allowed
    BY <1>3, <2>3, <2>4, IdleOK DEF GetProfile, Finish
  <2>5. CASE t.allowed
    <3>1. PICK row \in EditedUser(t), v \in EditedVerified(t, profile'[u].verified) :
            page' = [page EXCEPT ![r].at = NextOf(t.op), ![r].row = row,
                       ![r].prof = [id |-> profile'[u].id, verified |-> v]]
      BY <1>3, <2>5 DEF GetProfile
    <3> DEFINE prof == [id |-> profile'[u].id, verified |-> v]
               n == [t EXCEPT !.at = NextOf(t.op), !.row = row, !.prof = prof]
    <3>2. row \in UserRow /\ prof \in ProfileRow
      BY <1>1, <2>2, <3>1, EditedOK
    <3>3. prof \in [id : ProfileId \cup {None}, verified : BOOLEAN]
      BY <3>2 DEF ProfileRow
    <3>4. page' = [page EXCEPT ![r] = n]
      BY <3>1
    <3> HIDE DEF prof
    <3>5. NextOf(t.op) \in {"updateVerified", "deleteUser", "saveUser"}
          /\ (NextOf(t.op) = "updateVerified" => t.op = "verify")
      BY DEF NextOf
    <3>6. n \in Task
      BY <1>1, <3>2, <3>3, <3>5 DEF Task
    <3>7. /\ n.user = t.user /\ n.op = t.op /\ n.staff = t.staff /\ n.prof = prof
          /\ n.at \in {"updateVerified", "deleteUser", "saveUser"}
          /\ n.at = "updateVerified" => t.op = "verify"
      BY <1>1, <3>5 DEF Task
    <3>8. LocalOK(n)
      BY <1>1, <3>2, <3>7 DEF LocalOK
    <3> HIDE DEF n
    <3> QED
      BY <2>3, <3>4, <3>6, <3>8
  <2> QED
    BY <2>4, <2>5
<1> QED
  BY <1>2, <1>3

LEMMA SaveUserKeepsIInv ==
  ASSUME IInv, NEW r \in Page, SaveUser(r)
  PROVE  IInv'
<1> DEFINE u == page[r].user
           t == IF SavesProfile(page[r]) THEN [page[r] EXCEPT !.at = "saveProfile"] ELSE Idle
<1>1. page[r] \in Task /\ LocalOK(page[r]) /\ page[r].at = "saveUser" /\ u \in Account
  BY PageIsTask DEF SaveUser, LocalOK
<1>2. page[r].row \in UserRow
  BY <1>1 DEF Task
<1>3. t \in Task /\ LocalOK(t) /\ t.at # "saveNewProfile"
  BY <1>1, IdleOK DEF Task, LocalOK, SavesProfile, Idle
<1>4. page' = [page EXCEPT ![r] = t]
  BY DEF SaveUser, Finish
<1>5. /\ DOMAIN account' = DOMAIN account \cup {u}
      /\ bare' = IF u \in DOMAIN account THEN bare ELSE bare \cup {u}
      /\ profile' = profile
  BY DEF SaveUser, Put
<1>6. RowsOK'
  BY <1>1, <1>2, <1>5 DEF SaveUser, Put, IInv, RowsOK
<1> HIDE DEF t
<1> QED
  BY <1>1, <1>3, <1>4, <1>5, <1>6, StepOfPage DEF Registering

LEMMA SaveProfileKeepsIInv ==
  ASSUME IInv, NEW r \in Page, SaveProfile(r)
  PROVE  IInv'
<1> DEFINE u == page[r].user
           saved == \/ u \in DOMAIN profile /\ profile[u].id = page[r].prof.id
                    \/ CanInsertProfile(u)
<1>1. /\ page' = [page EXCEPT ![r] = Idle] /\ account' = account
      /\ page[r].at = "saveProfile" /\ page[r].prof \in ProfileRow
  BY PageIsTask DEF SaveProfile, Finish, LocalOK
<1>2. CASE saved
  <2>1. profile' = Put(profile, u, page[r].prof) /\ bare' = bare \ {u} /\ u \in DOMAIN account
    BY <1>2 DEF SaveProfile, CanInsertProfile, IInv, RowsOK
  <2>2. RowsOK' /\ DOMAIN profile' = DOMAIN profile \cup {u}
    BY <1>1, <2>1, PutProfile DEF IInv
  <2> QED
    BY <1>1, <2>1, <2>2, IdleOK, StepOfPage DEF Registering
<1>3. CASE ~saved
  <2>1. profile' = profile /\ bare' = bare
    BY <1>3 DEF SaveProfile
  <2> QED
    BY <1>1, <2>1, IdleOK, ReadingStep
<1> QED
  BY <1>2, <1>3

LEMMA DeleteUserKeepsIInv ==
  ASSUME IInv, NEW r \in Page, DeleteUser(r)
  PROVE  IInv'
<1> DEFINE u == page[r].user
<1>1. /\ page' = [page EXCEPT ![r] = Idle] /\ bare' = bare \ {u}
      /\ account' = Restrict(account, DOMAIN account \ {u})
      /\ profile' = Restrict(profile, DOMAIN profile \ {u})
      /\ page[r].at = "deleteUser"
  BY DEF DeleteUser, DeleteProfile, Delete, Finish
<1>2. /\ DOMAIN account' = DOMAIN account \ {u} /\ DOMAIN profile' = DOMAIN profile \ {u}
      /\ \A v \in DOMAIN account' : account'[v] = account[v]
      /\ \A v \in DOMAIN profile' : profile'[v] = profile[v]
  BY <1>1 DEF Restrict
<1>3. RowsOK'
  BY <1>1, <1>2 DEF IInv, RowsOK
<1> QED
  BY <1>1, <1>2, <1>3, IdleOK, StepOfPage DEF Registering

LEMMA UpdateVerifiedKeepsIInv ==
  ASSUME IInv, NEW r \in Page, UpdateVerified(r)
  PROVE  IInv'
<1> DEFINE u == page[r].user
           saved == u \in DOMAIN profile /\ profile[u].id = page[r].prof.id
           t == [Idle EXCEPT !.op = "verify", !.at = "getProfiles", !.staff = TRUE, !.todo = {u}]
<1>1. /\ page[r].at = "updateVerified" /\ page[r].prof \in ProfileRow
      /\ u \in Account
  BY PageIsTask DEF UpdateVerified, LocalOK
<1>2. CASE ~saved
  BY <1>1, <1>2, LeaveKeepsIInv DEF UpdateVerified
<1>3. CASE saved
  <2>1. /\ profile' = [profile EXCEPT ![u].verified = page[r].prof.verified]
        /\ page' = [page EXCEPT ![r] = t]
        /\ account' = account /\ bare' = bare
    BY <1>3 DEF UpdateVerified
  <2>2. RowsOK' /\ DOMAIN profile' = DOMAIN profile
    BY <1>1, <1>3, <2>1 DEF IInv, RowsOK, ProfileRow
  <2>3. t \in Task /\ LocalOK(t)
    BY <1>1 DEF Idle, Task, UserRow, LocalOK, SavesProfile
  <2> HIDE DEF t
  <2> QED
    BY <1>1, <2>1, <2>2, <2>3, StepOfPage DEF Registering
<1> QED
  BY <1>2, <1>3

LEMMA CrashKeepsIInv ==
  ASSUME IInv, NEW r \in Page, Crash(r)
  PROVE  IInv'
<1> DEFINE u == page[r].user
           given == page[r].at = "saveNewProfile" /\ CanInsertProfile(u)
<1>1. /\ page' = [page EXCEPT ![r] = Idle] /\ account' = account /\ profile' = profile
      /\ bare' = IF given THEN bare \cup {u} ELSE bare
  BY DEF Crash, Finish
<1>2. RowsOK'
  BY <1>1 DEF IInv, RowsOK, CanInsertProfile
<1> QED
  BY <1>1, <1>2, IdleOK, StepOfPage DEF Registering, CanInsertProfile

-----------------------------------------------------------------------------
LEMMA InitIInv == Init => IInv
<1> SUFFICES ASSUME Init PROVE IInv
  OBVIOUS
<1>1. RowsOK
  BY AccountsAssumption DEF Init, RowsOK, UserRow
<1>2. PagesOK
  BY IdleOK DEF Init, PagesOK
<1>3. ProfilesComplete
  BY DEF Init, ProfilesComplete
<1> QED
  BY <1>1, <1>2, <1>3 DEF IInv

LEMMA NextKeepsIInv == IInv /\ [Next]_vars => IInv'
<1> SUFFICES ASSUME IInv, [Next]_vars PROVE IInv'
  OBVIOUS
<1>1. CASE UNCHANGED vars
  BY <1>1 DEF vars, IInv, RowsOK, PagesOK, ProfilesComplete
<1>2. CASE Next
  <2>1. PICK r \in Page :
          \/ Register(r) \/ NewUser(r) \/ CreateUser(r) \/ SaveNewProfile(r)
          \/ ShowProfiles(r) \/ GetProfiles(r) \/ FilterUsers(r) \/ ReadProfiles(r) \/ PageDone(r)
          \/ UserSettings(r) \/ GetUser(r) \/ GetProfile(r)
          \/ SaveUser(r) \/ SaveProfile(r) \/ DeleteUser(r)
          \/ VerifyUser(r) \/ UpdateVerified(r)
          \/ Crash(r)
    BY <1>2 DEF Next
  <2>2. CASE PageDone(r)
    <3>1. page[r].at # "saveNewProfile" /\ Leave(r)
      BY <2>2 DEF PageDone
    <3> QED
      BY <3>1, LeaveKeepsIInv
  <2>3. CASE \/ Register(r) \/ NewUser(r) \/ VerifyUser(r) \/ UserSettings(r)
             \/ ShowProfiles(r) \/ FilterUsers(r)
    BY <2>3, BeginsKeepIInv
  <2> QED
    BY <2>1, <2>2, <2>3, CreateUserKeepsIInv, SaveNewProfileKeepsIInv,
       GetProfilesKeepsIInv, ReadProfilesKeepsIInv, GetUserKeepsIInv,
       GetProfileKeepsIInv, SaveUserKeepsIInv, SaveProfileKeepsIInv,
       DeleteUserKeepsIInv, UpdateVerifiedKeepsIInv, CrashKeepsIInv
<1> QED
  BY <1>1, <1>2

LEMMA IInvTypes == IInv => TypeOK
BY DEF IInv, RowsOK, PagesOK, TypeOK

(* Whoever registers, saves, verifies and deletes at the same time, and whatever is
   killed: profiles belong to accounts, and handlers hold what their code expects. *)
THEOREM AccountsTypeCorrect == Spec => []TypeOK
<1> QED
  BY InitIInv, NextKeepsIInv, IInvTypes, PTL DEF Spec

(* Every account has a profile while no registration of it runs, but for the
   registrations that are killed and the forms that save a deleted account. *)
THEOREM ProfilesStayComplete == Spec => []ProfilesComplete
<1>1. IInv => ProfilesComplete
  BY DEF IInv
<1> QED
  BY <1>1, InitIInv, NextKeepsIInv, PTL DEF Spec

-----------------------------------------------------------------------------
\* A step by which nobody becomes verified.
NobodyVerified == \A u \in Account : Verified(u)' => Verified(u)

LEMMA InsertVerifiesNobody ==
  ASSUME NEW u \in Account \ DOMAIN profile, InsertProfile(u)
  PROVE  NobodyVerified
<1>1. PICK i \in FreshProfiles(u) :
        profile' = Put(profile, u, [id |-> i, verified |-> FALSE])
  BY DEF InsertProfile
<1>2. ASSUME NEW v \in Account, Verified(v)'
      PROVE  Verified(v)
  <2>1. v \in DOMAIN profile \cup {u} /\ profile'[v].verified
    BY <1>1, <1>2 DEF Verified, Put
  <2>2. v # u
    BY <1>1, <2>1 DEF Put
  <2> QED
    BY <1>1, <2>1, <2>2 DEF Verified, Put
<1> QED
  BY <1>2 DEF NobodyVerified

LEMMA SameVerifiesNobody ==
  ASSUME profile' = profile
  PROVE  NobodyVerified
BY DEF NobodyVerified, Verified

LEMMA ThereVerifiesNobody ==
  ASSUME NEW u \in Account, getOrCreateProfile(u)
  PROVE  NobodyVerified
BY InsertVerifiesNobody, SameVerifiesNobody DEF getOrCreateProfile

LEMMA DeleteVerifiesNobody ==
  ASSUME NEW u, DeleteProfile(u)
  PROVE  NobodyVerified
BY DEF NobodyVerified, Verified, DeleteProfile, Delete, Restrict

\* The two writes that can verify are those of an administrator's page.
LEMMA SaveByStaff ==
  ASSUME IInv, NEW r \in Page, SaveProfile(r) \/ UpdateVerified(r)
  PROVE  NobodyVerified \/ ByStaff
<1>1. page[r].staff /\ page[r].at \in {"saveProfile", "updateVerified"}
  BY PageIsTask DEF SaveProfile, UpdateVerified, LocalOK
<1>2. page'[r].at \in {"idle", "getProfiles"}
  <2>1. page \in [Page -> Task]
    BY DEF IInv, PagesOK
  <2>2. CASE SaveProfile(r)
    BY <2>1, <2>2 DEF SaveProfile, Finish, Idle
  <2>3. CASE UpdateVerified(r)
    <3> DEFINE t == [Idle EXCEPT !.op = "verify", !.at = "getProfiles", !.staff = TRUE,
                                 !.todo = {page[r].user}]
    <3>1. page' = [page EXCEPT ![r] = t] \/ page' = [page EXCEPT ![r] = Idle]
      BY <2>3 DEF UpdateVerified, Leave, Finish
    <3>2. t.at = "getProfiles" /\ Idle.at = "idle"
      BY DEF Idle
    <3> HIDE DEF t
    <3> QED
      BY <2>1, <3>1, <3>2
  <2> QED
    BY <2>2, <2>3
<1> QED
  BY <1>1, <1>2 DEF ByStaff

LEMMA NextVerifies ==
  ASSUME IInv, [Next]_vars
  PROVE  \A u \in Account : Verified(u)' /\ ~Verified(u) => ByStaff
<1> SUFFICES NobodyVerified \/ ByStaff
  BY DEF NobodyVerified
<1>1. CASE UNCHANGED vars
  BY <1>1, SameVerifiesNobody DEF vars
<1>2. CASE Next
  <2>1. DOMAIN account \subseteq Account
    BY DEF IInv, RowsOK
  <2>2. PICK r \in Page :
          \/ Register(r) \/ NewUser(r) \/ CreateUser(r) \/ SaveNewProfile(r)
          \/ ShowProfiles(r) \/ GetProfiles(r) \/ FilterUsers(r) \/ ReadProfiles(r) \/ PageDone(r)
          \/ UserSettings(r) \/ GetUser(r) \/ GetProfile(r)
          \/ SaveUser(r) \/ SaveProfile(r) \/ DeleteUser(r)
          \/ VerifyUser(r) \/ UpdateVerified(r)
          \/ Crash(r)
    BY <1>2 DEF Next
  <2>3. CASE \/ Register(r) \/ NewUser(r) \/ CreateUser(r) \/ ShowProfiles(r)
             \/ FilterUsers(r) \/ ReadProfiles(r) \/ PageDone(r) \/ UserSettings(r)
             \/ GetUser(r) \/ SaveUser(r) \/ VerifyUser(r) \/ Crash(r)
    <3>1. profile' = profile
      BY <2>3 DEF Register, NewUser, CreateUser, ShowProfiles, FilterUsers, ReadProfiles,
         PageDone, Leave, UserSettings, GetUser, SaveUser, VerifyUser, Crash
    <3> QED
      BY <3>1, SameVerifiesNobody
  <2>4. CASE SaveNewProfile(r)
    BY <2>1, <2>4, InsertVerifiesNobody, SameVerifiesNobody
       DEF SaveNewProfile, CanInsertProfile
  <2>5. CASE GetProfiles(r)
    <3>1. (\E u \in DOMAIN account : getOrCreateProfile(u)) \/ profile' = profile
      BY <2>5 DEF GetProfiles, Leave
    <3> QED
      BY <2>1, <3>1, ThereVerifiesNobody, SameVerifiesNobody
  <2>6. CASE GetProfile(r)
    <3>1. \/ page[r].user \in DOMAIN account /\ getOrCreateProfile(page[r].user)
          \/ profile' = profile
      BY <2>6 DEF GetProfile, Leave
    <3> QED
      BY <2>1, <3>1, ThereVerifiesNobody, SameVerifiesNobody
  <2>7. CASE DeleteUser(r)
    BY <2>7, DeleteVerifiesNobody DEF DeleteUser
  <2> QED
    BY <2>2, <2>3, <2>4, <2>5, <2>6, <2>7, SaveByStaff
<1> QED
  BY <1>1, <1>2

(* Nobody becomes verified except by a page that began as an administrator's. *)
THEOREM VerifiedByStaffOnly == Spec => OnlyStaffVerify
<1>1. IInv /\ [Next]_vars
        => [\A u \in Account : Verified(u)' /\ ~Verified(u) => ByStaff]_vars
  BY NextVerifies
<1> QED
  BY <1>1, InitIInv, NextKeepsIInv, PTL DEF Spec, OnlyStaffVerify

=============================================================================
