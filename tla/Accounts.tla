------------------------------ MODULE Accounts ------------------------------
(***************************************************************************)
(* Accounts and their profiles.  An account (a User row) and its Profile   *)
(* are saved by separate statements in autocommit mode, getOrCreateProfile *)
(* makes up for a profile that is missing, and the forms save the whole    *)
(* rows that were read when their page began.  WgWeb has what verifying    *)
(* and deleting a user does to clients and WireGuard; here are the rows.   *)
(***************************************************************************)
EXTENDS Integers, FiniteSets, Functions

CONSTANTS
  Account,     \* ids of User rows
  Admin,       \* the account of manage.py createsuperuser, which makes no profile
  ProfileId,   \* tells a Profile row from earlier ones of the same account
  Page,        \* threads that serve a page at the same time
  None,        \* Python's None
  Crashes      \* whether threads are killed and statements fail

ASSUME AccountsAssumption ==
  /\ Admin \in Account
  /\ None \notin Account \cup ProfileId
  /\ Crashes \in BOOLEAN

VARIABLES
  account,   \* User rows
  profile,   \* Profile rows, by the account each belongs to
  page,      \* what each thread is doing, with its local variables
  bare       \* accounts left without a profile by a step nothing follows up

vars == <<account, profile, page, bare>>

\* The fields that the properties tell apart: one of UserUpdateForm that is for
\* administrators, one of ProfileAdminForm.
UserRow == [is_staff : BOOLEAN]
ProfileRow == [id : ProfileId, verified : BOOLEAN]

Task ==
  [op : {"none", "register", "newuser", "profiles", "filter", "settings",
         "password", "deleteuser", "verify"},
   at : {"idle", "createUser", "saveNewProfile", "getProfiles", "readProfiles",
         "getUser", "getProfile", "saveUser", "saveProfile", "deleteUser",
         "updateVerified"},
   staff : BOOLEAN,                       \* request.user.is_staff, as it was read
   allowed : BOOLEAN,                     \* may this user have the settings page
   user : Account \cup {None},            \* the account the page is about
   row : UserRow,                         \* its User instance
   prof : [id : ProfileId \cup {None}, verified : BOOLEAN],   \* its Profile instance
   todo : SUBSET Account]                 \* the rest of a query's rows

Idle ==
  [op |-> "none", at |-> "idle", staff |-> FALSE, allowed |-> FALSE, user |-> None,
   row |-> [is_staff |-> FALSE], prof |-> [id |-> None, verified |-> FALSE],
   todo |-> {}]

Put(t, id, row) == [i \in DOMAIN t \cup {id} |-> IF i = id THEN row ELSE t[i]]
Delete(t, id) == Restrict(t, DOMAIN t \ {id})

Init ==
  /\ account = [u \in {Admin} |-> [is_staff |-> TRUE]]
  /\ profile = << >>
  /\ page = [r \in Page |-> Idle]
  /\ bare = {}

Finish(r) == page' = [page EXCEPT ![r] = Idle]

\* The handler raises or is done, and changes no row.
Leave(r) == Finish(r) /\ UNCHANGED <<account, profile, bare>>

\* A row is inserted under an id that no row has and no handler remembers.
FreshAccounts == Account \ (DOMAIN account \cup {Admin}
                   \cup UNION {{page[r].user} \cup page[r].todo : r \in Page})
FreshProfiles(u) ==
  ProfileId \ ({profile[w].id : w \in DOMAIN profile \cap {u}}
               \cup {page[r].prof.id : r \in {q \in Page : page[q].user = u}})

\* INSERT of a profile that is not verified; user is unique and a foreign key.
CanInsertProfile(u) == u \in DOMAIN account /\ u \notin DOMAIN profile

InsertProfile(u) ==
  \E i \in FreshProfiles(u) :
    profile' = Put(profile, u, [id |-> i, verified |-> FALSE])

(* get_or_create: reads the profile or inserts one; when another request inserted
   it first the profile is read again, and without an account it raises. *)
getOrCreateProfile(u) ==
  IF u \in DOMAIN profile THEN UNCHANGED <<profile, bare>>
                          ELSE InsertProfile(u) /\ bare' = bare \ {u}

-----------------------------------------------------------------------------
\* register and newuser: createUser

Begin(r, op, at, u, staff) ==
  page' = [page EXCEPT ![r] = [Idle EXCEPT !.op = op, !.at = at, !.user = u,
                                           !.staff = staff, !.allowed = staff]]

Staff(u) == u \in DOMAIN account /\ account[u].is_staff

Register(r) ==
  /\ page[r].op = "none"
  /\ \E u \in FreshAccounts : Begin(r, "register", "createUser", u, FALSE)
  /\ UNCHANGED <<account, profile, bare>>

NewUser(r) ==
  /\ page[r].op = "none"
  /\ \E a \in DOMAIN account : Staff(a)
  /\ \E u \in FreshAccounts : Begin(r, "newuser", "createUser", u, TRUE)
  /\ UNCHANGED <<account, profile, bare>>

\* user.save()
CreateUser(r) ==
  /\ page[r].at = "createUser"
  /\ account' = Put(account, page[r].user, [is_staff |-> FALSE])
  /\ page' = [page EXCEPT ![r].at = "saveNewProfile"]
  /\ UNCHANGED <<profile, bare>>

profileOnlyBuilt(r) == page[r].at = "saveNewProfile" /\ Leave(r)       \* mutant

\* profile.save() of a new instance is an INSERT, and fails when getOrCreateProfile
\* was first or the account is deleted already.
SaveNewProfile(r) ==
  LET u == page[r].user IN
  /\ page[r].at = "saveNewProfile"
  /\ IF CanInsertProfile(u) THEN InsertProfile(u) /\ bare' = bare \ {u}
                            ELSE UNCHANGED <<profile, bare>>
  /\ Finish(r)
  /\ UNCHANGED account

-----------------------------------------------------------------------------
\* Pages that show profiles: mykeys the user's own, listusers those of all users
\* but superusers

ShowProfiles(r) ==
  /\ page[r].op = "none"
  /\ \E a \in DOMAIN account :
       \E shown \in {{a}} \cup (IF Staff(a) THEN {DOMAIN account \ {Admin}} ELSE {}) :
         page' = [page EXCEPT ![r] = [Idle EXCEPT !.op = "profiles",
                    !.at = "getProfiles", !.staff = Staff(a), !.todo = shown]]
  /\ UNCHANGED <<account, profile, bare>>

GetProfiles(r) ==
  /\ page[r].at = "getProfiles"
  /\ \E u \in page[r].todo :
       IF u \in DOMAIN account
       THEN /\ getOrCreateProfile(u)
            /\ page' = [page EXCEPT ![r].todo = @ \ {u}]
            /\ UNCHANGED account
       ELSE Leave(r)

\* filterUsers of all users, or of those whose profile has the wanted verified.
FilterUsers(r) ==
  /\ page[r].op = "none"
  /\ \E a \in DOMAIN account : Staff(a)
  /\ \E wanted \in SUBSET BOOLEAN :
       LET Listed == {u \in DOMAIN account \ {Admin} :
                        IF wanted = BOOLEAN THEN TRUE
                        ELSE u \in DOMAIN profile /\ profile[u].verified \in wanted}
       IN  page' = [page EXCEPT ![r] = [Idle EXCEPT !.op = "filter",
                      !.at = "readProfiles", !.staff = TRUE, !.todo = Listed]]
  /\ UNCHANGED <<account, profile, bare>>

\* u.profile raises when there is none.
ReadProfiles(r) ==
  /\ page[r].at = "readProfiles"
  /\ \E u \in page[r].todo :
       page' = IF u \in DOMAIN profile THEN [page EXCEPT ![r].todo = @ \ {u}]
                                       ELSE [page EXCEPT ![r] = Idle]
  /\ UNCHANGED <<account, profile, bare>>

PageDone(r) ==
  /\ page[r].at \in {"getProfiles", "readProfiles"}
  /\ page[r].todo = {}
  /\ Leave(r)

-----------------------------------------------------------------------------
\* usersettings: an administrator's or one's own page, and its three forms

UserSettings(r) ==
  /\ page[r].op = "none"
  /\ \E a \in DOMAIN account, u \in DOMAIN account,
        op \in {"settings", "password", "deleteuser"} :
       page' = [page EXCEPT ![r] = [Idle EXCEPT !.op = op, !.at = "getUser",
                  !.user = u, !.staff = Staff(a), !.allowed = Staff(a) \/ a = u]]
  /\ UNCHANGED <<account, profile, bare>>

\* getUserFromId, and getById of verify; without an account the next call raises.
GetUser(r) ==
  LET u == page[r].user IN
  /\ page[r].at = "getUser"
  /\ page' = IF u \in DOMAIN account
             THEN [page EXCEPT ![r].at = "getProfile", ![r].row = account[u]]
             ELSE [page EXCEPT ![r] = Idle]
  /\ UNCHANGED <<account, profile, bare>>

\* The User instance once the form has set its fields.
EditedUser(t) ==
  IF t.op = "settings" /\ t.staff /\ t.user # Admin THEN UserRow ELSE {t.row}

EditedVerified(t, verified) ==
  CASE t.op = "settings" /\ t.staff -> BOOLEAN
    [] t.op = "verify" -> {~verified}
    [] OTHER -> {verified}

NextOf(op) == CASE op = "verify" -> "updateVerified"
                [] op = "deleteuser" -> "deleteUser"
                [] OTHER -> "saveUser"

\* The profile is there before the page turns away who may not have it.
GetProfile(r) ==
  LET t == page[r]  u == t.user IN
  /\ t.at = "getProfile"
  /\ IF u \in DOMAIN account
     THEN /\ getOrCreateProfile(u)
          /\ IF t.allowed
             THEN \E row \in EditedUser(t), v \in EditedVerified(t, profile'[u].verified) :
                    page' = [page EXCEPT ![r].at = NextOf(t.op), ![r].row = row,
                               ![r].prof = [id |-> profile'[u].id, verified |-> v]]
             ELSE Finish(r)
          /\ UNCHANGED account
     ELSE Leave(r)

profileOfAnyone(t) == t.op = "settings"                                \* mutant

SavesProfile(t) == t.op = "settings" /\ t.staff

\* user_form.save() or password_form.save(): the whole row, inserted when it is gone.
SaveUser(r) ==
  LET t == page[r] IN
  /\ t.at = "saveUser"
  /\ account' = Put(account, t.user, t.row)
  /\ bare' = IF t.user \in DOMAIN account THEN bare ELSE bare \cup {t.user}
  /\ IF SavesProfile(t) THEN page' = [page EXCEPT ![r].at = "saveProfile"]
                        ELSE Finish(r)
  /\ UNCHANGED profile

(* profile_form.save(): updates the row with its id or inserts it, which fails when
   the account is gone or has another profile by now. *)
SaveProfile(r) ==
  LET t == page[r]  u == t.user IN
  /\ t.at = "saveProfile"
  /\ IF \/ u \in DOMAIN profile /\ profile[u].id = t.prof.id
        \/ CanInsertProfile(u)
     THEN profile' = Put(profile, u, t.prof) /\ bare' = bare \ {u}
     ELSE UNCHANGED <<profile, bare>>
  /\ Finish(r)
  /\ UNCHANGED account

profileStays(u) == UNCHANGED profile                                   \* mutant

\* The rows that refer to the user go with it.
DeleteProfile(u) == profile' = Delete(profile, u)

DeleteUser(r) ==
  LET u == page[r].user IN
  /\ page[r].at = "deleteUser"
  /\ account' = Delete(account, u)
  /\ DeleteProfile(u)
  /\ bare' = bare \ {u}
  /\ Finish(r)

-----------------------------------------------------------------------------
\* verify: switchVerifyProfile

VerifyUser(r) ==
  /\ page[r].op = "none"
  /\ \E a \in DOMAIN account : Staff(a)
  /\ \E u \in DOMAIN account : Begin(r, "verify", "getUser", u, TRUE)
  /\ UNCHANGED <<account, profile, bare>>

\* Saves one field of the row with the id that was read, or raises; the profile is
\* then read again for the answer.
UpdateVerified(r) ==
  LET t == page[r]  u == t.user IN
  /\ t.at = "updateVerified"
  /\ IF u \in DOMAIN profile /\ profile[u].id = t.prof.id
     THEN /\ profile' = [profile EXCEPT ![u].verified = t.prof.verified]
          /\ page' = [page EXCEPT ![r] = [Idle EXCEPT !.op = "verify",
                        !.at = "getProfiles", !.staff = TRUE, !.todo = {u}]]
          /\ UNCHANGED <<account, bare>>
     ELSE Leave(r)

-----------------------------------------------------------------------------

(* The thread is killed, the form was not valid, or a statement fails: a username
   taken meanwhile, a lock that is not granted, a profile inserted while the rows
   of a deleted user go. *)
Crash(r) ==
  /\ Crashes
  /\ page[r].op # "none"
  /\ bare' = IF page[r].at = "saveNewProfile" /\ CanInsertProfile(page[r].user)
             THEN bare \cup {page[r].user} ELSE bare
  /\ Finish(r)
  /\ UNCHANGED <<account, profile>>

Next ==
  \E r \in Page :
    \/ Register(r) \/ NewUser(r) \/ CreateUser(r) \/ SaveNewProfile(r)
    \/ ShowProfiles(r) \/ GetProfiles(r) \/ FilterUsers(r) \/ ReadProfiles(r) \/ PageDone(r)
    \/ UserSettings(r) \/ GetUser(r) \/ GetProfile(r)
    \/ SaveUser(r) \/ SaveProfile(r) \/ DeleteUser(r)
    \/ VerifyUser(r) \/ UpdateVerified(r)
    \/ Crash(r)

Spec == Init /\ [][Next]_vars

-----------------------------------------------------------------------------
\* Properties

\* A profile belongs to an account.
TypeOK ==
  /\ DOMAIN account \subseteq Account /\ \A u \in DOMAIN account : account[u] \in UserRow
  /\ DOMAIN profile \subseteq DOMAIN account
  /\ \A u \in DOMAIN profile : profile[u] \in ProfileRow
  /\ page \in [Page -> Task]
  /\ bare \subseteq DOMAIN account

(* An account has a profile, which filterUsers reads without asking, while no
   registration of it runs: whoever asks for the profile first, the registrations
   that fail on it included.  The exceptions are a registration that is killed
   between its two saves and a form that saved an account which was deleted. *)
ProfilesComplete ==
  \A u \in DOMAIN account \ ({Admin} \cup bare) :
    \/ u \in DOMAIN profile
    \/ \E r \in Page : page[r].at = "saveNewProfile" /\ page[r].user = u

\* Thread r makes the step, and its user was staff when its page began.
ByStaff == \E r \in Page : page[r].staff /\ page'[r] # page[r]

Verified(u) == u \in DOMAIN profile /\ profile[u].verified

(* Nobody becomes verified except by a page of an administrator: not by registering
   again, by a profile that is made up for, or by a form that saves whole rows. *)
OnlyStaffVerify == [][\A u \in Account : Verified(u)' /\ ~Verified(u) => ByStaff]_vars

=============================================================================
