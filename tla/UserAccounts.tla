----------------------------- MODULE UserAccounts -----------------------------
(***************************************************************************)
(* One account (a username and an e-mail address): registration with its   *)
(* mail, verification, edits by an administrator and changes of the        *)
(* password.  The users row and the user_settings row of the account are   *)
(* inserted in one transaction; later every request loads them, changes    *)
(* what it was asked to and saves users, user_settings or both whole: what *)
(* differs from the row as it is read again is written.  A password that   *)
(* differs is hashed on the way, even if it is a hash.                     *)
(*                                                                         *)
(* A transaction's updates take effect when it commits; a row another      *)
(* transaction updated first only makes it wait.  Names, roles and         *)
(* factories are left out.                                                 *)
(***************************************************************************)
EXTENDS Integers, Sequences

CONSTANTS
    Requests,  \* concurrent requests
    Passwords, \* passwords in use, and their hashes in the row (salts are left out)
    MaxTokens, \* bound on the tokens that are generated
    MaxEdits,  \* bound on edits, changes of password and needless mails
    MaxFaults  \* bound on failed requests, failed mails and expired tokens

ASSUME PasswordsAssumption == Passwords # {} /\ "garbled" \notin Passwords
ASSUME BoundsAssumption == MaxTokens \in Nat /\ MaxEdits \in Nat /\ MaxFaults \in Nat

VARIABLES
    row,     \* the account's row in users joined with its row in user_settings
    job,     \* what each request is doing
    mails,   \* tokens that reached the mailbox
    tokens,  \* tokens generated so far
    expired, \* tokens older than VERIFICATION_TOKEN_TTL_MS
    count    \* edits and faults so far

vars == <<row, job, mails, tokens, expired, count>>

UserColumns     == {"password"}
SettingsColumns == {"verified", "active", "token"}
Columns         == UserColumns \cup SettingsColumns

Token   == 0 .. MaxTokens \* 0: null
\* "garbled": the hash of a hash.
Account == [password : Passwords \cup {"garbled"}, verified : BOOLEAN, active : BOOLEAN, token : Token]
Absent  == [password |-> "absent"]

\* What is left to do: insert the rows, save users, save user_settings, write (or
\* commit), mail.
Plans == {<<"insert", "mail", "write">>, <<"insert", "write">>, <<"user", "write">>,
          <<"user", "settings", "write">>, <<"settings", "write">>, <<"settings", "write", "mail">>}
Ended == <<>>
Plan  == Plans \cup {<<"mail", "write">>, <<"write", "mail">>, <<"write">>, <<"mail">>}

\* sets: the columns it was asked to change; saves: those of the rows it saves;
\* columns: those it will write; raced (history): those others wrote since it began.
Job  == [plan : Plan, new : BOOLEAN, entity : Account, sets : SUBSET Columns, saves : SUBSET Columns,
         columns : SUBSET Columns, raced : SUBSET Columns]
Idle == [plan |-> Ended]

TypeOK ==
    /\ row \in Account \cup {Absent}
    /\ job \in [Requests -> Job \cup {Idle}]
    /\ mails \subseteq Token /\ expired \subseteq Token
    /\ tokens \in Token
    /\ count \in [edits : 0 .. MaxEdits, faults : 0 .. MaxFaults]

Init ==
    /\ row = Absent
    /\ job = [r \in Requests |-> Idle]
    /\ mails = {} /\ expired = {} /\ tokens = 0
    /\ count = [edits |-> 0, faults |-> 0]

Fault == count.faults < MaxFaults /\ count' = [count EXCEPT !.faults = @ + 1]
Edit  == count.edits < MaxEdits /\ count' = [count EXCEPT !.edits = @ + 1]

Doing(r, step) == job[r] # Idle /\ Head(job[r].plan) = step

GoesOn(r, next) ==
    job' = [job EXCEPT ![r] = IF Len(@.plan) = 1 THEN Idle ELSE [next EXCEPT !.plan = Tail(@)]]

Begins(r, plan, new, entity, sets, saves) ==
    /\ job[r] = Idle
    /\ job' = [job EXCEPT ![r] = [plan |-> plan, new |-> new, entity |-> entity, sets |-> sets,
                                  saves |-> saves, columns |-> {}, raced |-> {}]]

Generates == tokens < MaxTokens /\ tokens' = tokens + 1

-----------------------------------------------------------------------------
(***************************************************************************)
(* Registration                                                            *)
(***************************************************************************)
CreateUser(r) ==
    /\ row = Absent
    /\ Generates
    /\ \E p \in Passwords :
          Begins(r, <<"insert", "mail", "write">>, TRUE,
                 [password |-> p, verified |-> FALSE, active |-> TRUE, token |-> tokens'], Columns, Columns)
    /\ UNCHANGED <<row, mails, expired, count>>

\* Without a mail: the account is vouched for.  initRootUser does the same.
CreateUserByAdmin(r) ==
    /\ row = Absent
    /\ \E p \in Passwords :
          Begins(r, <<"insert", "write">>, TRUE,
                 [password |-> p, verified |-> TRUE, active |-> TRUE, token |-> 0], Columns, Columns)
    /\ UNCHANGED <<row, mails, tokens, expired, count>>

\* The unique columns: a second insert waits for the first to commit or not.
Inserting == \E r \in Requests : job[r] # Idle /\ job[r].new /\ ~Doing(r, "insert")

Insert(r) ==
    /\ Doing(r, "insert") /\ row = Absent /\ ~Inserting
    /\ GoesOn(r, job[r])
    /\ UNCHANGED <<row, mails, tokens, expired, count>>

InsertRefused(r) ==
    /\ Doing(r, "insert") /\ row # Absent
    /\ job' = [job EXCEPT ![r] = Idle]
    /\ UNCHANGED <<row, mails, tokens, expired, count>>

-----------------------------------------------------------------------------
(***************************************************************************)
(* Requests about an account that exists                                   *)
(***************************************************************************)
\* Whatever it changes, users is saved; user_settings is for isActive only.
UpdateUser(r) ==
    /\ row # Absent /\ Edit
    /\ \/ \E p \in Passwords : Begins(r, <<"user", "write">>, FALSE, [row EXCEPT !.password = p], UserColumns, UserColumns)
       \/ Begins(r, <<"user", "write">>, FALSE, row, {}, UserColumns)
       \/ \E active \in BOOLEAN :
             \/ Begins(r, <<"user", "settings", "write">>, FALSE, [row EXCEPT !.active = active], {"active"}, Columns)
             \/ \E p \in Passwords :
                   Begins(r, <<"user", "settings", "write">>, FALSE, [row EXCEPT !.password = p, !.active = active],
                          {"password", "active"}, Columns)
    /\ UNCHANGED <<row, mails, tokens, expired>>

\* By somebody who knows the password; that a token is needed too is left out.
ChangePassword(r) ==
    /\ row # Absent /\ row.password \in Passwords /\ Edit
    /\ \E p \in Passwords : Begins(r, <<"user", "write">>, FALSE, [row EXCEPT !.password = p], UserColumns, UserColumns)
    /\ UNCHANGED <<row, mails, tokens, expired>>

\* The link of a mail works.
LinkWorks == row # Absent /\ row.token \in mails \ expired

VerifyEmail(r) ==
    /\ LinkWorks /\ ~row.verified
    /\ Begins(r, <<"settings", "write">>, FALSE, [row EXCEPT !.verified = TRUE, !.token = 0],
              {"verified", "token"}, SettingsColumns)
    /\ UNCHANGED <<row, mails, tokens, expired, count>>

\* A mail is on its way.
Mailing == \E r \in Requests : \E i \in DOMAIN job[r].plan : job[r].plan[i] = "mail"

\* mutant: the mail repeats the token of the last one.
ResendVerificationSame(r) ==
    /\ row # Absent /\ ~row.verified
    /\ (~LinkWorks /\ ~Mailing /\ UNCHANGED count) \/ Edit
    /\ Begins(r, <<"settings", "write", "mail">>, FALSE, row, {"token"}, SettingsColumns)
    /\ UNCHANGED <<row, mails, tokens, expired>>

\* Asked for when no link works and no mail is on its way, and sometimes all the
\* same.
ResendVerification(r) ==
    /\ row # Absent /\ ~row.verified
    /\ (~LinkWorks /\ ~Mailing /\ UNCHANGED count) \/ Edit
    /\ Generates
    /\ Begins(r, <<"settings", "write", "mail">>, FALSE, [row EXCEPT !.token = tokens'], {"token"}, SettingsColumns)
    /\ UNCHANGED <<row, mails, expired>>

-----------------------------------------------------------------------------
(***************************************************************************)
(* The steps of a request                                                  *)
(***************************************************************************)
\* mutant: as beforeInsert does, every password is hashed.
HashedAlways(j) == IF "password" \in j.sets THEN j.entity ELSE [j.entity EXCEPT !.password = "garbled"]

\* UserSubscriber.beforeUpdate: what differs from the row is taken for a new
\* password.
Hashed(j) ==
    IF "password" \in j.sets \/ j.entity.password = row.password THEN j.entity
    ELSE [j.entity EXCEPT !.password = "garbled"]

\* What differs from the row as it is read again.
Differing(entity, columns) == {c \in columns : entity[c] # row[c]}

SaveUser(r) ==
    /\ Doing(r, "user")
    /\ GoesOn(r, [job[r] EXCEPT !.entity = Hashed(job[r]),
                                !.columns = @ \cup Differing(Hashed(job[r]), UserColumns)])
    /\ UNCHANGED <<row, mails, tokens, expired, count>>

SaveSettings(r) ==
    /\ Doing(r, "settings")
    /\ GoesOn(r, [job[r] EXCEPT !.columns = @ \cup Differing(job[r].entity, SettingsColumns)])
    /\ UNCHANGED <<row, mails, tokens, expired, count>>

Written(j) == IF j.new THEN j.entity
              ELSE [c \in Columns |-> IF c \in j.columns THEN j.entity[c] ELSE row[c]]

Changes == IF row = Absent THEN {} ELSE {c \in Columns : row'[c] # row[c]}

\* The update or the commit; the other requests now hold older copies.
Write(r) ==
    /\ Doing(r, "write")
    /\ row' = Written(job[r])
    /\ job' = [s \in Requests |->
                 IF s # r THEN IF job[s] = Idle THEN Idle ELSE [job[s] EXCEPT !.raced = @ \cup Changes]
                 ELSE IF Len(job[r].plan) = 1 THEN Idle ELSE [job[r] EXCEPT !.plan = Tail(@)]]
    /\ UNCHANGED <<mails, tokens, expired, count>>

SendMail(r) ==
    /\ Doing(r, "mail")
    /\ mails' = mails \cup {job[r].entity.token}
    /\ GoesOn(r, job[r])
    /\ UNCHANGED <<row, tokens, expired, count>>

\* A query, the mail, or the process: what is not committed is rolled back.
Fails(r) ==
    /\ job[r] # Idle
    /\ Fault
    /\ job' = [job EXCEPT ![r] = Idle]
    /\ UNCHANGED <<row, mails, tokens, expired>>

\* A day passes.
Expire ==
    /\ Fault
    /\ \E t \in mails \ expired : expired' = expired \cup {t}
    /\ UNCHANGED <<row, job, mails, tokens>>

-----------------------------------------------------------------------------
Asks(r) == CreateUser(r) \/ VerifyEmail(r) \/ ResendVerification(r)
Step(r) == Insert(r) \/ InsertRefused(r) \/ SaveUser(r) \/ SaveSettings(r) \/ Write(r) \/ SendMail(r)

Next ==
    \/ \E r \in Requests : Asks(r) \/ CreateUserByAdmin(r) \/ UpdateUser(r) \/ ChangePassword(r)
                           \/ Step(r) \/ Fails(r)
    \/ Expire

(***************************************************************************)
(* Requests go on, and somebody keeps trying: registers while there is no  *)
(* account, clicks on a link that works, asks for a mail when none does.   *)
(***************************************************************************)
Fairness ==
    /\ \A r \in Requests : WF_vars(Step(r))
    /\ WF_vars(\E r \in Requests : CreateUser(r))
    /\ WF_vars(\E r \in Requests : VerifyEmail(r))
    /\ WF_vars(\E r \in Requests : ResendVerification(r))

Spec     == Init /\ [][Next]_vars
FairSpec == Spec /\ Fairness

-----------------------------------------------------------------------------
(***************************************************************************)
(* Properties                                                              *)
(***************************************************************************)

\* A request changes what it was asked to change and nothing else, whatever goes
\* on in between, unless a row that it saves whole was written to meanwhile.  In
\* particular a password that nobody changes is not hashed again.
Asked(j) == IF j.new THEN j.entity
            ELSE [c \in Columns |-> IF c \in j.sets THEN j.entity[c] ELSE row[c]]

ChangesWhatItWasAsked ==
    [][\A r \in Requests : Write(r) /\ job[r].raced \cap job[r].saves = {} => row' = Asked(job[r])]_vars

\* AuthService.validateUser, for somebody who knows the password.
LogsIn == row # Absent /\ row.verified /\ row.active /\ row.password \in Passwords

\* Whoever keeps trying gets in for good, whatever was rolled back, expired, lost
\* or taken back by an overlapping save, unless deactivated, or locked out by the
\* hash of a hash.
GetsIn == <>[](LogsIn \/ (row # Absent /\ (~row.active \/ row.password = "garbled")))

=============================================================================
