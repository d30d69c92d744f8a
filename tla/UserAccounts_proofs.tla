-------------------------- MODULE UserAccounts_proofs --------------------------
(***************************************************************************)
(* Proofs about UserAccounts: type correctness and, for any requests and   *)
(* passwords, that a request changes what it was asked to and nothing else *)
(* unless a row that it saves was written to meanwhile; and that somebody  *)
(* who clicks on links and asks for mails, while nobody edits the account, *)
(* gets in for good.                                                       *)
(***************************************************************************)
EXTENDS UserAccounts, TLAPS

\* The columns whose row the request has not read again.
Unread(j) ==
    (IF j.plan \in {<<"user", "write">>, <<"user", "settings", "write">>} THEN UserColumns ELSE {})
    \cup (IF j.plan \in {<<"user", "settings", "write">>, <<"settings", "write">>, <<"settings", "write", "mail">>}
            THEN SettingsColumns ELSE {})

Writes(j) == j.plan # <<"mail">>

\* A column nobody else wrote is still what the request loaded, and will be written
\* only if it is to be changed ...
Agrees(j) ==
    /\ row # Absent
    /\ j.sets \subseteq j.saves /\ j.columns \subseteq j.saves /\ Unread(j) \subseteq j.saves
    /\ \A c \in Columns \ j.raced : c \notin j.sets => j.entity[c] = row[c] /\ c \notin j.columns
    /\ \A c \in (j.sets \ j.columns) \ Unread(j) : c \in j.raced \/ j.entity[c] = row[c]

AllAgree == \A r \in Requests : job[r] # Idle /\ ~job[r].new /\ Writes(job[r]) => Agrees(job[r])

Inv == TypeOK /\ AllAgree

(***************************************************************************)
(* Plans: none is empty, and what is left of one is one or nothing.        *)
(***************************************************************************)
LEMMA Tails ==
    ASSUME NEW a, NEW b, NEW c
    PROVE  /\ Len(<<a>>) = 1 /\ Len(<<a, b>>) = 2 /\ Len(<<a, b, c>>) = 3
           /\ Tail(<<a, b>>) = <<b>> /\ Tail(<<a, b, c>>) = <<b, c>>
           /\ Head(<<a>>) = a /\ Head(<<a, b>>) = a /\ Head(<<a, b, c>>) = a
<1>1. Tail(<<a, b>>) = <<b>>
  OBVIOUS
<1>2. Tail(<<a, b, c>>) = <<b, c>>
  OBVIOUS
<1> QED BY <1>1, <1>2

\* What the invariant needs of a plan p.
GoodPlan(p) ==
    /\ p # Ended
    /\ Len(p) # 1 => Tail(p) \in Plan
    /\ Head(p) = "write" => p \in {<<"write">>, <<"write", "mail">>}
    /\ Head(p) = "write" /\ Len(p) # 1 => Tail(p) = <<"mail">>
    /\ Head(p) = "user" => p \in {<<"user", "write">>, <<"user", "settings", "write">>}
    /\ Head(p) = "user" => Len(p) # 1 /\ Tail(p) \in {<<"write">>, <<"settings", "write">>}
    /\ Head(p) = "user" /\ Tail(p) # <<"write">> => p = <<"user", "settings", "write">>
    /\ Head(p) = "settings" => p \in {<<"settings", "write">>, <<"settings", "write", "mail">>}
    /\ Head(p) = "settings" => Len(p) # 1 /\ Tail(p) \in {<<"write">>, <<"write", "mail">>}
    /\ Head(p) = "insert" => Len(p) # 1 /\ Tail(p) \in {<<"write">>, <<"mail", "write">>}
    /\ Head(p) = "mail" => p = <<"mail">> \/ Tail(p) = <<"write">>

\* Every plan is a good one.
LEMMA PlansAreGood == ASSUME NEW p \in Plan PROVE GoodPlan(p)
<1>1. CASE p = <<"insert", "mail", "write">>
  BY <1>1, Tails DEF GoodPlan, Ended, Plan, Plans
<1>2. CASE p = <<"insert", "write">>
  BY <1>2, Tails DEF GoodPlan, Ended, Plan, Plans
<1>3. CASE p = <<"user", "write">>
  BY <1>3, Tails DEF GoodPlan, Ended, Plan, Plans
<1>4. CASE p = <<"user", "settings", "write">>
  BY <1>4, Tails DEF GoodPlan, Ended, Plan, Plans
<1>5. CASE p = <<"settings", "write">>
  BY <1>5, Tails DEF GoodPlan, Ended, Plan, Plans
<1>6. CASE p = <<"settings", "write", "mail">>
  BY <1>6, Tails DEF GoodPlan, Ended, Plan, Plans
<1>7. CASE p = <<"mail", "write">>
  BY <1>7, Tails DEF GoodPlan, Ended, Plan, Plans
<1>8. CASE p = <<"write", "mail">>
  BY <1>8, Tails DEF GoodPlan, Ended, Plan, Plans
<1>9. CASE p \in {<<"write">>, <<"mail">>}
  BY <1>9, Tails DEF GoodPlan, Ended, Plan, Plans
<1> QED BY <1>1, <1>2, <1>3, <1>4, <1>5, <1>6, <1>7, <1>8, <1>9 DEF Plan, Plans

\* A job has a plan.
LEMMA JobIsBusy == ASSUME NEW j \in Job PROVE j # Idle /\ j.plan \in Plan /\ GoodPlan(j.plan)
  BY PlansAreGood DEF Job, Idle, GoodPlan

\* An account is not the mark of a missing one.
LEMMA AccountIsThere == ASSUME NEW a \in Account PROVE a # Absent
  BY DEF Account, Absent

\* What a write leaves is an account, if it found one or inserts it.
LEMMA WrittenIsAccount ==
    ASSUME NEW j \in Job, row \in Account \/ j.new
    PROVE  Written(j) \in Account
  BY DEF Written, Job, Account, Columns, UserColumns, SettingsColumns

Jobs == [Requests -> Job \cup {Idle}]

\* The columns that the plan of a request that begins will read again.
Reads(plan) == Unread([plan |-> plan])

\* The columns that each plan has still to read again.
LEMMA ReadsOf ==
    /\ Reads(<<"user", "write">>) = UserColumns
    /\ Reads(<<"user", "settings", "write">>) = Columns
    /\ Reads(<<"settings", "write">>) = SettingsColumns
    /\ Reads(<<"settings", "write", "mail">>) = SettingsColumns
    /\ \A p \in Plan : Head(p) \in {"write", "mail", "insert"} => Reads(p) = {}
<1>1. <<"user", "write">> # <<"settings", "write">> /\ <<"user", "settings", "write">> # <<"settings", "write", "mail">>
      /\ <<"user", "write">> # <<"user", "settings", "write">>
  OBVIOUS
<1>2. ASSUME NEW p \in Plan, Head(p) \in {"write", "mail", "insert"} PROVE Reads(p) = {}
  <2>1. p \notin {<<"user", "write">>, <<"user", "settings", "write">>, <<"settings", "write">>,
                  <<"settings", "write", "mail">>}
    BY <1>2, Tails
  <2> QED BY <2>1 DEF Reads, Unread
<1> QED BY <1>1, <1>2 DEF Reads, Unread, Columns

\* The columns left to be read, as a plan goes on.
LEMMA Reading ==
    ASSUME NEW p \in Plan
    PROVE  /\ Head(p) = "user" => UserColumns \subseteq Reads(p) /\ Reads(Tail(p)) = Reads(p) \ UserColumns
           /\ Head(p) = "settings" => SettingsColumns \subseteq Reads(p) /\ Reads(Tail(p)) = {}
           /\ Head(p) = "settings" => Reads(p) = SettingsColumns
           /\ Head(p) \in {"write", "mail", "insert"} => Reads(p) = {}
           /\ Head(p) \in {"write", "mail", "insert"} /\ Len(p) # 1 => Reads(Tail(p)) = {}
<1>1. /\ Reads(<<"write">>) = {} /\ Reads(<<"mail">>) = {} /\ Reads(<<"write", "mail">>) = {}
      /\ Reads(<<"mail", "write">>) = {}
  BY ReadsOf, Tails DEF Plan
<1>2. UserColumns \cap SettingsColumns = {}
  BY DEF UserColumns, SettingsColumns
<1>3. CASE Head(p) = "user"
  <2>1. CASE p = <<"user", "write">>
    BY <1>1, <1>3, <2>1, ReadsOf, Tails
  <2>2. CASE p = <<"user", "settings", "write">>
    BY <1>2, <1>3, <2>2, ReadsOf, Tails DEF Columns
  <2> QED BY <1>3, <2>1, <2>2, PlansAreGood DEF GoodPlan
<1>4. CASE Head(p) = "settings"
  <2>1. CASE p = <<"settings", "write">>
    BY <1>1, <1>4, <2>1, ReadsOf, Tails
  <2>2. CASE p = <<"settings", "write", "mail">>
    BY <1>1, <1>4, <2>2, ReadsOf, Tails
  <2> QED BY <1>4, <2>1, <2>2, PlansAreGood DEF GoodPlan
<1>5. CASE Head(p) \in {"write", "mail", "insert"}
  <2>1. Len(p) # 1 => Tail(p) \in {<<"write">>, <<"mail">>, <<"mail", "write">>}
    BY <1>5, PlansAreGood, Tails DEF GoodPlan
  <2> QED BY <1>1, <1>5, <2>1, ReadsOf
<1> QED BY <1>3, <1>4, <1>5

(***************************************************************************)
(* The beginning of a request, and a step that leaves the row alone.       *)
(***************************************************************************)
LEMMA Beginning ==
    ASSUME Inv, NEW r \in Requests, NEW plan \in Plans, NEW new \in BOOLEAN, NEW entity \in Account,
           NEW sets \in SUBSET Columns, NEW saves \in SUBSET Columns,
           Begins(r, plan, new, entity, sets, saves), row' = row,
           \/ new
           \/ /\ row # Absent /\ sets \subseteq saves /\ Reads(plan) = saves
              /\ \A c \in Columns \ sets : entity[c] = row[c]
    PROVE  job' \in Jobs /\ AllAgree'
<1> DEFINE j == [plan |-> plan, new |-> new, entity |-> entity, sets |-> sets,
                 saves |-> saves, columns |-> {}, raced |-> {}]
<1>1. j \in Job
  BY DEF Job, Plan
<1>2. job' = [job EXCEPT ![r] = j]
  BY DEF Begins
<1>3. job' \in Jobs
  BY <1>1, <1>2 DEF Inv, TypeOK, Jobs
<1>4. ASSUME ~new PROVE Agrees(j)'
  <2>1. row' # Absent /\ j.sets \subseteq j.saves /\ j.columns \subseteq j.saves
    BY <1>4
  <2>2. Unread(j) = saves
    BY <1>4 DEF Reads, Unread
  <2> QED BY <1>4, <2>1, <2>2 DEF Agrees, Unread
<1>5. AllAgree'
  <2> SUFFICES ASSUME NEW s \in Requests, (job[s])' # Idle, ~(job[s].new)', Writes(job[s])'
               PROVE  Agrees(job[s])'
    BY DEF AllAgree
  <2>1. CASE s = r
    <3>1. job'[s] = j
      BY <1>2, <2>1 DEF Inv, TypeOK
    <3> QED BY <1>4, <3>1 DEF Agrees, Unread
  <2>2. CASE s # r
    <3>1. job'[s] = job[s]
      BY <1>2, <2>2 DEF Inv, TypeOK
    <3> QED BY <3>1 DEF Inv, AllAgree, Agrees, Unread, Writes
  <2> QED BY <2>1, <2>2
<1> QED BY <1>3, <1>5

\* A request that goes on to its next step agrees, if that does,
LEMMA GoingOn ==
    ASSUME Inv, NEW r \in Requests, job[r] # Idle, NEW next \in Job, next.plan = job[r].plan,
           GoesOn(r, next), row' = row,
           ~next.new /\ Len(next.plan) # 1 /\ Writes([next EXCEPT !.plan = Tail(@)])
             => Agrees([next EXCEPT !.plan = Tail(@)])
    PROVE  job' \in Jobs /\ AllAgree'
<1> DEFINE j == [next EXCEPT !.plan = Tail(@)]
<1>1. GoodPlan(next.plan)
  BY JobIsBusy
<1>2. Len(next.plan) # 1 => j \in Job
  BY <1>1 DEF Job, GoodPlan
<1>3. job' = [job EXCEPT ![r] = IF Len(next.plan) = 1 THEN Idle ELSE j]
  BY DEF GoesOn, Inv, TypeOK
<1>4. job' \in Jobs
  BY <1>2, <1>3 DEF Inv, TypeOK, Jobs
<1>5. AllAgree'
  <2> SUFFICES ASSUME NEW s \in Requests, (job[s])' # Idle, ~(job[s].new)', Writes(job[s])'
               PROVE  Agrees(job[s])'
    BY DEF AllAgree
  <2>1. CASE s = r
    <3>1. job'[s] = j /\ Len(next.plan) # 1
      BY <1>3, <2>1 DEF Inv, TypeOK
    <3>2. ~next.new
      BY <3>1 DEF Job
    <3>3. Agrees(j)
      BY <3>1, <3>2 DEF Writes
    <3> QED BY <3>1, <3>3 DEF Agrees, Unread
  <2>2. CASE s # r
    <3>1. job'[s] = job[s]
      BY <1>3, <2>2 DEF Inv, TypeOK
    <3> QED BY <3>1 DEF Inv, AllAgree, Agrees, Unread, Writes
  <2> QED BY <2>1, <2>2
<1> QED BY <1>4, <1>5

\* and one that is over or fails has nothing to agree on.
LEMMA GivingUp ==
    ASSUME Inv, NEW r \in Requests, job' = [job EXCEPT ![r] = Idle], row' = row
    PROVE  job' \in Jobs /\ AllAgree'
<1>1. job' \in Jobs
  BY DEF Inv, TypeOK, Jobs
<1>2. AllAgree'
  BY DEF Inv, TypeOK, AllAgree, Agrees, Unread, Writes
<1> QED BY <1>1, <1>2

(***************************************************************************)
(* Requests begin with what they loaded.                                   *)
(***************************************************************************)
LEMMA Registering ==
    ASSUME Inv, NEW r \in Requests, CreateUser(r) \/ CreateUserByAdmin(r)
    PROVE  job' \in Jobs /\ AllAgree'
<1>1. CASE CreateUser(r)
  <2>1. PICK p \in Passwords :
          Begins(r, <<"insert", "mail", "write">>, TRUE,
                 [password |-> p, verified |-> FALSE, active |-> TRUE, token |-> tokens'], Columns, Columns)
    BY <1>1 DEF CreateUser
  <2>2. tokens' \in Token /\ row' = row
    BY <1>1, BoundsAssumption DEF CreateUser, Generates, Inv, TypeOK, Token
  <2>3. [password |-> p, verified |-> FALSE, active |-> TRUE, token |-> tokens'] \in Account
    BY <2>2 DEF Account
  <2> QED BY <2>1, <2>2, <2>3, Beginning DEF Plans
<1>2. CASE CreateUserByAdmin(r)
  <2>1. PICK p \in Passwords :
          Begins(r, <<"insert", "write">>, TRUE,
                 [password |-> p, verified |-> TRUE, active |-> TRUE, token |-> 0], Columns, Columns)
    BY <1>2 DEF CreateUserByAdmin
  <2>2. [password |-> p, verified |-> TRUE, active |-> TRUE, token |-> 0] \in Account
    BY BoundsAssumption DEF Account, Token
  <2> QED BY <1>2, <2>1, <2>2, Beginning DEF Plans, CreateUserByAdmin
<1> QED BY <1>1, <1>2

\* Edits and changes of the password begin with what is in the row,
LEMMA ChangingUser ==
    ASSUME Inv, NEW r \in Requests, UpdateUser(r) \/ ChangePassword(r)
    PROVE  job' \in Jobs /\ AllAgree'
<1>0. row \in Account /\ row # Absent /\ row' = row
  BY DEF UpdateUser, ChangePassword, Inv, TypeOK
<1>1. ASSUME NEW p \in Passwords,
             Begins(r, <<"user", "write">>, FALSE, [row EXCEPT !.password = p], UserColumns, UserColumns)
      PROVE  job' \in Jobs /\ AllAgree'
  <2>1. [row EXCEPT !.password = p] \in Account
    BY <1>0 DEF Account
  <2>2. \A c \in Columns \ UserColumns : [row EXCEPT !.password = p][c] = row[c]
    BY <1>0 DEF Account, Columns, UserColumns, SettingsColumns
  <2> QED BY <1>0, <1>1, <2>1, <2>2, ReadsOf, Beginning DEF Plans, Columns
<1>2. ASSUME Begins(r, <<"user", "write">>, FALSE, row, {}, UserColumns)
      PROVE  job' \in Jobs /\ AllAgree'
  BY <1>0, <1>2, ReadsOf, Beginning DEF Plans, Columns
<1>3. ASSUME NEW active \in BOOLEAN,
             Begins(r, <<"user", "settings", "write">>, FALSE, [row EXCEPT !.active = active], {"active"}, Columns)
      PROVE  job' \in Jobs /\ AllAgree'
  <2>1. [row EXCEPT !.active = active] \in Account
    BY <1>0 DEF Account
  <2>2. \A c \in Columns \ {"active"} : [row EXCEPT !.active = active][c] = row[c]
    BY <1>0 DEF Account, Columns, UserColumns, SettingsColumns
  <2>3. {"active"} \subseteq Columns
    BY DEF Columns, SettingsColumns
  <2> QED BY <1>0, <1>3, <2>1, <2>2, <2>3, ReadsOf, Beginning DEF Plans
<1>4. ASSUME NEW p \in Passwords, NEW active \in BOOLEAN,
             Begins(r, <<"user", "settings", "write">>, FALSE, [row EXCEPT !.password = p, !.active = active],
                    {"password", "active"}, Columns)
      PROVE  job' \in Jobs /\ AllAgree'
  <2> DEFINE b == [row EXCEPT !.password = p]
             a == [b EXCEPT !.active = active]
  <2>0. b \in Account /\ \A c \in Columns \ {"password"} : b[c] = row[c]
    BY <1>0 DEF Account, Columns, UserColumns, SettingsColumns
  <2>1. a \in Account
    BY <2>0 DEF Account
  <2>2. \A c \in Columns \ {"password", "active"} : a[c] = row[c]
    BY <2>0 DEF Account, Columns, UserColumns, SettingsColumns
  <2>3. {"password", "active"} \subseteq Columns
    BY DEF Columns, UserColumns, SettingsColumns
  <2>4. a = [row EXCEPT !.password = p, !.active = active]
    BY <1>0 DEF Account
  <2> QED BY <1>0, <1>4, <2>1, <2>2, <2>3, <2>4, ReadsOf, Beginning DEF Plans
<1> QED BY <1>1, <1>2, <1>3, <1>4 DEF UpdateUser, ChangePassword

\* and so do verifying and asking for a mail.
LEMMA ChangingSettings ==
    ASSUME Inv, NEW r \in Requests, VerifyEmail(r) \/ ResendVerification(r)
    PROVE  job' \in Jobs /\ AllAgree'
<1>0. row \in Account /\ row # Absent /\ row' = row
  BY DEF VerifyEmail, LinkWorks, ResendVerification, Inv, TypeOK
<1>1. CASE VerifyEmail(r)
  <2> DEFINE b == [row EXCEPT !.verified = TRUE]
             a == [b EXCEPT !.token = 0]
  <2>0. b \in Account /\ \A c \in Columns \ {"verified"} : b[c] = row[c]
    BY <1>0 DEF Account, Columns, UserColumns, SettingsColumns
  <2> HIDE DEF b
  <2>1. a \in Account
    BY <2>0, BoundsAssumption DEF Account, Token
  <2>2. \A c \in Columns \ {"verified", "token"} : a[c] = row[c]
    BY <2>0 DEF Account, Columns, UserColumns, SettingsColumns
  <2>3. {"verified", "token"} \subseteq SettingsColumns /\ SettingsColumns \subseteq Columns
    BY DEF Columns, SettingsColumns
  <2>4. Begins(r, <<"settings", "write">>, FALSE, a, {"verified", "token"}, SettingsColumns)
    BY <1>1 DEF VerifyEmail, b
  <2> QED BY <1>0, <2>1, <2>2, <2>3, <2>4, ReadsOf, Beginning DEF Plans
<1>2. CASE ResendVerification(r)
  <2> DEFINE a == [row EXCEPT !.token = tokens']
  <2>1. a \in Account
    BY <1>0, <1>2, BoundsAssumption DEF Account, Token, ResendVerification, Generates, Inv, TypeOK
  <2>2. \A c \in Columns \ {"token"} : a[c] = row[c]
    BY <1>0 DEF Account, Columns, UserColumns, SettingsColumns
  <2>3. {"token"} \subseteq SettingsColumns /\ SettingsColumns \subseteq Columns
    BY DEF Columns, SettingsColumns
  <2>4. Begins(r, <<"settings", "write", "mail">>, FALSE, a, {"token"}, SettingsColumns)
    BY <1>2 DEF ResendVerification
  <2> QED BY <1>0, <2>1, <2>2, <2>3, <2>4, ReadsOf, Beginning DEF Plans
<1> QED BY <1>1, <1>2

(***************************************************************************)
(* The steps of a request.                                                 *)
(***************************************************************************)
LEMMA Busy ==
    ASSUME Inv, NEW r \in Requests, NEW step, Doing(r, step)
    PROVE  job[r] \in Job /\ job[r] # Idle /\ GoodPlan(job[r].plan) /\ Head(job[r].plan) = step
  BY JobIsBusy DEF Doing, Inv, TypeOK

\* An account is inserted where there is none.
LEMMA Inserting_ ==
    ASSUME Inv, NEW r \in Requests, Insert(r) \/ InsertRefused(r)
    PROVE  job' \in Jobs /\ AllAgree'
<1>1. CASE Insert(r)
  <2>1. row = Absent /\ row' = row /\ Doing(r, "insert") /\ GoesOn(r, job[r])
    BY <1>1 DEF Insert
  <2>2. Writes(job[r])
    BY <2>1, Busy, Tails DEF Writes
  <2>3. job[r].new
    BY <2>1, <2>2, Busy DEF Inv, AllAgree, Agrees
  <2> QED BY <2>1, <2>3, Busy, GoingOn
<1>2. CASE InsertRefused(r)
  BY <1>2, GivingUp DEF InsertRefused
<1> QED BY <1>1, <1>2

\* The select for the user notes the columns that differ,
LEMMA SavingUser ==
    ASSUME Inv, NEW r \in Requests, SaveUser(r)
    PROVE  job' \in Jobs /\ AllAgree'
<1> DEFINE e == Hashed(job[r])
           cs == job[r].columns \cup Differing(e, UserColumns)
           i == [job[r] EXCEPT !.entity = e]
           k == [i EXCEPT !.columns = cs]
           t == [k EXCEPT !.plan = Tail(@)]
<1>1. /\ job[r] \in Job /\ job[r] # Idle /\ GoodPlan(job[r].plan) /\ Head(job[r].plan) = "user"
      /\ row' = row
  BY Busy DEF SaveUser
<1>2. /\ e \in Account /\ \A c \in SettingsColumns : e[c] = job[r].entity[c]
      /\ "password" \notin job[r].sets /\ job[r].entity.password = row.password => e = job[r].entity
  BY <1>1 DEF Hashed, Job, Account, SettingsColumns
<1> HIDE DEF e
<1>3. cs \subseteq Columns
  BY <1>1 DEF Job, Columns, Differing
<1>4. /\ i \in Job /\ i.plan = job[r].plan /\ i.new = job[r].new /\ i.entity = e /\ i.sets = job[r].sets
      /\ i.saves = job[r].saves /\ i.columns = job[r].columns /\ i.raced = job[r].raced
  BY <1>1, <1>2 DEF Job
<1>5. GoesOn(r, k)
  BY DEF SaveUser, e
<1> HIDE DEF i, cs
<1>6. /\ k \in Job /\ k.plan = job[r].plan /\ k.new = job[r].new /\ k.entity = e /\ k.sets = job[r].sets
      /\ k.saves = job[r].saves /\ k.columns = cs /\ k.raced = job[r].raced
  BY <1>3, <1>4 DEF Job
<1> HIDE DEF k
<1>7. Len(k.plan) # 1 /\ Tail(k.plan) \in {<<"write">>, <<"settings", "write">>}
  BY <1>1, <1>6 DEF GoodPlan
<1>8. /\ t.plan = Tail(k.plan) /\ t.new = job[r].new /\ t.entity = e /\ t.sets = job[r].sets
      /\ t.saves = job[r].saves /\ t.columns = cs /\ t.raced = job[r].raced
  BY <1>6 DEF Job
<1>9. ASSUME ~k.new PROVE Agrees(t)
  <2>1. job[r].plan # <<"mail">>
    BY <1>1, Tails
  <2>2. Agrees(job[r])
    BY <1>1, <1>6, <1>9, <2>1 DEF Inv, AllAgree, Writes
  <2>3. /\ Unread(job[r]) = Reads(job[r].plan) /\ Unread(t) = Reads(t.plan)
        /\ job[r].plan \in Plan
    BY <1>1 DEF Unread, Reads, Job
  <2>4. UserColumns \subseteq Unread(job[r]) /\ Unread(t) = Unread(job[r]) \ UserColumns
    BY <1>1, <1>6, <1>8, <2>3, Reading
  <2>5. /\ \A c \in cs : c \in job[r].columns \/ (c \in UserColumns /\ e[c] # row[c])
        /\ \A c \in UserColumns : e[c] # row[c] => c \in cs
        /\ job[r].columns \subseteq cs
    BY DEF cs, Differing
  <2>6. t.sets \subseteq t.saves /\ t.columns \subseteq t.saves /\ Unread(t) \subseteq t.saves
    BY <1>8, <2>2, <2>4, <2>5 DEF Agrees
  <2>7. ASSUME NEW c \in Columns \ t.raced, c \notin t.sets PROVE t.entity[c] = row[c] /\ c \notin t.columns
    <3>1. job[r].entity[c] = row[c] /\ c \notin job[r].columns
      BY <1>8, <2>2, <2>7 DEF Agrees
    <3>2. e[c] = row[c]
      BY <1>2, <1>8, <2>7, <3>1 DEF Columns, UserColumns
    <3> QED BY <1>8, <2>5, <3>1, <3>2
  <2>8. ASSUME NEW c \in (t.sets \ t.columns) \ Unread(t) PROVE c \in t.raced \/ t.entity[c] = row[c]
    <3>1. CASE c \in UserColumns
      BY <1>8, <2>5, <2>8, <3>1
    <3>2. CASE c \notin UserColumns
      <4>1. c \in (job[r].sets \ job[r].columns) \ Unread(job[r]) /\ c \in Columns
        BY <1>1, <1>8, <2>4, <2>5, <2>8, <3>2 DEF Job
      <4>2. e[c] = job[r].entity[c]
        BY <1>2, <3>2, <4>1 DEF Columns
      <4> QED BY <1>8, <2>2, <4>1, <4>2 DEF Agrees
    <3> QED BY <3>1, <3>2
  <2>9. row # Absent
    BY <2>2 DEF Agrees
  <2> QED BY <2>6, <2>7, <2>8, <2>9 DEF Agrees
<1> QED BY <1>1, <1>5, <1>6, <1>9, GoingOn

\* and the one for the settings does.
LEMMA SavingSettings ==
    ASSUME Inv, NEW r \in Requests, SaveSettings(r)
    PROVE  job' \in Jobs /\ AllAgree'
<1> DEFINE e == job[r].entity
           cs == job[r].columns \cup Differing(e, SettingsColumns)
           k == [job[r] EXCEPT !.columns = cs]
           t == [k EXCEPT !.plan = Tail(@)]
<1>1. /\ job[r] \in Job /\ job[r] # Idle /\ GoodPlan(job[r].plan) /\ Head(job[r].plan) = "settings"
      /\ row' = row
  BY Busy DEF SaveSettings
<1>2. cs \subseteq Columns
  BY <1>1 DEF Job, Columns, Differing
<1>3. GoesOn(r, k)
  BY DEF SaveSettings
<1> HIDE DEF cs
<1>4. /\ k \in Job /\ k.plan = job[r].plan /\ k.new = job[r].new /\ k.entity = e /\ k.sets = job[r].sets
      /\ k.saves = job[r].saves /\ k.columns = cs /\ k.raced = job[r].raced
  BY <1>1, <1>2 DEF Job
<1> HIDE DEF k
<1>5. /\ t.plan = Tail(k.plan) /\ t.new = job[r].new /\ t.entity = e /\ t.sets = job[r].sets
      /\ t.saves = job[r].saves /\ t.columns = cs /\ t.raced = job[r].raced
  BY <1>4 DEF Job
<1>6. ASSUME ~k.new PROVE Agrees(t)
  <2>1. job[r].plan # <<"mail">>
    BY <1>1, Tails
  <2>2. Agrees(job[r])
    BY <1>1, <1>4, <1>6, <2>1 DEF Inv, AllAgree, Writes
  <2>3. /\ Unread(job[r]) = Reads(job[r].plan) /\ Unread(t) = Reads(t.plan)
        /\ job[r].plan \in Plan
    BY <1>1 DEF Unread, Reads, Job
  <2>4. Unread(job[r]) = SettingsColumns /\ Unread(t) = {}
    BY <1>1, <1>4, <1>5, <2>3, Reading
  <2>5. /\ \A c \in cs : c \in job[r].columns \/ (c \in SettingsColumns /\ e[c] # row[c])
        /\ \A c \in SettingsColumns : e[c] # row[c] => c \in cs
        /\ job[r].columns \subseteq cs
    BY DEF cs, Differing
  <2>6. t.sets \subseteq t.saves /\ t.columns \subseteq t.saves /\ Unread(t) \subseteq t.saves
    BY <1>5, <2>2, <2>4, <2>5 DEF Agrees
  <2>7. ASSUME NEW c \in Columns \ t.raced, c \notin t.sets PROVE t.entity[c] = row[c] /\ c \notin t.columns
    BY <1>5, <2>2, <2>5, <2>7 DEF Agrees
  <2>8. ASSUME NEW c \in (t.sets \ t.columns) \ Unread(t) PROVE c \in t.raced \/ t.entity[c] = row[c]
    BY <1>5, <2>2, <2>4, <2>5, <2>8 DEF Agrees
  <2>9. row # Absent
    BY <2>2 DEF Agrees
  <2> QED BY <2>6, <2>7, <2>8, <2>9 DEF Agrees
<1> QED BY <1>1, <1>3, <1>4, <1>6, GoingOn

\* A mail has a token of its own.
LEMMA Mailing_ ==
    ASSUME Inv, NEW r \in Requests, SendMail(r)
    PROVE  job' \in Jobs /\ AllAgree' /\ mails' \subseteq Token
<1> DEFINE t == [job[r] EXCEPT !.plan = Tail(@)]
<1>1. /\ job[r] \in Job /\ job[r] # Idle /\ GoodPlan(job[r].plan) /\ Head(job[r].plan) = "mail"
      /\ row' = row /\ GoesOn(r, job[r])
  BY Busy DEF SendMail
<1>2. ASSUME ~job[r].new, Len(job[r].plan) # 1 PROVE Agrees(t)
  <2>1. job[r].plan # <<"mail">>
    BY <1>2, Tails
  <2>2. Agrees(job[r])
    BY <1>1, <1>2, <2>1 DEF Inv, AllAgree, Writes
  <2>3. /\ Unread(job[r]) = Reads(job[r].plan) /\ Unread(t) = Reads(t.plan)
        /\ job[r].plan \in Plan
    BY <1>1 DEF Unread, Reads, Job
  <2>4. /\ t.plan = Tail(job[r].plan) /\ t.entity = job[r].entity /\ t.sets = job[r].sets
        /\ t.saves = job[r].saves /\ t.columns = job[r].columns /\ t.raced = job[r].raced
    BY <1>1 DEF Job
  <2>5. Unread(job[r]) = {} /\ Unread(t) = {}
    BY <1>1, <1>2, <2>3, <2>4, Reading
  <2> QED BY <2>2, <2>4, <2>5 DEF Agrees
<1>3. mails' \subseteq Token
  BY <1>1 DEF SendMail, Inv, TypeOK, Job, Account
<1> QED BY <1>1, <1>2, <1>3, GoingOn

\* What is written is what was asked for, unless the row was written to meanwhile.
LEMMA WritingWhatWasAsked ==
    ASSUME Inv, NEW r \in Requests, Write(r)
    PROVE  /\ row' \in Account
           /\ job[r].raced \cap job[r].saves = {} => row' = Asked(job[r])
<1>1. /\ job[r] \in Job /\ job[r] # Idle /\ GoodPlan(job[r].plan) /\ Head(job[r].plan) = "write"
      /\ row' = Written(job[r])
  BY Busy DEF Write
<1>2. CASE job[r].new
  BY <1>1, <1>2, WrittenIsAccount DEF Written, Asked
<1>3. CASE ~job[r].new
  <2>1. job[r].plan # <<"mail">>
    BY <1>1, Tails
  <2>2. Agrees(job[r])
    BY <1>1, <1>3, <2>1 DEF Inv, AllAgree, Writes
  <2>3. row' \in Account
    BY <1>1, <2>2, WrittenIsAccount DEF Agrees, Inv, TypeOK
  <2>4. ASSUME job[r].raced \cap job[r].saves = {} PROVE row' = Asked(job[r])
    <3>1. Unread(job[r]) = {}
      BY <1>1, Reading DEF Unread, Reads, Job
    <3>2. ASSUME NEW c \in Columns
          PROVE  (IF c \in job[r].columns THEN job[r].entity[c] ELSE row[c])
                   = (IF c \in job[r].sets THEN job[r].entity[c] ELSE row[c])
      BY <2>2, <2>4, <3>1, <3>2 DEF Agrees
    <3> QED BY <1>1, <1>3, <3>2 DEF Written, Asked
  <2> QED BY <2>3, <2>4
<1> QED BY <1>2, <1>3

\* A commit writes what the request was asked to, so those it races are told.
LEMMA Writing ==
    ASSUME Inv, NEW r \in Requests, Write(r)
    PROVE  job' \in Jobs /\ AllAgree'
<1>1. /\ job[r] \in Job /\ GoodPlan(job[r].plan) /\ Head(job[r].plan) = "write"
  BY Busy DEF Write
<1>2. row' \in Account /\ row' # Absent
  BY WritingWhatWasAsked, AccountIsThere
<1>3. /\ job'[r] = IF Len(job[r].plan) = 1 THEN Idle ELSE [job[r] EXCEPT !.plan = Tail(@)]
      /\ \A s \in Requests \ {r} :
           job'[s] = IF job[s] = Idle THEN Idle ELSE [job[s] EXCEPT !.raced = @ \cup Changes]
      /\ job' = [s \in Requests |-> job'[s]]
  BY DEF Write
<1>4. Changes \subseteq Columns
  BY DEF Changes
<1>5. job' \in Jobs
  <2>1. job'[r] \in Job \cup {Idle}
    BY <1>1, <1>3 DEF Job, GoodPlan
  <2>2. ASSUME NEW s \in Requests \ {r} PROVE job'[s] \in Job \cup {Idle}
    <3>1. job[s] \in Job \cup {Idle}
      BY DEF Inv, TypeOK
    <3>2. job[s] \in Job => [job[s] EXCEPT !.raced = @ \cup Changes] \in Job
      BY <1>4 DEF Job
    <3> QED BY <1>3, <3>1, <3>2
  <2> QED BY <1>3, <2>1, <2>2 DEF Jobs
<1>6. AllAgree'
  <2> SUFFICES ASSUME NEW s \in Requests, (job[s])' # Idle, ~(job[s].new)', Writes(job[s])'
               PROVE  Agrees(job[s])'
    BY DEF AllAgree
  <2>1. CASE s = r
    <3>1. Len(job[r].plan) # 1
      BY <1>3, <2>1
    <3>2. job'[r].plan = Tail(job[r].plan)
      BY <1>1, <1>3, <3>1 DEF Job
    <3>3. job'[r].plan = <<"mail">>
      BY <1>1, <3>1, <3>2 DEF GoodPlan
    <3> QED BY <2>1, <3>3 DEF Writes
  <2>2. CASE s # r
    <3> DEFINE j == job[s]
               k == [j EXCEPT !.raced = @ \cup Changes]
    <3>1. job'[s] = k /\ j \in Job /\ j # Idle
      BY <1>3, <2>2 DEF Inv, TypeOK
    <3>2. /\ k.plan = j.plan /\ k.new = j.new /\ k.entity = j.entity /\ k.sets = j.sets
          /\ k.saves = j.saves /\ k.columns = j.columns /\ k.raced = j.raced \cup Changes
      BY <3>1 DEF Job
    <3>3. Agrees(j)
      BY <3>1, <3>2 DEF Inv, AllAgree, Writes
    <3>4. \A c \in Columns \ Changes : row'[c] = row[c]
      BY <3>3 DEF Agrees, Changes
    <3>5. Unread(k) = Unread(j)
      BY <3>2 DEF Unread
    <3>6. ASSUME NEW c \in Columns \ k.raced, c \notin k.sets PROVE k.entity[c] = row'[c] /\ c \notin k.columns
      BY <3>2, <3>3, <3>4, <3>6 DEF Agrees
    <3>7. ASSUME NEW c \in (k.sets \ k.columns) \ Unread(k) PROVE c \in k.raced \/ k.entity[c] = row'[c]
      <4>1. c \in Columns
        BY <3>1, <3>2 DEF Job
      <4> QED BY <3>2, <3>3, <3>4, <3>5, <4>1 DEF Agrees
    <3>8. /\ k.sets \subseteq k.saves /\ k.columns \subseteq k.saves /\ Unread(k) \subseteq k.saves
      BY <3>2, <3>3, <3>5 DEF Agrees
    <3> HIDE DEF k
    <3> QED BY <1>2, <3>1, <3>6, <3>7, <3>8 DEF Agrees, Unread
  <2> QED BY <2>1, <2>2
<1> QED BY <1>5, <1>6

(***************************************************************************)
(* The invariant.                                                          *)
(***************************************************************************)
LEMMA Rest ==
    ASSUME TypeOK, [Next]_vars
    PROVE  /\ tokens' \in Token /\ expired' \subseteq Token
           /\ count' \in [edits : 0 .. MaxEdits, faults : 0 .. MaxFaults]
<1>1. Edit => count' \in [edits : 0 .. MaxEdits, faults : 0 .. MaxFaults]
  BY BoundsAssumption DEF Edit, TypeOK
<1>2. Fault => count' \in [edits : 0 .. MaxEdits, faults : 0 .. MaxFaults]
  BY BoundsAssumption DEF Fault, TypeOK
<1>3. Generates => tokens' \in Token
  BY BoundsAssumption DEF Generates, TypeOK, Token
<1>4. UNCHANGED count => count' \in [edits : 0 .. MaxEdits, faults : 0 .. MaxFaults]
  BY DEF TypeOK
<1>5. UNCHANGED <<tokens, expired>> => tokens' \in Token /\ expired' \subseteq Token
  BY DEF TypeOK
<1>6. CASE UNCHANGED vars
  BY <1>4, <1>5, <1>6 DEF vars
<1>7. ASSUME NEW r \in Requests, Asks(r)
      PROVE  /\ tokens' \in Token /\ expired' \subseteq Token
             /\ count' \in [edits : 0 .. MaxEdits, faults : 0 .. MaxFaults]
  BY <1>1, <1>3, <1>4, <1>5, <1>7 DEF Asks, CreateUser, VerifyEmail, ResendVerification, TypeOK
<1>8. ASSUME NEW r \in Requests, CreateUserByAdmin(r) \/ UpdateUser(r) \/ ChangePassword(r) \/ Step(r) \/ Fails(r)
      PROVE  /\ tokens' \in Token /\ expired' \subseteq Token
             /\ count' \in [edits : 0 .. MaxEdits, faults : 0 .. MaxFaults]
  BY <1>1, <1>2, <1>4, <1>5, <1>8
     DEF CreateUserByAdmin, UpdateUser, ChangePassword, Step, Fails, Insert, InsertRefused, SaveUser,
         SaveSettings, Write, SendMail
<1>9. CASE Expire
  BY <1>2, <1>9 DEF Expire, TypeOK
<1> QED BY <1>6, <1>7, <1>8, <1>9 DEF Next

\* Types and agreement, in every reachable state.
LEMMA Invariant == Spec => []Inv
<1>1. Init => Inv
  BY BoundsAssumption DEF Init, Inv, TypeOK, AllAgree, Token
<1>2. Inv /\ [Next]_vars => Inv'
  <2> SUFFICES ASSUME Inv, [Next]_vars PROVE Inv'
    OBVIOUS
  <2> DEFINE Kept == job' \in Jobs /\ AllAgree' /\ row' \in Account \cup {Absent} /\ mails' \subseteq Token
  <2>1. row' = row => row' \in Account \cup {Absent}
    BY DEF Inv, TypeOK
  <2>2. mails' = mails => mails' \subseteq Token
    BY DEF Inv, TypeOK
  <2>3. row' = row /\ job' = job /\ mails' = mails => Kept
    BY <2>1, <2>2 DEF Inv, TypeOK, Jobs, AllAgree, Agrees, Unread, Writes
  <2> HIDE DEF Kept
  <2>4. ASSUME UNCHANGED vars PROVE Kept
    BY <2>3, <2>4 DEF vars
  <2>5. ASSUME Expire PROVE Kept
    BY <2>3, <2>5 DEF Expire
  <2>6. ASSUME NEW r \in Requests, CreateUser(r) \/ CreateUserByAdmin(r) PROVE Kept
    BY <2>1, <2>2, <2>6, Registering DEF Kept, CreateUser, CreateUserByAdmin
  <2>7. ASSUME NEW r \in Requests, UpdateUser(r) \/ ChangePassword(r) PROVE Kept
    BY <2>1, <2>2, <2>7, ChangingUser DEF Kept, UpdateUser, ChangePassword
  <2>8. ASSUME NEW r \in Requests, VerifyEmail(r) \/ ResendVerification(r) PROVE Kept
    BY <2>1, <2>2, <2>8, ChangingSettings DEF Kept, VerifyEmail, ResendVerification
  <2>9. ASSUME NEW r \in Requests, Insert(r) \/ InsertRefused(r) PROVE Kept
    BY <2>1, <2>2, <2>9, Inserting_ DEF Kept, Insert, InsertRefused
  <2>10. ASSUME NEW r \in Requests, SaveUser(r) PROVE Kept
    BY <2>1, <2>2, <2>10, SavingUser DEF Kept, SaveUser
  <2>11. ASSUME NEW r \in Requests, SaveSettings(r) PROVE Kept
    BY <2>1, <2>2, <2>11, SavingSettings DEF Kept, SaveSettings
  <2>12. ASSUME NEW r \in Requests, Write(r) PROVE Kept
    <3>1. mails' = mails
      BY <2>12 DEF Write
    <3> QED BY <2>2, <2>12, <3>1, Writing, WritingWhatWasAsked DEF Kept
  <2>13. ASSUME NEW r \in Requests, SendMail(r) PROVE Kept
    BY <2>1, <2>13, Mailing_ DEF Kept, SendMail
  <2>14. ASSUME NEW r \in Requests, Fails(r) PROVE Kept
    BY <2>1, <2>2, <2>14, GivingUp DEF Kept, Fails
  <2>15. Kept
    BY <2>4, <2>5, <2>6, <2>7, <2>8, <2>9, <2>10, <2>11, <2>12, <2>13, <2>14 DEF Next, Asks, Step
  <2>16. TypeOK
    BY DEF Inv
  <2> QED BY <2>15, <2>16, Rest DEF Inv, TypeOK, Jobs, Kept
<1> QED BY <1>1, <1>2, PTL DEF Spec

(***************************************************************************)
(* Every request, row and token stays what its declaration says, with the  *)
(* account there whenever an existing one is being changed.                *)
(***************************************************************************)
THEOREM TypeCorrect == Spec => []TypeOK
<1>1. Inv => TypeOK
  BY DEF Inv
<1> QED BY <1>1, Invariant, PTL

(***************************************************************************)
(* A request changes what it was asked to and nothing else, however the    *)
(* others go on, unless a row that it saves whole was written to meanwhile *)
(* (UserService's saves and UserSubscriber.beforeUpdate).                  *)
(***************************************************************************)
THEOREM OnlyWhatWasAsked == Spec => ChangesWhatItWasAsked
<1>1. Inv /\ [Next]_vars => [\A r \in Requests : Write(r) /\ job[r].raced \cap job[r].saves = {}
                                                   => row' = Asked(job[r])]_vars
  BY WritingWhatWasAsked
<1> QED BY <1>1, Invariant, PTL DEF Spec, ChangesWhatItWasAsked

-----------------------------------------------------------------------------
(***************************************************************************)
(* Tokens are generated in order, so a new one is in no mail yet.          *)
(***************************************************************************)
TokensInv ==
    /\ mails \cup expired \subseteq 0 .. tokens
    /\ row # Absent => row.token <= tokens
    /\ \A r \in Requests : job[r] # Idle => job[r].entity.token <= tokens

\* Nobody holds a token of later.
LEMMA EntitiesKeepTokens ==
    ASSUME Inv, TokensInv, tokens' \in Token, tokens <= tokens',
           \A r \in Requests : \/ job'[r] = Idle
                               \/ job'[r].entity.token <= tokens'
                               \/ job[r] # Idle /\ job'[r].entity.token = job[r].entity.token
    PROVE  \A r \in Requests : job'[r] # Idle => job'[r].entity.token <= tokens'
<1> SUFFICES ASSUME NEW r \in Requests, job'[r] # Idle PROVE job'[r].entity.token <= tokens'
  OBVIOUS
<1>1. CASE job[r] # Idle /\ job'[r].entity.token = job[r].entity.token
  <2>1. job[r].entity.token <= tokens /\ job[r].entity.token \in Nat /\ tokens \in Nat /\ tokens' \in Nat
    BY <1>1, JobIsBusy, BoundsAssumption DEF TokensInv, Inv, TypeOK, Token, Job, Account
  <2> QED BY <1>1, <2>1
<1> QED BY <1>1

\* What a request does next it does with the entity it has.
LEMMA StepsKeepEntities ==
    ASSUME Inv, NEW r \in Requests, job[r] # Idle, NEW next \in Job, next.plan = job[r].plan,
           GoesOn(r, next)
    PROVE  /\ job'[r] = IF Len(next.plan) = 1 THEN Idle ELSE [next EXCEPT !.plan = Tail(@)]
           /\ job'[r] # Idle => job'[r].entity = next.entity
           /\ \A s \in Requests \ {r} : job'[s] = job[s]
<1>1. job' = [job EXCEPT ![r] = IF Len(next.plan) = 1 THEN Idle ELSE [next EXCEPT !.plan = Tail(@)]]
  BY DEF GoesOn, Inv, TypeOK
<1>2. [next EXCEPT !.plan = Tail(@)].entity = next.entity
  BY DEF Job
<1> QED BY <1>1, <1>2 DEF Inv, TypeOK

\* A request that begins with a token of now.
LEMMA BeginningsKeepTokens ==
    ASSUME Inv, TokensInv, tokens' \in Token, tokens <= tokens', NEW r \in Requests,
           NEW plan, NEW new, NEW entity, NEW sets, NEW saves,
           Begins(r, plan, new, entity, sets, saves), entity.token <= tokens',
           UNCHANGED <<row, mails>>, expired' \subseteq expired
    PROVE  TokensInv'
<1>1. /\ job'[r].entity = entity
      /\ \A s \in Requests \ {r} : job'[s] = job[s]
  BY DEF Begins, Inv, TypeOK
<1>2. \A s \in Requests : job'[s] # Idle => job'[s].entity.token <= tokens'
  BY <1>1, EntitiesKeepTokens
<1>3. tokens \in Nat /\ tokens' \in Nat
  BY BoundsAssumption DEF Inv, TypeOK, Token
<1>4. (mails \cup expired)' \subseteq 0 .. tokens'
  BY <1>3 DEF TokensInv
<1>5. row # Absent => row.token \in Nat /\ row.token <= tokens'
  BY <1>3, BoundsAssumption DEF TokensInv, Inv, TypeOK, Account, Token
<1> QED BY <1>2, <1>4, <1>5 DEF TokensInv

\* A request that goes on with its entity, or a part of it that has the same token.
LEMMA StepsKeepTokens ==
    ASSUME Inv, TokensInv, NEW r \in Requests, Step(r)
    PROVE  TokensInv'
<1>1. tokens' = tokens /\ expired' = expired /\ tokens' \in Token /\ tokens \in Nat
  BY BoundsAssumption DEF Step, Insert, InsertRefused, SaveUser, SaveSettings, Write, SendMail, Inv, TypeOK, Token
<1>2. job[r] \in Job /\ job[r] # Idle /\ job[r].entity.token <= tokens
  <2>1. \E step : Doing(r, step)
    <3>1. InsertRefused(r) => Doing(r, "insert")
      BY DEF InsertRefused
    <3> QED BY <3>1 DEF Step, Insert, SaveUser, SaveSettings, Write, SendMail
  <2> QED BY <2>1, Busy DEF TokensInv
<1>3. ASSUME NEW next \in Job, next.plan = job[r].plan, GoesOn(r, next), next.entity.token = job[r].entity.token,
             UNCHANGED row, mails' \subseteq mails \cup {job[r].entity.token}
      PROVE  TokensInv'
  <2>1. \A s \in Requests : job'[s] # Idle => job'[s].entity.token <= tokens'
    <3>1. /\ job'[r] # Idle => job'[r].entity = next.entity
          /\ \A s \in Requests \ {r} : job'[s] = job[s]
      BY <1>2, <1>3, StepsKeepEntities
    <3>2. \A s \in Requests : \/ job'[s] = Idle
                              \/ job[s] # Idle /\ job'[s].entity.token = job[s].entity.token
      <4>1. ASSUME NEW s \in Requests \ {r} PROVE job'[s] = Idle \/ (job[s] # Idle /\ job'[s] = job[s])
        BY <3>1
      <4>2. job'[r] = Idle \/ job'[r].entity.token = job[r].entity.token
        BY <1>3, <3>1
      <4> QED BY <1>2, <4>1, <4>2
    <3>3. tokens <= tokens'
      BY <1>1
    <3> QED BY <1>1, <3>2, <3>3, EntitiesKeepTokens
  <2>2. job[r].entity.token \in 0 .. tokens
    BY <1>1, <1>2, BoundsAssumption DEF Job, Account, Token
  <2>3. (mails \cup expired)' \subseteq 0 .. tokens'
    BY <1>1, <1>3, <2>2 DEF TokensInv
  <2> QED BY <1>1, <1>3, <2>1, <2>3 DEF TokensInv
<1>4. CASE Insert(r) \/ SendMail(r)
  BY <1>2, <1>3, <1>4 DEF Insert, SendMail
<1>5. CASE InsertRefused(r)
  <2>1. \A s \in Requests : job'[s] = Idle \/ job'[s] = job[s]
    BY <1>5 DEF InsertRefused, Inv, TypeOK
  <2> QED BY <1>5, <2>1 DEF InsertRefused, TokensInv
<1>6. CASE SaveUser(r)
  <2> DEFINE next == [job[r] EXCEPT !.entity = Hashed(job[r]),
                                    !.columns = @ \cup Differing(Hashed(job[r]), UserColumns)]
  <2>1. Hashed(job[r]) \in Account /\ Hashed(job[r]).token = job[r].entity.token
    BY <1>2 DEF Hashed, Job, Account
  <2>2. next \in Job /\ next.plan = job[r].plan /\ next.entity = Hashed(job[r])
    BY <1>2, <2>1 DEF Job, Differing, Columns
  <2>3. GoesOn(r, next) /\ UNCHANGED <<row, mails>>
    BY <1>6 DEF SaveUser
  <2> HIDE DEF next
  <2> QED BY <1>3, <2>1, <2>2, <2>3
<1>7. CASE SaveSettings(r)
  <2> DEFINE next == [job[r] EXCEPT !.columns = @ \cup Differing(job[r].entity, SettingsColumns)]
  <2>1. next \in Job /\ next.plan = job[r].plan /\ next.entity = job[r].entity
    BY <1>2 DEF Job, Differing, Columns
  <2>2. GoesOn(r, next) /\ UNCHANGED <<row, mails>>
    BY <1>7 DEF SaveSettings
  <2> HIDE DEF next
  <2> QED BY <1>3, <2>1, <2>2
<1>8. CASE Write(r)
  <2>1. row' = Written(job[r]) /\ mails' = mails
    BY <1>8 DEF Write
  <2>2. row'.token <= tokens
    <3>1. CASE job[r].new \/ "token" \in job[r].columns
      BY <1>2, <2>1, <3>1 DEF Written, Columns, SettingsColumns
    <3>2. CASE ~ job[r].new /\ "token" \notin job[r].columns
      <4>1. row'.token = row.token
        BY <2>1, <3>2 DEF Written, Columns, SettingsColumns
      <4>2. row # Absent
        BY <1>8, <3>2, Busy, Tails DEF Write, Inv, AllAgree, Agrees, Writes
      <4> QED BY <4>1, <4>2 DEF TokensInv
    <3> QED BY <3>1, <3>2
  <2>3. \A s \in Requests : job'[s] = Idle \/ (job[s] # Idle /\ job'[s].entity.token = job[s].entity.token)
    <3>1. ASSUME NEW s \in Requests PROVE job'[s] = Idle \/ (job[s] # Idle /\ job'[s].entity.token = job[s].entity.token)
      <4>1. job[s] \in Job \cup {Idle}
        BY DEF Inv, TypeOK
      <4> QED BY <1>2, <1>8, <4>1 DEF Write, Job
    <3> QED BY <3>1
  <2>4. \A s \in Requests : job'[s] # Idle => job'[s].entity.token <= tokens'
    BY <1>1, <2>3, EntitiesKeepTokens
  <2> QED BY <1>1, <2>1, <2>2, <2>4 DEF TokensInv
<1> QED BY <1>4, <1>5, <1>6, <1>7, <1>8 DEF Step

LEMMA TokensInvariant == Spec => []TokensInv
<1>1. Init => TokensInv
  BY DEF Init, TokensInv
<1>2. Inv /\ Inv' /\ TokensInv /\ [Next]_vars => TokensInv'
  <2> SUFFICES ASSUME Inv, Inv', TokensInv, [Next]_vars PROVE TokensInv'
    OBVIOUS
  <2>1. tokens \in Nat /\ tokens \in Token /\ tokens' \in Token /\ (Generates => tokens' = tokens + 1)
        /\ (row # Absent => row \in Account /\ row.token <= tokens)
    BY BoundsAssumption DEF Inv, TypeOK, Token, Generates, TokensInv
  <2>2. ASSUME UNCHANGED vars PROVE TokensInv'
    BY <2>2 DEF vars, TokensInv
  <2>3. ASSUME Expire PROVE TokensInv'
    BY <2>3 DEF Expire, TokensInv
  <2>4. ASSUME NEW r \in Requests, Fails(r) PROVE TokensInv'
    <3>1. \A s \in Requests : job'[s] = Idle \/ job'[s] = job[s]
      BY <2>4 DEF Fails, Inv, TypeOK
    <3> QED BY <2>4, <3>1 DEF Fails, TokensInv
  <2>5. ASSUME NEW r \in Requests, CreateUser(r) PROVE TokensInv'
    <3>1. PICK p \in Passwords :
            Begins(r, <<"insert", "mail", "write">>, TRUE,
                   [password |-> p, verified |-> FALSE, active |-> TRUE, token |-> tokens'], Columns, Columns)
      BY <2>5 DEF CreateUser
    <3>2. tokens <= tokens' /\ UNCHANGED <<row, mails, expired>>
          /\ [password |-> p, verified |-> FALSE, active |-> TRUE, token |-> tokens'].token <= tokens'
      BY <2>1, <2>5 DEF CreateUser
    <3> QED BY <2>1, <3>1, <3>2, BeginningsKeepTokens
  <2>6. ASSUME NEW r \in Requests, CreateUserByAdmin(r) PROVE TokensInv'
    <3>1. PICK p \in Passwords :
            Begins(r, <<"insert", "write">>, TRUE,
                   [password |-> p, verified |-> TRUE, active |-> TRUE, token |-> 0], Columns, Columns)
      BY <2>6 DEF CreateUserByAdmin
    <3>2. tokens' = tokens /\ UNCHANGED <<row, mails, expired>>
          /\ [password |-> p, verified |-> TRUE, active |-> TRUE, token |-> 0].token <= tokens'
          /\ tokens <= tokens'
      BY <2>1, <2>6 DEF CreateUserByAdmin
    <3> QED BY <2>1, <3>1, <3>2, BeginningsKeepTokens
  <2>7. ASSUME NEW r \in Requests, UpdateUser(r) \/ ChangePassword(r) PROVE TokensInv'
    <3>1. row # Absent /\ tokens' = tokens /\ UNCHANGED <<row, mails, expired>>
      BY <2>7 DEF UpdateUser, ChangePassword
    <3>2. PICK plan, new, entity, sets, saves :
            Begins(r, plan, new, entity, sets, saves) /\ entity.token = row.token
      <4>1. ASSUME NEW p, Begins(r, <<"user", "write">>, FALSE, [row EXCEPT !.password = p], UserColumns, UserColumns)
            PROVE  \E plan, new, entity, sets, saves :
                      Begins(r, plan, new, entity, sets, saves) /\ entity.token = row.token
        <5>1. [row EXCEPT !.password = p].token = row.token
          BY <2>1, <3>1 DEF Account
        <5> QED BY <4>1, <5>1
      <4>2. ASSUME NEW a, Begins(r, <<"user", "settings", "write">>, FALSE, [row EXCEPT !.active = a], {"active"}, Columns)
            PROVE  \E plan, new, entity, sets, saves :
                      Begins(r, plan, new, entity, sets, saves) /\ entity.token = row.token
        <5>1. [row EXCEPT !.active = a].token = row.token
          BY <2>1, <3>1 DEF Account
        <5> QED BY <4>2, <5>1
      <4>3. ASSUME NEW p, NEW a,
                   Begins(r, <<"user", "settings", "write">>, FALSE, [row EXCEPT !.password = p, !.active = a],
                          {"password", "active"}, Columns)
            PROVE  \E plan, new, entity, sets, saves :
                      Begins(r, plan, new, entity, sets, saves) /\ entity.token = row.token
        <5>1. [row EXCEPT !.password = p, !.active = a].token = row.token
          BY <2>1, <3>1 DEF Account
        <5> QED BY <4>3, <5>1
      <4> QED BY <2>7, <4>1, <4>2, <4>3 DEF UpdateUser, ChangePassword
    <3>3. tokens <= tokens' /\ row.token <= tokens'
      BY <2>1, <3>1
    <3> QED BY <2>1, <3>1, <3>2, <3>3, BeginningsKeepTokens
  <2>8. ASSUME NEW r \in Requests, VerifyEmail(r) PROVE TokensInv'
    <3>1. row # Absent /\ tokens' = tokens /\ UNCHANGED <<row, mails, expired>>
      BY <2>8 DEF VerifyEmail, LinkWorks
    <3>2. PICK plan, new, entity, sets, saves : Begins(r, plan, new, entity, sets, saves) /\ entity.token = 0
      <4>1. [row EXCEPT !.verified = TRUE, !.token = 0].token = 0
        BY <2>1, <3>1 DEF Account
      <4> QED BY <2>8, <4>1 DEF VerifyEmail
    <3> QED BY <2>1, <3>1, <3>2, BeginningsKeepTokens
  <2>9. ASSUME NEW r \in Requests, ResendVerification(r) PROVE TokensInv'
    <3>1. row # Absent /\ tokens' = tokens + 1 /\ UNCHANGED <<row, mails, expired>>
      BY <2>1, <2>9 DEF ResendVerification
    <3>2. PICK plan, new, entity, sets, saves : Begins(r, plan, new, entity, sets, saves) /\ entity.token = tokens'
      <4>1. [row EXCEPT !.token = tokens'].token = tokens'
        BY <2>1, <3>1 DEF Account
      <4> QED BY <2>9, <4>1 DEF ResendVerification
    <3> QED BY <2>1, <3>1, <3>2, BeginningsKeepTokens
  <2> QED BY <2>2, <2>3, <2>4, <2>5, <2>6, <2>7, <2>8, <2>9, StepsKeepTokens DEF Next, Asks
<1> QED BY <1>1, <1>2, Invariant, PTL DEF Spec

-----------------------------------------------------------------------------
(***************************************************************************)
(* Somebody keeps trying, and nobody edits.                                *)
(***************************************************************************)
Able == row # Absent /\ row.active /\ row.password \in Passwords

\* Nothing is under way.
AtRest == Able /\ \A r \in Requests : job[r] = Idle

\* Clicks on a link that works, mails asked for when none does, and what follows.
Tries ==
    \E r \in Requests : VerifyEmail(r) \/ (ResendVerification(r) /\ UNCHANGED count) \/ Step(r)

\* What a click or a mail is about to write is the row but for what it was asked to
\* change, and nothing of that is left out.
OnTop(j, entity) ==
    /\ ~ j.new /\ j.entity = entity
    /\ j.columns \subseteq SettingsColumns
    /\ Head(j.plan) = "write" => Differing(entity, Columns) \subseteq j.columns

Clicks(j) ==
    /\ j.sets = {"verified", "token"} /\ j.plan \in {<<"settings", "write">>, <<"write">>}
    /\ OnTop(j, [row EXCEPT !.verified = TRUE, !.token = 0])
    /\ row.verified \/ LinkWorks

\* A mail has a token of its own.
Mails(j) ==
    /\ j.sets = {"token"} /\ j.plan \in {<<"settings", "write", "mail">>, <<"write", "mail">>, <<"mail">>}
    /\ OnTop(j, [row EXCEPT !.token = j.entity.token])
    /\ j.plan = <<"mail">> => j.entity = row
    /\ j.entity.token \notin mails \cup expired
    /\ ~ row.verified /\ ~ LinkWorks

\* Any number of clicks, or one mail.
Trying ==
    /\ Able
    /\ \A r \in Requests :
          \/ job[r] = Idle
          \/ Clicks(job[r])
          \/ Mails(job[r]) /\ \A s \in Requests \ {r} : job[s] = Idle

Clicking(r) == job[r] # Idle /\ job[r].sets = {"verified", "token"}
Mailed(r)   == job[r] # Idle /\ job[r].sets = {"token"}

Linked   == LinkWorks \/ LogsIn
Tried(r) == Clicking(r) \/ LogsIn
Sent(r)  == Mailed(r) \/ Linked

Keeps ==
    /\ Trying' /\ (LogsIn => LogsIn') /\ (Linked => Linked')
    /\ \A r \in Requests : (Tried(r) => Tried(r)') /\ (Sent(r) => Sent(r)')

\* Their plans, step by step.
LEMMA TheirPlans ==
    /\ Head(<<"settings", "write">>) = "settings" /\ Tail(<<"settings", "write">>) = <<"write">>
    /\ Head(<<"write">>) = "write"
    /\ Head(<<"settings", "write", "mail">>) = "settings"
    /\ Tail(<<"settings", "write", "mail">>) = <<"write", "mail">>
    /\ Head(<<"write", "mail">>) = "write" /\ Tail(<<"write", "mail">>) = <<"mail">>
    /\ Head(<<"mail">>) = "mail"
    /\ Len(<<"settings", "write">>) = 2 /\ Len(<<"write">>) = 1 /\ Len(<<"mail">>) = 1
    /\ Len(<<"settings", "write", "mail">>) = 3 /\ Len(<<"write", "mail">>) = 2
  BY Tails

\* What they change tells them apart.
LEMMA TheirSets == {"verified", "token"} # {"token"}
<1>1. "verified" \in {"verified", "token"} /\ "verified" \notin {"token"}
  OBVIOUS
<1> QED BY <1>1

\* A click may begin,
LEMMA ClickBegins ==
    ASSUME Inv, Trying, NEW q \in Requests, VerifyEmail(q)
    PROVE  Keeps
<1> DEFINE j == [plan |-> <<"settings", "write">>, new |-> FALSE,
                 entity |-> [row EXCEPT !.verified = TRUE, !.token = 0], sets |-> {"verified", "token"},
                 saves |-> SettingsColumns, columns |-> {}, raced |-> {}]
<1>1. /\ UNCHANGED <<row, mails, expired>> /\ LinkWorks /\ job[q] = Idle /\ job' = [job EXCEPT ![q] = j]
      /\ ~ row.verified
  BY DEF VerifyEmail, Begins
<1>2. job'[q] = j /\ \A s \in Requests \ {q} : job'[s] = job[s]
  BY <1>1 DEF Inv, TypeOK
<1>3. Clicks(j) /\ j # Idle
  BY <1>1, Tails DEF Clicks, OnTop, Idle, Ended
<1>4. \A s \in Requests : job[s] = Idle \/ Clicks(job[s])
  BY <1>1 DEF Trying, Mails
<1> HIDE DEF j
<1>5. ASSUME NEW s \in Requests PROVE job'[s] = Idle \/ Clicks(job[s])'
  <2>1. CASE s = q
    <3>1. PICK k : k = job'[q] /\ Clicks(k)
      BY <1>2, <1>3
    <3> QED BY <1>1, <2>1, <3>1 DEF Clicks, OnTop, LinkWorks, Differing
  <2>2. CASE s # q
    <3>1. job[s] = Idle \/ Clicks(job[s])
      BY <1>4
    <3>2. job'[s] = job[s]
      BY <1>2, <2>2
    <3> QED BY <1>1, <3>1, <3>2 DEF Clicks, OnTop, LinkWorks, Differing
  <2> QED BY <2>1, <2>2
<1>6. Trying' /\ (LogsIn => LogsIn') /\ LinkWorks'
  BY <1>1, <1>5 DEF Trying, Able, LogsIn, LinkWorks
<1>7. ASSUME NEW s \in Requests, Clicking(s) PROVE Clicking(s)'
  BY <1>1, <1>2, <1>7 DEF Clicking
<1> QED BY <1>6, <1>7 DEF Keeps, Tried, Sent, Linked

\* or a mail,
LEMMA MailBegins ==
    ASSUME Inv, TokensInv, Trying, NEW q \in Requests, ResendVerification(q), UNCHANGED count
    PROVE  Keeps
<1> DEFINE j == [plan |-> <<"settings", "write", "mail">>, new |-> FALSE,
                 entity |-> [row EXCEPT !.token = tokens'], sets |-> {"token"},
                 saves |-> SettingsColumns, columns |-> {}, raced |-> {}]
<1>1. ~ Edit
  <2>1. count.edits \in Nat /\ (Edit => count'.edits = count.edits + 1)
    BY BoundsAssumption DEF Edit, Inv, TypeOK
  <2> QED BY <2>1
<1>2. /\ UNCHANGED <<row, mails, expired>> /\ ~ LinkWorks /\ ~ Mailing /\ ~ row.verified
      /\ tokens' = tokens + 1 /\ job[q] = Idle /\ job' = [job EXCEPT ![q] = j]
  BY <1>1 DEF ResendVerification, Generates, Begins
<1>3. job'[q] = j /\ \A s \in Requests \ {q} : job'[s] = job[s]
  BY <1>2 DEF Inv, TypeOK
<1>4. \A s \in Requests : job[s] = Idle
  <2> SUFFICES ASSUME NEW s \in Requests, job[s] # Idle PROVE FALSE
    OBVIOUS
  <2>1. Mails(job[s])
    BY <1>2 DEF Trying, Clicks
  <2>2. \E i \in DOMAIN job[s].plan : job[s].plan[i] = "mail"
    <3>1. CASE job[s].plan = <<"settings", "write", "mail">>
      BY <3>1
    <3>2. CASE job[s].plan = <<"write", "mail">>
      BY <3>2
    <3>3. CASE job[s].plan = <<"mail">>
      BY <3>3
    <3> QED BY <2>1, <3>1, <3>2, <3>3 DEF Mails
  <2> QED BY <1>2, <2>2 DEF Mailing
<1>5. Mails(j) /\ j # Idle
  <2>1. j.entity.token = tokens + 1
    BY <1>2 DEF Trying, Able, Inv, TypeOK, Account
  <2>2. tokens + 1 \notin mails \cup expired
    BY BoundsAssumption DEF TokensInv, Inv, TypeOK, Token
  <2>3. OnTop(j, [row EXCEPT !.token = j.entity.token])
    BY <1>2, <2>1, Tails DEF OnTop
  <2>4. j.plan = <<"settings", "write", "mail">> /\ j.sets = {"token"} /\ j.plan # <<"mail">>
    BY Tails
  <2> HIDE DEF j
  <2>5. Mails(j)
    BY <1>2, <2>1, <2>2, <2>3, <2>4 DEF Mails
  <2>6. j # Idle
    BY <2>4 DEF Idle, Ended
  <2> QED BY <2>5, <2>6
<1> HIDE DEF j
<1>6. Mails(job[q])' /\ \A s \in Requests \ {q} : job'[s] = Idle
  <2>1. Mails(job'[q])
    BY <1>3, <1>5
  <2> QED BY <1>2, <1>3, <1>4, <2>1 DEF Mails, OnTop, LinkWorks, Differing
<1>7. Trying' /\ (LogsIn <=> LogsIn') /\ ~ LogsIn
  BY <1>2, <1>6 DEF Trying, Able, LogsIn
<1>8. \A s \in Requests : ~ Tried(s) /\ ~ Sent(s)
  BY <1>2, <1>4, <1>7 DEF Tried, Sent, Linked, Clicking, Mailed
<1> QED BY <1>2, <1>7, <1>8 DEF Keeps, Linked

\* the select notes what differs,
LEMMA SelectKeeps ==
    ASSUME Inv, Trying, NEW q \in Requests, SaveSettings(q)
    PROVE  Keeps
<1> DEFINE next == [job[q] EXCEPT !.columns = @ \cup Differing(job[q].entity, SettingsColumns)]
           t    == [next EXCEPT !.plan = Tail(@)]
<1>1. job[q] \in Job /\ job[q] # Idle /\ Head(job[q].plan) = "settings"
  BY Busy DEF SaveSettings
<1>2. UNCHANGED <<row, mails, expired>> /\ GoesOn(q, next)
  BY DEF SaveSettings
<1>3. /\ next \in Job /\ next.plan = job[q].plan
      /\ t.plan = Tail(job[q].plan) /\ t.new = job[q].new /\ t.entity = job[q].entity /\ t.sets = job[q].sets
      /\ t.columns = job[q].columns \cup Differing(job[q].entity, SettingsColumns)
  BY <1>1 DEF Job, Differing, Columns
<1> HIDE DEF next
<1>4. /\ job'[q] = IF Len(job[q].plan) = 1 THEN Idle ELSE t
      /\ \A s \in Requests \ {q} : job'[s] = job[s]
  BY <1>1, <1>2, <1>3, StepsKeepEntities
<1> HIDE DEF t
<1>5. row \in Account
  BY DEF Inv, TypeOK, Trying, Able
<1>6. ASSUME NEW e, e = [row EXCEPT !.verified = TRUE, !.token = 0] \/ \E k : e = [row EXCEPT !.token = k]
      PROVE  Differing(e, Columns) = Differing(e, SettingsColumns) /\ Differing(e, SettingsColumns) \subseteq SettingsColumns
  BY <1>5, <1>6 DEF Differing, Columns, UserColumns, SettingsColumns, Account
<1>7. ASSUME NEW e, OnTop(job[q], e),
             e = [row EXCEPT !.verified = TRUE, !.token = 0] \/ \E k : e = [row EXCEPT !.token = k]
      PROVE  OnTop(t, e)
  BY <1>3, <1>6, <1>7 DEF OnTop
<1>8. CASE Clicks(job[q])
  <2>1. job[q].plan = <<"settings", "write">> /\ Tail(job[q].plan) = <<"write">> /\ Len(job[q].plan) = 2
    BY <1>1, <1>8, TheirPlans DEF Clicks
  <2>2. Clicks(t)
    BY <1>3, <1>7, <1>8, <2>1 DEF Clicks
  <2>3. job'[q] = t /\ t # Idle
    BY <1>4, <2>1, <2>2, Tails DEF Clicks, Idle, Ended
  <2>4. \A s \in Requests : job[s] = Idle \/ Clicks(job[s])
    BY <1>1, <1>8 DEF Trying, Mails, Clicks
  <2>5. ASSUME NEW s \in Requests PROVE job'[s] = Idle \/ Clicks(job[s])'
    <3>1. PICK k : k = job'[s] /\ (k = Idle \/ Clicks(k))
      BY <1>4, <2>2, <2>3, <2>4
    <3> QED BY <1>2, <3>1 DEF Clicks, OnTop, LinkWorks, Differing
  <2>6. Trying' /\ (LogsIn => LogsIn') /\ (LinkWorks => LinkWorks')
    BY <1>2, <2>5 DEF Trying, Able, LogsIn, LinkWorks
  <2>7. \A s \in Requests : (Clicking(s) => Clicking(s)') /\ ~ Mailed(s)
    <3>1. \A s \in Requests : Clicking(s) => Clicking(s)'
      BY <1>3, <1>4, <2>3 DEF Clicking
    <3>2. \A s \in Requests : ~ Mailed(s)
      BY <2>4, TheirSets DEF Mailed, Clicks
    <3> QED BY <3>1, <3>2
  <2> QED BY <2>6, <2>7 DEF Keeps, Tried, Sent, Linked
<1>9. CASE Mails(job[q]) /\ \A s \in Requests \ {q} : job[s] = Idle
  <2>1. /\ job[q].plan = <<"settings", "write", "mail">> /\ Tail(job[q].plan) = <<"write", "mail">>
        /\ Len(job[q].plan) = 3 /\ Tail(job[q].plan) # <<"mail">>
    BY <1>1, <1>9, TheirPlans DEF Mails
  <2>2. Mails(t)
    BY <1>3, <1>7, <1>9, <2>1 DEF Mails
  <2>3. job'[q] = t /\ t # Idle /\ \A s \in Requests \ {q} : job'[s] = Idle
    BY <1>3, <1>4, <1>9, <2>1, Tails DEF Idle, Ended
  <2>4. Mails(job[q])'
    <3>1. PICK k : k = job'[q] /\ Mails(k)
      BY <2>2, <2>3
    <3> QED BY <1>2, <3>1 DEF Mails, OnTop, LinkWorks, Differing
  <2>5. Trying' /\ ~ LogsIn /\ ~ LinkWorks
    BY <1>2, <1>9, <2>3, <2>4 DEF Trying, Able, LogsIn, Mails
  <2>6. \A s \in Requests : ~ Clicking(s) /\ (Mailed(s) => Mailed(s)')
    BY <1>3, <1>9, <2>3, TheirSets DEF Clicking, Mailed, Mails
  <2> QED BY <2>5, <2>6 DEF Keeps, Tried, Sent, Linked
<1> QED BY <1>1, <1>8, <1>9 DEF Trying

\* What is written is the entity, if nothing that differs is left out.
LEMMA EntityIsWritten ==
    ASSUME NEW j \in Job, row \in Account, ~ j.new, Differing(j.entity, Columns) \subseteq j.columns
    PROVE  Written(j) = j.entity
<1>1. j.entity \in Account
  BY DEF Job
<1>2. Written(j) = [c \in Columns |-> j.entity[c]]
  BY DEF Written, Differing
<1> QED BY <1>1, <1>2 DEF Account, Columns, UserColumns, SettingsColumns

\* the commit writes the entity, which every other click agrees with,
LEMMA CommitKeeps ==
    ASSUME Inv, Trying, NEW q \in Requests, Write(q)
    PROVE  Keeps
<1>1. job[q] \in Job /\ job[q] # Idle /\ Head(job[q].plan) = "write" /\ row \in Account
  BY Busy DEF Write, Inv, TypeOK, Trying, Able
<1>2. /\ UNCHANGED <<mails, expired>> /\ row' = Written(job[q])
      /\ job'[q] = IF Len(job[q].plan) = 1 THEN Idle ELSE [job[q] EXCEPT !.plan = Tail(@)]
      /\ \A s \in Requests \ {q} :
           job'[s] = IF job[s] = Idle THEN Idle ELSE [job[s] EXCEPT !.raced = @ \cup Changes]
  BY DEF Write
<1>3. CASE Clicks(job[q])
  <2>1. job[q].plan = <<"write">> /\ Len(job[q].plan) = 1 /\ job'[q] = Idle
    BY <1>1, <1>2, <1>3, Tails DEF Clicks
  <2>2. row' = [row EXCEPT !.verified = TRUE, !.token = 0]
    BY <1>1, <1>2, <1>3, EntityIsWritten DEF Clicks, OnTop
  <2>3. /\ row' \in Account /\ row'.verified /\ row'.active = row.active /\ row'.password = row.password
        /\ [row' EXCEPT !.verified = TRUE, !.token = 0] = row'
    <3>1. 0 \in Token
      BY BoundsAssumption DEF Token
    <3>2. PICK e : e = row' /\ e \in Account /\ e.verified = TRUE /\ e.token = 0
                   /\ e.active = row.active /\ e.password = row.password
      <4>1. PICK e : e = [row EXCEPT !.verified = TRUE, !.token = 0]
        OBVIOUS
      <4>2. e \in Account /\ e.verified = TRUE /\ e.token = 0 /\ e.active = row.active /\ e.password = row.password
        BY <1>1, <3>1, <4>1 DEF Account
      <4> QED BY <2>2, <4>1, <4>2
    <3>3. [e EXCEPT !.verified = TRUE, !.token = 0] = e
      BY <3>2 DEF Account
    <3> QED BY <3>2, <3>3
  <2>4. Able' /\ LogsIn'
    BY <2>3, AccountIsThere DEF Trying, Able, LogsIn
  <2>5. ASSUME NEW s \in Requests PROVE job'[s] = Idle \/ Clicks(job[s])'
    <3>1. CASE s = q
      BY <2>1, <3>1
    <3>2. CASE s # q /\ job[s] = Idle
      BY <1>2, <3>2
    <3>3. CASE s # q /\ job[s] # Idle
      <4>1. Clicks(job[s]) /\ job[s] \in Job
        BY <1>1, <3>3 DEF Trying, Inv, TypeOK
      <4>2. PICK k : k = job'[s] /\ k.plan = job[s].plan /\ k.sets = job[s].sets /\ k.new = job[s].new
                     /\ k.entity = job[s].entity /\ k.columns = job[s].columns
        BY <1>2, <3>3, <4>1 DEF Job
      <4>3. k.entity = row' /\ Differing(k.entity, Columns)' = {}
        BY <2>2, <4>1, <4>2 DEF Clicks, OnTop, Differing
      <4>4. OnTop(k, [row EXCEPT !.verified = TRUE, !.token = 0])'
        BY <2>3, <4>1, <4>2, <4>3 DEF Clicks, OnTop
      <4> QED BY <2>3, <4>1, <4>2, <4>4 DEF Clicks, OnTop
    <3> QED BY <3>1, <3>2, <3>3
  <2>6. Trying'
    BY <2>4, <2>5 DEF Trying
  <2> QED BY <2>4, <2>6 DEF Keeps, Tried, Sent, Linked
<1>4. CASE Mails(job[q]) /\ \A s \in Requests \ {q} : job[s] = Idle
  <2> DEFINE t == [job[q] EXCEPT !.plan = Tail(@)]
  <2>1. job[q].plan = <<"write", "mail">> /\ Len(job[q].plan) = 2 /\ Tail(job[q].plan) = <<"mail">>
    BY <1>1, <1>4, TheirPlans DEF Mails
  <2>2. /\ t.plan = <<"mail">> /\ t.new = job[q].new /\ t.entity = job[q].entity /\ t.sets = job[q].sets
        /\ t.columns = job[q].columns
    BY <1>1, <2>1 DEF Job
  <2>3. job'[q] = t /\ \A s \in Requests \ {q} : job'[s] = Idle
    <3>1. job'[q] = t
      BY <1>2, <2>1
    <3>2. \A s \in Requests \ {q} : job'[s] = Idle
      BY <1>2, <1>4
    <3> QED BY <3>1, <3>2
  <2> HIDE DEF t
  <2>4. row' = job[q].entity /\ row' = [row EXCEPT !.token = job[q].entity.token]
    BY <1>1, <1>2, <1>4, EntityIsWritten DEF Mails, OnTop
  <2>5. /\ row' \in Account /\ ~ row'.verified /\ row'.active = row.active /\ row'.password = row.password
        /\ row'.token = job[q].entity.token /\ row' = [row' EXCEPT !.token = row'.token]
    BY <1>1, <1>4, <2>4 DEF Account, Mails, Job
  <2>6. Able' /\ ~ LinkWorks' /\ ~ LogsIn'
    BY <1>2, <1>4, <2>5, AccountIsThere DEF Trying, Able, LinkWorks, LogsIn, Mails
  <2>7. Mails(job[q])'
    <3>1. PICK k : k = job'[q] /\ k = t
      BY <2>3
    <3>2. Head(k.plan) = "mail" /\ k.entity = row'
      BY <2>2, <2>4, <3>1, Tails
    <3>3. OnTop(k, [row EXCEPT !.token = k.entity.token])'
      BY <1>4, <2>2, <2>5, <3>1, <3>2 DEF OnTop, Mails
    <3> QED BY <1>2, <1>4, <2>2, <2>5, <2>6, <3>1, <3>2, <3>3 DEF Mails, OnTop
  <2>8. Trying'
    BY <2>3, <2>6, <2>7 DEF Trying
  <2>9. \A s \in Requests : ~ Clicking(s) /\ (Mailed(s) => Mailed(s)')
    <3>1. t # Idle
      BY <2>2, Tails DEF Idle, Ended
    <3> QED BY <1>4, <2>2, <2>3, <3>1, TheirSets DEF Clicking, Mailed, Mails
  <2>10. ~ LogsIn /\ ~ LinkWorks
    BY <1>4 DEF Mails, LogsIn
  <2> QED BY <2>8, <2>9, <2>10 DEF Keeps, Tried, Sent, Linked
<1> QED BY <1>1, <1>3, <1>4 DEF Trying

\* and with the mail there is a link that works.
LEMMA DeliveryKeeps ==
    ASSUME Inv, Trying, NEW q \in Requests, SendMail(q)
    PROVE  Keeps
<1>1. job[q] \in Job /\ job[q] # Idle /\ Head(job[q].plan) = "mail"
  BY Busy DEF SendMail
<1>2. Mails(job[q]) /\ \A s \in Requests \ {q} : job[s] = Idle
  BY <1>1, TheirPlans DEF Trying, Clicks
<1>3. job[q].plan = <<"mail">> /\ Len(job[q].plan) = 1 /\ row = job[q].entity
  BY <1>1, <1>2, TheirPlans DEF Mails
<1>4. \A s \in Requests : job'[s] = Idle
  BY <1>1, <1>2, <1>3 DEF SendMail, GoesOn, Inv, TypeOK
<1>5. LinkWorks' /\ Able' /\ ~ LogsIn
  BY <1>2, <1>3 DEF SendMail, LinkWorks, Mails, Trying, Able, LogsIn
<1>6. \A s \in Requests : ~ Clicking(s)
  BY <1>2, TheirSets DEF Clicking, Mails
<1> QED BY <1>4, <1>5, <1>6 DEF Keeps, Trying, Tried, Sent, Linked

LEMMA TriesKeep == ASSUME Inv, TokensInv, Trying, Tries PROVE Keeps
<1>1. PICK q \in Requests : VerifyEmail(q) \/ (ResendVerification(q) /\ UNCHANGED count) \/ Step(q)
  BY DEF Tries
<1>2. ~ Insert(q) /\ ~ InsertRefused(q) /\ ~ SaveUser(q)
  <2>1. ASSUME NEW step \in {"insert", "user"} PROVE ~ Doing(q, step)
    <3>1. job[q] # Idle => Head(job[q].plan) \in {"settings", "write", "mail"}
      BY TheirPlans DEF Trying, Clicks, Mails
    <3> QED BY <3>1, <2>1 DEF Doing
  <2> QED BY <2>1 DEF Insert, InsertRefused, SaveUser
<1> QED BY <1>1, <1>2, ClickBegins, MailBegins, SelectKeeps, CommitKeeps, DeliveryKeeps DEF Step

\* GetsIn without its "eventually": wherever edits, failures and overlapping saves have
\* left an account that is active and has a password, if from then on somebody only
\* clicks on links that work and asks for mails when none does, and nothing fails, every
\* mail that is asked for leaves a link that works until it is used, and the first click
\* on one logs in for good, however many of them overlap.
THEOREM MailThenClickGetsIn ==
    ASSUME NEW r \in Requests
    PROVE  Spec => [](AtRest /\ [][Tries]_vars
                      => /\ [](Mailed(r) => [](job[r] = Idle => []Linked))
                         /\ [](Clicking(r) => [](job[r] = Idle => []LogsIn)))
<1> DEFINE Over == job[r] = Idle
<1>1. AtRest => Trying
  BY DEF AtRest, Trying
<1>2. Inv /\ TokensInv /\ Trying /\ [Tries]_vars => Keeps
  <2> SUFFICES ASSUME Inv, TokensInv, Trying, [Tries]_vars PROVE Keeps
    OBVIOUS
  <2>1. CASE UNCHANGED vars
    BY <2>1 DEF vars, Keeps, Trying, Able, Clicks, Mails, OnTop, Differing, LinkWorks, LogsIn, Tried, Sent, Linked,
       Clicking, Mailed
  <2> QED BY <2>1, TriesKeep
<1>3. Keeps => Trying' /\ (LogsIn => LogsIn') /\ (Linked => Linked') /\ (Tried(r) => Tried(r)') /\ (Sent(r) => Sent(r)')
  BY DEF Keeps
<1>4. /\ Clicking(r) => Tried(r)
      /\ Tried(r) /\ Over => LogsIn
      /\ Mailed(r) => Sent(r)
      /\ Sent(r) /\ Over => Linked
  BY DEF Tried, Sent, Clicking, Mailed
<1> QED BY <1>1, <1>2, <1>3, <1>4, Invariant, TokensInvariant, PTL
=============================================================================
