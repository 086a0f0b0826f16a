------------------------------ MODULE Accounts ------------------------------
(***************************************************************************)
(* Accounts of the API over one PostgreSQL database at READ COMMITTED:     *)
(* registration, Google sign-in, login behind the rate limiter, deletion   *)
(* and its purge job, push devices, exam targets, and the job that sends   *)
(* the streak reminders.  A request is one transaction (get_db) that runs  *)
(* one command, statement by statement; the two jobs run over and over.    *)
(*                                                                         *)
(* A transaction's writes are an overlay over the committed rows.  A       *)
(* statement waits while another transaction has written a row it writes,  *)
(* or has a row with one of the unique keys it takes; a foreign key makes  *)
(* the insert of a child and the delete of its user wait for each other.   *)
(***************************************************************************)
EXTENDS Integers, FiniteSets, Sequences

CONSTANTS Requests,     \* the requests, each of which runs one command
          Olds,         \* names of the rows that exist at the start
          Purger,       \* the job of entrypoints/purge_accounts.py
          Reminder,     \* the job of entrypoints/remind_streak.py
          Emails, Subjects, Tokens, Exams,
          Scenarios,    \* the rows at the start, what is asked, how long and how often
          Absent,       \* no such row
          Grace,        \* account_purge_grace_days
          Batch,        \* account_purge_batch_size
          LoginMax,     \* login_rate_limit_attempts
          LoginWindow,  \* login_rate_limit_window_seconds, in ticks
          Chunk,        \* tokens per call of the Expo API
          LastTick,     \* bound: no scenario's clock goes further
          MaxCrashes    \* bound: runs of the purge job that fail

Ids == Requests \union Olds
Jobs == {Purger, Reminder}
Transactions == Requests \union Jobs

ASSUME BoundsAssumption ==
    /\ Grace \in Nat /\ LastTick \in Nat /\ MaxCrashes \in Nat
    /\ Batch \in Nat \ {0} /\ LoginMax \in Nat \ {0} /\ Chunk \in Nat \ {0}
    /\ LoginWindow \in Nat \ {0}
    /\ Requests \intersect Jobs = {} /\ Requests \intersect Olds = {} /\ Purger # Reminder
    /\ \A s \in Scenarios : s.ticks \in 0 .. LastTick /\ s.runs \in Nat

VARIABLES plan,      \* the scenario: rows, asks, runs (of the reminder job), ticks
          clock,     \* the time, in ticks; a tick is a day for the purge and the reminders
          db,        \* the committed rows
          pending,   \* what each open transaction has written
          pc,        \* the next statement of each transaction
          cmd,       \* the command of each request
          begun,     \* when the transaction began: the value of its now()
          memo,      \* what the transaction remembers from its reads
          attempts,  \* SlidingWindowRateLimiter._attempts, per e-mail (one client address)
          runs,      \* runs of the reminder job, so far
          crashes,   \* failed runs of the purge job, so far
          beside,    \* history: credentials written beside the deletion of their account
          tried,     \* history: logins let through since the last success, per e-mail
          notified   \* history: who was sent a reminder, by which run, and the failed runs

vars == <<plan, clock, db, pending, pc, cmd, begun, memo, attempts, runs, crashes, beside, tried, notified>>
request == <<cmd, begun>>
limiter == <<attempts, tried>>
reminders == <<runs, notified>>
world == <<plan, clock, crashes, db, limiter, reminders, beside>>   \* what a statement leaves alone

-----------------------------------------------------------------------------
(* Rows: a request creates at most one row of each table, named after it. *)

User(i) == <<"user", i>>
Identity(i) == <<"identity", i>>
Device(i) == <<"device", i>>
Target(i) == <<"target", i>>
Rows == {"user", "identity", "device", "target"} \X Ids
Child(r) == r[1] # "user"

Users == [email: Emails, live: BOOLEAN, deleted_at: 0 .. LastTick, reminded: -1 .. LastTick]
Identities == [user: Ids, provider: {"email", "google"}, subject: Subjects \union {Absent}, live: BOOLEAN]
Devices == [user: Ids, token: Tokens, live: BOOLEAN]
Targets == [user: Ids, exam: Exams, is_active: BOOLEAN, live: BOOLEAN]

\* The table a row is in.
RowsOf(r) ==
    CASE r[1] = "user" -> Users
      [] r[1] = "identity" -> Identities
      [] r[1] = "device" -> Devices
      [] r[1] = "target" -> Targets
\* What the schemas let a client ask for.
Asks ==
    [kind: {"register", "login"}, email: Emails]
        \union [kind: {"google"}, email: Emails, subject: Subjects]
        \union [kind: {"rename", "delete"}, user: Ids]
        \union [kind: {"register_device", "unregister_device"}, user: Ids, token: Tokens]
        \union [kind: {"add"}, user: Ids, exam: Exams]
        \union [kind: {"remove", "activate"}, user: Ids, target: Ids]

\* A scenario starts from rows the API can have written: a live account has a credential.
ASSUME ScenariosAssumption ==
    /\ Absent \notin Users \union Identities \union Devices \union Targets
    /\ \A s \in Scenarios :
        /\ s.asks \subseteq Asks
        /\ \A r \in DOMAIN s.rows : r \in Rows /\ r[2] \in Olds /\ s.rows[r] \in RowsOf(r)
        /\ \A r \in DOMAIN s.rows : r[1] = "user" /\ s.rows[r].live =>
               \E q \in DOMAIN s.rows : q[1] = "identity" /\ s.rows[q].live /\ s.rows[q].user = r[2]

Exists(t, r) == t[r] # Absent
Live(t, r) == t[r] # Absent /\ t[r].live

\* The partial unique indexes: the keys a row holds while it is not soft deleted.
UserKeys(row) == {<<"email", row.email>>}
IdentityKeys(row) ==
    {<<"provider", row.user, row.provider>>}
        \union (IF row.subject = Absent THEN {} ELSE {<<"subject", row.subject>>})
DeviceKeys(row) == {<<"token", row.token>>}
\* Variant: the index of the active lens is missing.
TargetKeys_NoLens(row) == {<<"exam", row.user, row.exam>>}
TargetKeys(row) ==
    {<<"exam", row.user, row.exam>>} \union (IF row.is_active THEN {<<"lens", row.user>>} ELSE {})
Keys(r, row) ==
    IF row = Absent \/ (row # Absent /\ ~row.live) THEN {}
    ELSE CASE r[1] = "user" -> UserKeys(row)
           [] r[1] = "identity" -> IdentityKeys(row)
           [] r[1] = "device" -> DeviceKeys(row)
           [] r[1] = "target" -> TargetKeys(row)

\* What a transaction has written: a function from the rows it wrote.
Nothing == [r \in {} |-> Absent]
Over(writes, t) == [r \in DOMAIN t \union DOMAIN writes |-> IF r \in DOMAIN writes THEN writes[r] ELSE t[r]]
View(p) == Over(pending[p], db)
ChildOf(r, row, u) == Child(r) /\ row # Absent /\ row.user = u

\* The transactions p has to wait for before it can make these writes.
Blockers(p, writes) ==
    {q \in Transactions \ {p} : \E r \in DOMAIN writes, s \in DOMAIN pending[q] :
        \/ r = s
        \/ Keys(r, writes[r]) \intersect (Keys(s, pending[q][s]) \union Keys(s, db[s])) # {}
        \/ r[1] = "user" /\ writes[r] = Absent /\ ChildOf(s, pending[q][s], r[2])
        \/ s[1] = "user" /\ pending[q][s] = Absent /\ ChildOf(r, writes[r], s[2])}

\* A unique index or a foreign key refuses these writes.
Refused(p, writes) ==
    LET after == Over(writes, View(p)) IN
    \E r \in DOMAIN writes :
        \/ \E s \in Rows \ {r} : Keys(r, after[r]) \intersect Keys(s, after[s]) # {}
        \/ Child(r) /\ after[r] # Absent /\ after[User(after[r].user)] = Absent

\* A statement that writes one row; UPDATE ... SET deleted_at of a set of rows.
Put(r, row) == [s \in {r} |-> row]
Retire(t, rows) == [r \in rows |-> [t[r] EXCEPT !.live = FALSE]]

-----------------------------------------------------------------------------
(* What each writing statement writes, from the transaction's view of the rows. *)

\* create_user and add_email_identity, add_google_identity
CreateUser(p) ==
    Put(User(p), [email |-> cmd[p].email, live |-> TRUE, deleted_at |-> 0, reminded |-> -1])
AddIdentity(p) ==
    Put(Identity(p), [user |-> memo[p], live |-> TRUE,
                         provider |-> IF cmd[p].kind = "google" THEN "google" ELSE "email",
                         subject |-> IF cmd[p].kind = "google" THEN cmd[p].subject ELSE Absent])

\* update_nickname: the row is written, the nickname itself is left out
UpdateNickname(p, t) ==
    LET u == User(cmd[p].user) IN IF Live(t, u) THEN Put(u, t[u]) ELSE Nothing

\* soft_delete: now() is the start of the transaction
SoftDelete(p, t) ==
    LET u == User(cmd[p].user) IN
    IF Live(t, u) THEN Put(u, [t[u] EXCEPT !.live = FALSE, !.deleted_at = begun[p]]) ELSE Nothing
\* Variant: the UPDATE forgets whose identities it retires.
RetireIdentities_All(p, t) == Retire(t, {r \in Rows : r[1] = "identity" /\ Live(t, r)})
RetireIdentities(p, t) == Retire(t, {r \in Rows : r[1] = "identity" /\ Live(t, r) /\ t[r].user = cmd[p].user})
RetireDevices(p, t) == Retire(t, {r \in Rows : r[1] = "device" /\ Live(t, r) /\ t[r].user = cmd[p].user})

\* register: INSERT ... ON CONFLICT (token) DO UPDATE SET user_id
HasToken(t, r, tokens) == r[1] = "device" /\ Live(t, r) /\ t[r].token \in tokens
RegisterDevice(p, t) ==
    LET taken == {r \in Rows : HasToken(t, r, {cmd[p].token})} IN
    IF taken = {} THEN Put(Device(p), [user |-> cmd[p].user, token |-> cmd[p].token, live |-> TRUE])
    ELSE [r \in taken |-> [t[r] EXCEPT !.user = cmd[p].user]]
UnregisterDevice(p, t) ==
    Retire(t, {r \in Rows : HasToken(t, r, {cmd[p].token}) /\ t[r].user = cmd[p].user})

\* exam targets: add, soft_delete, and the two UPDATEs of set_active
LiveTargets(t, u) == {r \in Rows : r[1] = "target" /\ Live(t, r) /\ t[r].user = u}
AddTarget(p) ==
    Put(Target(p), [user |-> cmd[p].user, exam |-> cmd[p].exam, is_active |-> memo[p], live |-> TRUE])
RemoveTarget(p, t) ==
    LET r == Target(cmd[p].target) IN
    IF r \in LiveTargets(t, cmd[p].user) THEN Put(r, [t[r] EXCEPT !.live = FALSE, !.is_active = FALSE])
    ELSE Nothing
\* Variant: every other target is written, active or not.
ClearActive_Others(p, t) ==
    [r \in LiveTargets(t, cmd[p].user) \ {Target(cmd[p].target)} |-> [t[r] EXCEPT !.is_active = FALSE]]
\* The first UPDATE writes the rows its snapshot found (memo), if they are still active.
ClearActive(p, t) ==
    [r \in {s \in memo[p] : s \in LiveTargets(t, cmd[p].user) /\ t[s].is_active} |->
        [t[r] EXCEPT !.is_active = FALSE]]
\* Variant: a target that was already active is not written again.
SetActive_UnlessActive(p, t) ==
    LET r == Target(cmd[p].target) IN
    IF r \in LiveTargets(t, cmd[p].user) /\ ~db[r].is_active THEN Put(r, [t[r] EXCEPT !.is_active = TRUE])
    ELSE Nothing
SetActive(p, t) ==
    LET r == Target(cmd[p].target) IN
    IF r \in LiveTargets(t, cmd[p].user) THEN Put(r, [t[r] EXCEPT !.is_active = TRUE]) ELSE Nothing

\* Variant: the targets do not leave by cascade.
Purge_TargetsStay(t, u) ==
    [r \in {s \in Rows : Exists(t, s) /\ (s = User(u) \/ (ChildOf(s, t[s], u) /\ s[1] # "target"))} |-> Absent]
\* the jobs: DELETE FROM users with its cascade; unregister_many; mark_streak_reminders_sent
Purge(t, u) ==
    [r \in {s \in Rows : Exists(t, s) /\ (s = User(u) \/ ChildOf(s, t[s], u))} |-> Absent]
UnregisterMany(t) == Retire(t, {r \in Rows : HasToken(t, r, memo[Reminder].dead)})
MarkReminded(t) ==
    [r \in {User(i) : i \in {j \in memo[Reminder].risk : Exists(t, User(j))}} |-> [t[r] EXCEPT !.reminded = memo[Reminder].today]]

WritesOf(p) ==
    CASE pc[p] = "create_user" -> CreateUser(p)
      [] pc[p] = "add_identity" -> AddIdentity(p)
      [] pc[p] = "rename" -> UpdateNickname(p, View(p))
      [] pc[p] = "soft_delete" -> SoftDelete(p, View(p))
      [] pc[p] = "retire_identities" -> RetireIdentities(p, View(p))
      [] pc[p] = "retire_devices" -> RetireDevices(p, View(p))
      [] pc[p] = "register_device" -> RegisterDevice(p, View(p))
      [] pc[p] = "unregister_device" -> UnregisterDevice(p, View(p))
      [] pc[p] = "add_target" -> AddTarget(p)
      [] pc[p] = "remove_target" -> RemoveTarget(p, View(p))
      [] pc[p] = "clear_active" -> ClearActive(p, View(p))
      [] pc[p] = "set_active" -> SetActive(p, View(p))
      [] pc[p] = "unregister_many" -> UnregisterMany(View(p))
      [] pc[p] = "mark_reminded" -> MarkReminded(View(p))
      [] OTHER -> Nothing

-----------------------------------------------------------------------------
\* What the unique indexes and the foreign keys promise of the rows.
Unique(t) == \A r, s \in Rows : r # s => Keys(r, t[r]) \intersect Keys(s, t[s]) = {}
Owned(t) == \A r \in Rows : Child(r) /\ Exists(t, r) => Exists(t, User(t[r].user))

\* The rows of a scenario.  They obey the schema, nothing works of a deleted account,
\* and a student with targets has a lens or has removed a target.
Start(rows) == [r \in Rows |-> IF r \in DOMAIN rows THEN rows[r] ELSE Absent]
ASSUME StartAssumption ==
    \A s \in Scenarios :
        LET t == Start(s.rows) IN
        /\ Unique(t) /\ Owned(t)
        /\ \A r \in Rows : r[1] \in {"identity", "device"} /\ Live(t, r) => Live(t, User(t[r].user))
        /\ \A r \in Rows : r[1] = "target" /\ Exists(t, r) =>
               \E q \in Rows : /\ q[1] = "target" /\ Exists(t, q) /\ t[q].user = t[r].user
                               /\ ~t[q].live \/ t[q].is_active

Init ==
    /\ plan \in Scenarios
    /\ db = Start(plan.rows)
    /\ clock = 0 /\ crashes = 0
    /\ pending = [p \in Transactions |-> Nothing]
    /\ pc = [p \in Transactions |-> "idle"]
    /\ memo = [p \in Transactions |-> Absent]
    /\ cmd = [p \in Requests |-> Absent]
    /\ begun = [p \in Requests |-> 0]
    /\ attempts = [e \in Emails |-> {}]
    /\ tried = [e \in Emails |-> {}]
    /\ runs = 0
    /\ notified = [sent |-> {}, failed |-> {}]
    /\ beside = {}

\* The transaction is over: its overlay, its reads and its command are forgotten.
Ends(p) ==
    /\ pending' = [pending EXCEPT ![p] = Nothing]
    /\ pc' = [pc EXCEPT ![p] = IF p \in Requests THEN "done" ELSE "idle"]
    /\ memo' = [memo EXCEPT ![p] = Absent]
    /\ cmd' = [q \in Requests |-> IF q = p THEN Absent ELSE cmd[q]]
    /\ begun' = [q \in Requests |-> IF q = p THEN 0 ELSE begun[q]]

Goto(p, next) == pc' = [pc EXCEPT ![p] = next]
Recall(p, value) == memo' = [memo EXCEPT ![p] = value]

\* A read that lets the command go on, or one that ends it with an error or an answer.
Continues(p, next) == Goto(p, next) /\ UNCHANGED <<pending, request>>

\* A writing statement: executed once nothing blocks it, refused by an index or a
\* foreign key (IntegrityError, the request rolls back), or raised by the use case.
Statement(p, next) ==
    /\ Blockers(p, WritesOf(p)) = {}
    /\ IF Refused(p, WritesOf(p)) THEN Ends(p)
       ELSE /\ pending' = [pending EXCEPT ![p] = Over(WritesOf(p), @)]
            /\ Goto(p, next)
            /\ UNCHANGED <<memo, request>>
    /\ UNCHANGED world

\* get_db opens the transaction and get_current_user_id asks whether the account is
\* live.  Bound: nobody asks when the clock has no room left for the grace period.
First(kind) ==
    CASE kind = "register" -> "find_email"
      [] kind = "google" -> "find_subject"
      [] kind = "login" -> "check_limit"
      [] kind = "rename" -> "rename"
      [] kind = "delete" -> "soft_delete"
      [] kind = "register_device" -> "register_device"
      [] kind = "unregister_device" -> "unregister_device"
      [] kind = "add" -> "exists"
      [] kind \in {"remove", "activate"} -> "get"
InSession(c) == c.kind \notin {"register", "google", "login"}
Begin(p, c) ==
    /\ pc[p] = "idle" /\ clock + Grace <= plan.ticks
    /\ InSession(c) => Live(db, User(c.user))
    /\ cmd' = [cmd EXCEPT ![p] = c]
    /\ begun' = [begun EXCEPT ![p] = clock]
    /\ Goto(p, First(c.kind))
    /\ UNCHANGED <<world, pending, memo>>

\* find_user_by_google_subject: a known Google account is signed in, nothing is written.
FindSubject(p) ==
    /\ pc[p] = "find_subject"
    /\ IF \E r \in Rows : /\ r[1] = "identity" /\ Live(db, r)
                          /\ db[r].provider = "google" /\ db[r].subject = cmd[p].subject
                          /\ Live(db, User(db[r].user))
       THEN Ends(p) ELSE Continues(p, "find_email") /\ UNCHANGED memo
    /\ UNCHANGED world

\* get_by_email: registration refuses a live account, Google links its identity to it.
FindEmail(p) ==
    LET found == {i \in Ids : Live(db, User(i)) /\ db[User(i)].email = cmd[p].email} IN
    /\ pc[p] = "find_email"
    /\ \/ /\ found = {}
          /\ Recall(p, p) /\ Continues(p, "create_user")
       \/ /\ found # {} /\ cmd[p].kind = "register"
          /\ Ends(p)
       \/ /\ cmd[p].kind = "google"
          /\ \E i \in found : Recall(p, i)
          /\ Continues(p, "add_identity")
    /\ UNCHANGED world

InsertUser(p) == pc[p] = "create_user" /\ Statement(p, "add_identity")
InsertIdentity(p) == pc[p] = "add_identity" /\ Statement(p, "commit")
Rename(p) == pc[p] = "rename" /\ Statement(p, "commit")

\* The UPDATE that finds no live account raises AccountNotFoundError.
Delete(p) == pc[p] = "soft_delete" /\ Live(View(p), User(cmd[p].user)) /\ Statement(p, "retire_identities")
DeleteAgain(p) ==
    /\ pc[p] = "soft_delete" /\ ~Live(View(p), User(cmd[p].user))
    /\ Ends(p)
    /\ UNCHANGED world
\* Variant: only the identities are retired.
RetireCredentials_IdentitiesOnly(p) == pc[p] = "retire_identities" /\ Statement(p, "commit")
RetireCredentials(p) ==
    \/ pc[p] = "retire_identities" /\ Statement(p, "retire_devices")
    \/ pc[p] = "retire_devices" /\ Statement(p, "commit")

Register(p) == pc[p] = "register_device" /\ Statement(p, "commit")
Unregister(p) == pc[p] = "unregister_device" /\ Statement(p, "commit")

\* AddExamTargetUseCase: exists, then whether the list is empty, then the insert.
TargetExists(p) ==
    /\ pc[p] = "exists"
    /\ IF \E r \in LiveTargets(db, cmd[p].user) : db[r].exam = cmd[p].exam
       THEN Ends(p) ELSE Continues(p, "list") /\ UNCHANGED memo
    /\ UNCHANGED world
IsFirst(p) ==
    /\ pc[p] = "list"
    /\ Recall(p, LiveTargets(db, cmd[p].user) = {})
    /\ Continues(p, "add_target")
    /\ UNCHANGED world
Add(p) == pc[p] = "add_target" /\ Statement(p, "commit")

\* get of RemoveExamTargetUseCase and SetActiveExamTargetUseCase.
GetTarget(p) ==
    /\ pc[p] = "get"
    /\ IF Target(cmd[p].target) \in LiveTargets(db, cmd[p].user)
       THEN Continues(p, IF cmd[p].kind = "remove" THEN "remove_target" ELSE "find_active") /\ UNCHANGED memo
       ELSE Ends(p)
    /\ UNCHANGED world
Remove(p) == pc[p] = "remove_target" /\ Statement(p, "commit")

\* set_active: the first UPDATE finds its rows in its snapshot and may have to wait
\* for them before it writes.
FindActive(p) ==
    /\ pc[p] = "find_active"
    /\ Recall(p, {r \in LiveTargets(db, cmd[p].user) : db[r].is_active})
    /\ Continues(p, "clear_active")
    /\ UNCHANGED world
Clear(p) == pc[p] = "clear_active" /\ Statement(p, "set_active")
Set(p) == pc[p] = "set_active" /\ Statement(p, "commit")

\* Variant: the window is one tick short.
InWindow_Short(tries, now) == {a \in tries : now - a.at < LoginWindow - 1}
\* SlidingWindowRateLimiter.check, under its lock; a full window refuses the login.
InWindow(tries, now) == {a \in tries : now - a.at < LoginWindow}
CheckLimit(p) ==
    LET e == cmd[p].email
        kept == InWindow(attempts[e], clock)
        try == [by |-> p, at |-> clock] IN
    /\ pc[p] = "check_limit"
    /\ \/ /\ Cardinality(kept) >= LoginMax
          /\ attempts' = [attempts EXCEPT ![e] = kept]
          /\ Ends(p) /\ UNCHANGED tried
       \/ /\ Cardinality(kept) < LoginMax
          /\ attempts' = [attempts EXCEPT ![e] = kept \union {try}]
          /\ tried' = [tried EXCEPT ![e] = @ \union {try}]
          /\ Continues(p, "login_email") /\ UNCHANGED memo
    /\ UNCHANGED <<plan, clock, crashes, db, reminders, beside>>

LoginEmail(p) ==
    LET found == {i \in Ids : Live(db, User(i)) /\ db[User(i)].email = cmd[p].email} IN
    /\ pc[p] = "login_email"
    /\ \/ found = {} /\ Ends(p)
       \/ (\E i \in found : Recall(p, i)) /\ Continues(p, "verify")
    /\ UNCHANGED world

\* get_email_password_hash and verify: the password is right or wrong.
HasPassword(i) ==
    \E r \in Rows : r[1] = "identity" /\ Live(db, r) /\ db[r].user = i /\ db[r].provider = "email"
Verify(p, right) ==
    /\ pc[p] = "verify"
    /\ IF HasPassword(memo[p]) /\ right THEN Continues(p, "reset") /\ UNCHANGED memo ELSE Ends(p)
    /\ UNCHANGED world
\* Variant: the success that ends a series of logins does not empty the window.
ResetLimit_Kept(p) ==
    /\ pc[p] = "reset"
    /\ tried' = [tried EXCEPT ![cmd[p].email] = {}]
    /\ Ends(p)
    /\ UNCHANGED <<plan, clock, crashes, db, reminders, beside, attempts>>
ResetLimit(p) ==
    /\ pc[p] = "reset"
    /\ attempts' = [attempts EXCEPT ![cmd[p].email] = {}]
    /\ tried' = [tried EXCEPT ![cmd[p].email] = {}]
    /\ Ends(p)
    /\ UNCHANGED <<plan, clock, crashes, db, reminders, beside>>

\* The commit of get_db and session_scope: every write appears at once.
Leaving(p, u) ==
    \/ Exists(View(p), User(u)) /\ ~View(p)[User(u)].live
    \/ \E q \in Transactions \ {p} :
           User(u) \in DOMAIN pending[q] /\ pending[q][User(u)] # Absent /\ ~pending[q][User(u)].live
Commit(p) ==
    /\ pc[p] = "commit"
    /\ db' = View(p)
    /\ beside' = (beside \ DOMAIN pending[p]) \union
           {r \in DOMAIN pending[p] : /\ r[1] \in {"identity", "device"}
                                        /\ Live(View(p), r) /\ Leaving(p, View(p)[r].user)}
    /\ Ends(p)
    /\ UNCHANGED <<plan, clock, crashes, limiter, reminders>>

\* A request that fails anywhere before its commit rolls back.
RequestDies(p) ==
    /\ pc[p] \notin {"idle", "done"}
    /\ Ends(p)
    /\ UNCHANGED world

RequestStep(p) ==
    \/ FindSubject(p) \/ FindEmail(p) \/ InsertUser(p) \/ InsertIdentity(p) \/ Rename(p)
    \/ Delete(p) \/ DeleteAgain(p) \/ RetireCredentials(p)
    \/ Register(p) \/ Unregister(p)
    \/ TargetExists(p) \/ IsFirst(p) \/ Add(p)
    \/ GetTarget(p) \/ Remove(p) \/ FindActive(p) \/ Clear(p) \/ Set(p)
    \/ CheckLimit(p) \/ LoginEmail(p) \/ (\E right \in BOOLEAN : Verify(p, right)) \/ ResetLimit(p)
    \/ Commit(p)

-----------------------------------------------------------------------------
(* The purge job: one batch of the accounts whose grace has passed, oldest *)
(* first, in one transaction; a run that fails is retried by the next.     *)

\* Variant: the cutoff is a tick early.
PurgeCutoff_Early == clock - Grace + 1
PurgeCutoff == clock - Grace
Due == {i \in Ids : /\ Exists(db, User(i)) /\ ~db[User(i)].live
                    /\ db[User(i)].deleted_at <= PurgeCutoff}
Oldest(chosen) == \A i \in chosen, j \in Due \ chosen :
                      db[User(i)].deleted_at <= db[User(j)].deleted_at
DueForPurge ==
    /\ pc[Purger] = "idle"
    /\ \E chosen \in SUBSET Due :
        /\ chosen # {} /\ Oldest(chosen)
        /\ Cardinality(chosen) = IF Cardinality(Due) < Batch THEN Cardinality(Due) ELSE Batch
        /\ Recall(Purger, chosen)
    /\ Continues(Purger, "purge")
    /\ UNCHANGED world

\* DELETE FROM users WHERE id = ...: every dependent leaves by cascade.
PurgeNext(i) ==
    /\ pc[Purger] = "purge" /\ i \in memo[Purger]
    /\ Blockers(Purger, Purge(View(Purger), i)) = {}
    /\ pending' = [pending EXCEPT ![Purger] = Over(Purge(View(Purger), i), @)]
    /\ Recall(Purger, memo[Purger] \ {i})
    /\ Goto(Purger, IF memo[Purger] = {i} THEN "commit" ELSE "purge")
    /\ UNCHANGED <<world, request>>
PurgeDies ==
    /\ pc[Purger] # "idle" /\ crashes < MaxCrashes
    /\ crashes' = crashes + 1
    /\ Ends(Purger)
    /\ UNCHANGED <<plan, clock, db, limiter, reminders, beside>>
PurgerStep == DueForPurge \/ (\E i \in Ids : PurgeNext(i)) \/ Commit(Purger)

-----------------------------------------------------------------------------
(* The reminder job: today is read once, the notifications leave chunk by  *)
(* chunk, and only then are the users marked and everything committed.     *)

RemindBegins ==
    /\ pc[Reminder] = "idle" /\ runs < plan.runs
    /\ runs' = runs + 1
    /\ Recall(Reminder, [today |-> clock, risk |-> {}, left |-> {}, dead |-> {}])
    /\ Goto(Reminder, "at_risk")
    /\ UNCHANGED <<plan, clock, db, pending, request, limiter, crashes, beside, notified>>

\* Variant: nobody counts as reminded.
AlreadyReminded_Nobody(today) == {}
\* get_users_with_streak_at_risk: any users may have practised yesterday and not today.
AlreadyReminded(today) == {i \in Ids : Live(db, User(i)) /\ db[User(i)].reminded = today}
AtRisk(practised) ==
    LET risk == practised \ AlreadyReminded(memo[Reminder].today) IN
    /\ pc[Reminder] = "at_risk"
    /\ practised \subseteq {i \in Ids : Exists(db, User(i))}
    /\ IF risk = {} THEN Ends(Reminder)
       ELSE Recall(Reminder, [memo[Reminder] EXCEPT !.risk = risk]) /\ Continues(Reminder, "tokens")
    /\ UNCHANGED world

\* get_tokens_for_users
TokensOfUsers(users) ==
    {[token |-> db[r].token, user |-> db[r].user] :
        r \in {s \in Rows : s[1] = "device" /\ Live(db, s) /\ db[s].user \in users}}
GetTokens ==
    LET tokens == TokensOfUsers(memo[Reminder].risk) IN
    /\ pc[Reminder] = "tokens"
    /\ IF tokens = {} THEN Ends(Reminder)
       ELSE Recall(Reminder, [memo[Reminder] EXCEPT !.left = tokens]) /\ Continues(Reminder, "send")
    /\ UNCHANGED world

\* send_streak_reminders, one chunk: some devices are no longer registered.
Sent(chunk) ==
    {[user |-> d.user, day |-> memo[Reminder].today, run |-> runs] : d \in chunk}
NextChunk(left) ==
    {chunk \in SUBSET left :
        Cardinality(chunk) = IF Cardinality(left) < Chunk THEN Cardinality(left) ELSE Chunk}
Send(chunk, gone) ==
    LET dead == memo[Reminder].dead \union {d.token : d \in gone}
        left == memo[Reminder].left \ chunk IN
    /\ notified' = [notified EXCEPT !.sent = @ \union Sent(chunk \ gone)]
    /\ Recall(Reminder, [memo[Reminder] EXCEPT !.left = left, !.dead = dead])
    /\ Goto(Reminder, CASE left # {} -> "send"
                        [] left = {} /\ dead # {} -> "unregister_many"
                        [] left = {} /\ dead = {} -> "mark_reminded")
    /\ UNCHANGED <<plan, clock, db, pending, request, limiter, crashes, beside, runs>>
SendSome ==
    /\ pc[Reminder] = "send"
    /\ \E chunk \in NextChunk(memo[Reminder].left) : \E gone \in SUBSET chunk : Send(chunk, gone)

UnregisterDead == pc[Reminder] = "unregister_many" /\ Statement(Reminder, "mark_reminded")
MarkSent == pc[Reminder] = "mark_reminded" /\ Statement(Reminder, "commit")

\* The run fails: nothing it wrote stays, what it sent is sent.
RunFails ==
    /\ Ends(Reminder)
    /\ notified' = [notified EXCEPT !.failed = @ \union {runs}]
    /\ UNCHANGED <<plan, clock, db, runs, limiter, crashes, beside>>
ReminderDies == pc[Reminder] # "idle" /\ RunFails

ReminderStep ==
    \/ \E practised \in SUBSET Ids : AtRisk(practised)
    \/ GetTokens
    \/ SendSome \/ UnregisterDead \/ MarkSent \/ Commit(Reminder)
-----------------------------------------------------------------------------
\* A wait cycle among some transactions: PostgreSQL rolls one of them back.
Waits(p) ==
    IF pc[p] # "purge" THEN Blockers(p, WritesOf(p))
    ELSE UNION {Blockers(p, Purge(View(p), i)) : i \in memo[p]}
Deadlocked(S) == S # {} /\ \A p \in S : Waits(p) \intersect S # {}
BreakDeadlock(p) ==
    /\ Waits(p) # {}
    /\ \E S \in SUBSET Transactions : p \in S /\ Deadlocked(S)
    /\ IF p = Reminder THEN RunFails ELSE Ends(p) /\ UNCHANGED world

Tick ==
    /\ clock < plan.ticks
    /\ clock' = clock + 1
    /\ UNCHANGED <<plan, db, pending, pc, request, memo, limiter, reminders, crashes, beside>>

\* What goes on by itself: the clock, the requests that have begun, the scheduled purge,
\* a reminder run that has begun, and the database's way out of a deadlock.
Progress ==
    \/ Tick
    \/ \E p \in Requests : RequestStep(p)
    \/ PurgerStep \/ ReminderStep
    \/ \E p \in Transactions : BreakDeadlock(p)
\* What may or may not happen: a student asks, an operator starts the reminders, a
\* transaction fails.
Next ==
    \/ Progress
    \/ \E p \in Requests : (\E c \in plan.asks : Begin(p, c)) \/ RequestDies(p)
    \/ PurgeDies \/ RemindBegins \/ ReminderDies

Spec == Init /\ [][Next]_vars /\ WF_vars(Progress)

-----------------------------------------------------------------------------
TypeOK ==
    /\ clock \in 0 .. LastTick
    /\ \A r \in Rows : \A row \in {View(p)[r] : p \in Transactions} :
        row = Absent \/ row \in RowsOf(r)
    /\ \A e \in Emails : attempts[e] \subseteq tried[e]

\* Every live account can be signed in to: its user row and its credential are one
\* transaction, and only the deletion of the account retires a credential.
LiveHasCredential ==
    \A i \in Ids : Live(db, User(i)) =>
        \E r \in Rows : r[1] = "identity" /\ Live(db, r) /\ db[r].user = i

\* A user row leaves the table only after its student asked for it and the grace
\* period has passed, whatever order requests, sweeps and failed runs come in.
GraceKept ==
    [][\A i \in Ids : Exists(db, User(i)) /\ ~Exists(db', User(i)) =>
           ~db[User(i)].live /\ db[User(i)].deleted_at + Grace <= clock]_vars

\* What still works of a deleted account (ports.py promises nothing does) was written
\* by a transaction that ran beside the deletion: retire_credentials missed no other.
OnlyLateArrivals ==
    \A r \in Rows : r[1] \in {"identity", "device"} /\ Live(db, r) /\ ~Live(db, User(db[r].user))
        => r \in beside

\* While no target of a student was removed, exactly one of them is the lens,
\* also when first targets or activations race.
ExactlyOneLens ==
    \A i \in Ids :
        LET all == {r \in Rows : r[1] = "target" /\ ChildOf(r, db[r], i)} IN
        all # {} /\ all = LiveTargets(db, i) => Cardinality({r \in all : db[r].is_active}) = 1

\* An activation that is reported as done made its target the lens, unless the target
\* was removed while the request ran.
ActivationLands ==
    [][\A p \in Requests :
           cmd[p] # Absent /\ cmd[p].kind = "activate" /\ Commit(p) =>
               LET r == Target(cmd[p].target) IN Live(db', r) => db'[r].is_active]_vars

\* Between two successes, the logins one process lets through for an e-mail from one
\* client address never exceed the limit in any window.
GuessesBounded ==
    \A e \in Emails : \A t \in 0 .. clock :
        Cardinality({a \in tried[e] : t <= a.at /\ a.at < t + LoginWindow}) <= LoginMax

\* A student with an account is reminded twice on one day only when the run that sent
\* the first reminder failed before it was recorded.
RemindedOnce ==
    \A a, b \in notified.sent :
        a.user = b.user /\ a.day = b.day /\ a.run < b.run =>
            a.run \in notified.failed \/ ~Live(db, User(a.user))

\* Requests and the purge never deadlock: a wait cycle needs the reminder job, which
\* locks devices before users where the deletion locks users before devices.
DeadlocksNeedTheReminder ==
    \A S \in SUBSET {p \in Transactions \ {Reminder} : Waits(p) # {}} : ~Deadlocked(S)

\* Whoever asked to be deleted is gone in the end, and everything tied to the account
\* with it: again and again there is a moment at which nothing of them is left.
\* It takes a purge that is run again and again: the code means it to, and leaves the
\* schedule to whoever operates it.
TracesLeave ==
    []<>(\A r \in Rows : Exists(db, r) =>
            IF Child(r) THEN Live(db, User(db[r].user)) ELSE Live(db, r))
=============================================================================
