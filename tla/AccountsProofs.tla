---------------------------- MODULE AccountsProofs ----------------------------
(***************************************************************************)
(* For any requests, accounts, scenarios and bounds: the rows have their   *)
(* types, no account leaves the table before its grace period has passed,  *)
(* and every live account has a live credential.  The argument is about    *)
(* what the open transactions have written and not yet committed: no row   *)
(* is written by two of them, nothing brings a dead account back, the      *)
(* purger deletes only doomed accounts, and an identity is retired only    *)
(* beside the end of its account in the same transaction.                  *)
(***************************************************************************)
EXTENDS Accounts, FiniteSetTheorems, TLAPS

-----------------------------------------------------------------------------
(* The login limiter: whatever was let through and is still in the window  *)
(* is among the attempts the limiter remembers, so the check counts it.    *)

Tries == [by : Requests, at : Nat]

\* The logins let through for an e-mail in the window that begins at t.
LetThrough(e, t) == {a \in tried[e] : t <= a.at /\ a.at < t + LoginWindow}

LimiterTyped ==
    /\ clock \in Nat
    /\ attempts \in [Emails -> SUBSET Tries]
    /\ tried \in [Emails -> SUBSET Tries]
    /\ \A e \in Emails : IsFiniteSet(tried[e]) /\ attempts[e] \subseteq tried[e]

\* Nothing is let through in the future, and nothing of the last window is forgotten.
Remembered ==
    \A e \in Emails : \A a \in tried[e] :
        a.at <= clock /\ (clock - a.at < LoginWindow => a \in attempts[e])

Windows ==
    \A e \in Emails : \A t \in Nat : Cardinality(LetThrough(e, t)) <= LoginMax

LimiterInv == LimiterTyped /\ Remembered /\ Windows

LEMMA InitLimiter == Init => LimiterInv
<1> SUFFICES ASSUME Init PROVE LimiterInv
    OBVIOUS
<1>1. clock = 0 /\ \A e \in Emails : tried[e] = {} /\ attempts[e] = {}
    BY DEF Init
<1>2. LimiterTyped
    BY <1>1, FS_EmptySet DEF Init, LimiterTyped
<1>3. Remembered
    BY <1>1 DEF Remembered
<1>4. Windows
    <2> SUFFICES ASSUME NEW e \in Emails, NEW t \in Nat
                 PROVE  Cardinality(LetThrough(e, t)) <= LoginMax
        BY DEF Windows
    <2>1. LetThrough(e, t) = {}
        BY <1>1 DEF LetThrough
    <2> QED BY <2>1, FS_EmptySet, BoundsAssumption
<1> QED BY <1>2, <1>3, <1>4 DEF LimiterInv

\* A login that is let through: the window had room for it.
LEMMA AdmitKeeps ==
    ASSUME LimiterInv, NEW e \in Emails, NEW p \in Requests,
           NEW kept, kept = InWindow(attempts[e], clock), Cardinality(kept) < LoginMax,
           NEW try, try = [by |-> p, at |-> clock],
           attempts' = [attempts EXCEPT ![e] = kept \union {try}],
           tried' = [tried EXCEPT ![e] = tried[e] \union {try}],
           clock' = clock
    PROVE  LimiterInv'
<1> USE DEF LimiterInv, LimiterTyped
<1>1. try \in Tries /\ try.at = clock
    BY DEF Tries
<1>2. kept \subseteq tried[e] /\ kept \subseteq Tries
    BY DEF InWindow
<1>3. \A f \in Emails : f # e => tried'[f] = tried[f] /\ attempts'[f] = attempts[f]
    OBVIOUS
<1>4. tried'[e] = tried[e] \union {try} /\ attempts'[e] = kept \union {try}
    OBVIOUS
<1>5. IsFiniteSet(tried'[e])
    BY <1>4, FS_AddElement
<1>6. LimiterTyped'
    <2>1. attempts' \in [Emails -> SUBSET Tries] /\ tried' \in [Emails -> SUBSET Tries]
        BY <1>1, <1>2
    <2>2. \A f \in Emails : IsFiniteSet(tried'[f]) /\ attempts'[f] \subseteq tried'[f]
        BY <1>2, <1>3, <1>4, <1>5
    <2> QED BY <2>1, <2>2
<1>7. Remembered'
    <2> SUFFICES ASSUME NEW f \in Emails, NEW a \in tried'[f]
                 PROVE  a.at <= clock /\ (clock - a.at < LoginWindow => a \in attempts'[f])
        BY DEF Remembered
    <2>1. CASE f # e
        BY <1>3, <2>1 DEF Remembered
    <2>2. CASE f = e /\ a = try
        BY <1>1, <1>4, <2>2
    <2>3. CASE f = e /\ a # try
        <3>1. a \in tried[e]
            BY <1>4, <2>3
        <3>2. a.at <= clock /\ (clock - a.at < LoginWindow => a \in attempts[e])
            BY <3>1 DEF Remembered
        <3>3. clock - a.at < LoginWindow => a \in kept
            BY <3>2 DEF InWindow
        <3> QED BY <1>4, <2>3, <3>2, <3>3
    <2> QED BY <2>1, <2>2, <2>3
<1>8. Windows'
    <2> SUFFICES ASSUME NEW f \in Emails, NEW t \in Nat
                 PROVE  Cardinality({a \in tried'[f] : t <= a.at /\ a.at < t + LoginWindow}) <= LoginMax
        BY DEF Windows, LetThrough
    <2> DEFINE W == {a \in tried'[f] : t <= a.at /\ a.at < t + LoginWindow}
    <2>1. CASE f # e
        <3>1. W = LetThrough(f, t)
            BY <1>3, <2>1 DEF LetThrough
        <3> QED BY <3>1 DEF Windows
    <2>2. CASE f = e /\ ~(t <= clock /\ clock < t + LoginWindow)
        <3>1. W = LetThrough(e, t)
            BY <1>1, <1>4, <2>2 DEF LetThrough
        <3> QED BY <3>1 DEF Windows
    <2>3. CASE f = e /\ t <= clock /\ clock < t + LoginWindow
        <3>1. W \subseteq kept \union {try}
            <4> SUFFICES ASSUME NEW a \in tried[e], t <= a.at, a.at < t + LoginWindow
                         PROVE  a \in kept
                BY <1>4, <2>3
            <4>1. a.at \in Nat /\ LoginWindow \in Nat
                BY BoundsAssumption DEF Tries
            <4>2. a.at <= clock /\ (clock - a.at < LoginWindow => a \in attempts[e])
                BY DEF Remembered
            <4>3. clock - a.at < LoginWindow
                BY <2>3, <4>1, <4>2
            <4> QED BY <4>2, <4>3 DEF InWindow
        <3>2. IsFiniteSet(kept) /\ Cardinality(kept) \in Nat
            BY <1>2, FS_Subset, FS_CardinalityType
        <3>3. IsFiniteSet(kept \union {try}) /\ Cardinality(kept \union {try}) <= Cardinality(kept) + 1
            <4>1. /\ IsFiniteSet(kept \union {try})
                  /\ Cardinality(kept \union {try}) =
                        IF try \in kept THEN Cardinality(kept) ELSE Cardinality(kept) + 1
                BY <3>2, FS_AddElement, Zenon
            <4> QED BY <3>2, <4>1
        <3>4. Cardinality(kept \union {try}) \in Nat
            BY <3>3, FS_CardinalityType
        <3>5. Cardinality(W) <= Cardinality(kept \union {try}) /\ Cardinality(W) \in Nat
            BY <3>1, <3>3, FS_Subset, FS_CardinalityType
        <3> QED BY <3>2, <3>3, <3>4, <3>5, BoundsAssumption
    <2> QED BY <2>1, <2>2, <2>3
<1> QED BY <1>6, <1>7, <1>8

\* A window that is full forgets what has left it.
LEMMA RefuseKeeps ==
    ASSUME LimiterInv, NEW e,
           attempts' = [attempts EXCEPT ![e] = InWindow(attempts[e], clock)],
           UNCHANGED <<clock, tried>>
    PROVE  LimiterInv'
<1> USE DEF LimiterInv, LimiterTyped
<1>1. \A f \in Emails : attempts'[f] \subseteq attempts[f]
    BY DEF InWindow
<1>2. LimiterTyped'
    BY <1>1
<1>3. Remembered'
    <2> SUFFICES ASSUME NEW f \in Emails, NEW a \in tried[f]
                 PROVE  a.at <= clock /\ (clock - a.at < LoginWindow => a \in attempts'[f])
        BY DEF Remembered
    <2>1. a.at <= clock /\ (clock - a.at < LoginWindow => a \in attempts[f])
        BY DEF Remembered
    <2> QED BY <2>1 DEF InWindow
<1>4. Windows'
    BY DEF Windows, LetThrough
<1> QED BY <1>2, <1>3, <1>4

\* A success empties both.
LEMMA ResetKeeps ==
    ASSUME LimiterInv, NEW e,
           attempts' = [attempts EXCEPT ![e] = {}],
           tried' = [tried EXCEPT ![e] = {}],
           clock' = clock
    PROVE  LimiterInv'
<1> USE DEF LimiterInv, LimiterTyped
<1>1. \A f \in Emails : \/ tried'[f] = {} /\ attempts'[f] = {}
                        \/ tried'[f] = tried[f] /\ attempts'[f] = attempts[f]
    OBVIOUS
<1>2. LimiterTyped'
    BY <1>1, FS_EmptySet
<1>3. Remembered'
    BY <1>1 DEF Remembered
<1>4. Windows'
    <2> SUFFICES ASSUME NEW f \in Emails, NEW t \in Nat
                 PROVE  Cardinality({a \in tried'[f] : t <= a.at /\ a.at < t + LoginWindow}) <= LoginMax
        BY DEF Windows, LetThrough
    <2>1. CASE tried'[f] = {}
        <3>1. {a \in tried'[f] : t <= a.at /\ a.at < t + LoginWindow} = {}
            BY <2>1
        <3>2. Cardinality({a \in tried'[f] : t <= a.at /\ a.at < t + LoginWindow}) = 0
            BY <3>1, FS_EmptySet, Zenon
        <3> QED BY <3>2, BoundsAssumption
    <2>2. CASE tried'[f] = tried[f]
        BY <2>2 DEF Windows, LetThrough
    <2> QED BY <1>1, <2>1, <2>2
<1> QED BY <1>2, <1>3, <1>4

\* Time passes.
LEMMA TickKeeps ==
    ASSUME LimiterInv, clock' = clock + 1, UNCHANGED limiter
    PROVE  LimiterInv'
<1> USE DEF LimiterInv, LimiterTyped, limiter
<1>1. LimiterTyped'
    OBVIOUS
<1>2. Remembered'
    <2> SUFFICES ASSUME NEW f \in Emails, NEW a \in tried'[f]
                 PROVE  a.at <= clock' /\ (clock' - a.at < LoginWindow => a \in attempts'[f])
        BY DEF Remembered
    <2>1. a \in tried[f] /\ attempts' = attempts
        OBVIOUS
    <2>2. a.at \in Nat /\ LoginWindow \in Nat /\ clock \in Nat
        BY <2>1, BoundsAssumption DEF Tries
    <2>3. a.at <= clock /\ (clock - a.at < LoginWindow => a \in attempts[f])
        BY <2>1 DEF Remembered
    <2>4. clock' - a.at < LoginWindow => clock - a.at < LoginWindow
        BY <2>2
    <2> QED BY <2>1, <2>2, <2>3, <2>4
<1>3. Windows'
    BY DEF Windows, LetThrough
<1> QED BY <1>1, <1>2, <1>3

LEMMA StillKeeps == LimiterInv /\ UNCHANGED <<clock, limiter>> => LimiterInv'
BY DEF LimiterInv, LimiterTyped, Remembered, Windows, LetThrough, limiter

-----------------------------------------------------------------------------
(* The steps: three touch the limiter or the clock, the others nothing of it. *)

LEMMA CheckKeeps == \A p \in Requests : LimiterInv /\ CheckLimit(p) => LimiterInv'
<1> SUFFICES ASSUME NEW p \in Requests, LimiterInv, CheckLimit(p) PROVE LimiterInv'
    OBVIOUS
<1> DEFINE e == cmd[p].email
           kept == InWindow(attempts[e], clock)
           try == [by |-> p, at |-> clock]
<1>0. clock' = clock
    BY DEF CheckLimit
<1>1. CASE e \notin Emails
    <2>1. attempts' = attempts /\ tried' = tried
        BY <1>1 DEF CheckLimit, LimiterInv, LimiterTyped
    <2> QED BY <1>0, <2>1, StillKeeps DEF limiter
<1>2. CASE Cardinality(kept) >= LoginMax /\ attempts' = [attempts EXCEPT ![e] = kept] /\ tried' = tried
    <2> HIDE DEF e
    <2> QED BY <1>0, <1>2, RefuseKeeps
<1>3. CASE /\ e \in Emails /\ Cardinality(kept) < LoginMax
           /\ attempts' = [attempts EXCEPT ![e] = kept \union {try}]
           /\ tried' = [tried EXCEPT ![e] = tried[e] \union {try}]
    <2> HIDE DEF e, kept, try
    <2>1. kept = InWindow(attempts[e], clock) /\ try = [by |-> p, at |-> clock]
        BY DEF kept, try
    <2> QED BY <1>0, <1>3, <2>1, AdmitKeeps
<1> QED BY <1>1, <1>2, <1>3 DEF CheckLimit

LEMMA StepLimiter == LimiterInv /\ [Next]_vars => LimiterInv'
<1> SUFFICES ASSUME LimiterInv, [Next]_vars PROVE LimiterInv'
    OBVIOUS
<1> USE StillKeeps
<1>1. CASE UNCHANGED vars
    BY <1>1 DEF vars, limiter
<1>2. CASE Tick
    <2>1. clock' = clock + 1 /\ UNCHANGED limiter
        BY <1>2 DEF Tick, limiter
    <2> QED BY <2>1, TickKeeps
<1>3. ASSUME NEW p \in Requests, RequestStep(p) PROVE LimiterInv'
    <2>1. CASE CheckLimit(p)
        BY <2>1, CheckKeeps
    <2>2. CASE ResetLimit(p)
        BY <2>2, ResetKeeps DEF ResetLimit
    <2>3. CASE ~CheckLimit(p) /\ ~ResetLimit(p)
        <3>1. UNCHANGED <<clock, limiter>>
            BY <1>3, <2>3 DEF RequestStep, FindSubject, FindEmail, InsertUser, InsertIdentity, Rename,
                   Delete, DeleteAgain, RetireCredentials, Register, Unregister, TargetExists, IsFirst,
                   Add, GetTarget, Remove, FindActive, Clear, Set, LoginEmail, Verify, Commit, Statement,
                   world, limiter
        <3> QED BY <3>1
    <2> QED BY <2>1, <2>2, <2>3
<1>4. CASE PurgerStep \/ PurgeDies
    BY <1>4 DEF PurgerStep, PurgeDies, DueForPurge, PurgeNext, Commit, world, limiter
<1>5. CASE ReminderStep \/ RemindBegins \/ ReminderDies
    BY <1>5 DEF ReminderStep, RemindBegins, ReminderDies, RunFails, AtRisk, GetTokens, SendSome, Send,
           UnregisterDead, MarkSent, Statement, Commit, world, limiter
<1>6. ASSUME NEW p \in Transactions, BreakDeadlock(p) PROVE LimiterInv'
    BY <1>6 DEF BreakDeadlock, RunFails, world, limiter
<1>7. ASSUME NEW p \in Requests, (\E c \in plan.asks : Begin(p, c)) \/ RequestDies(p) PROVE LimiterInv'
    BY <1>7 DEF Begin, RequestDies, world, limiter
<1> QED BY <1>1, <1>2, <1>3, <1>4, <1>5, <1>6, <1>7 DEF Next, Progress

\* Between two successes, one process lets no more logins for an e-mail from one client
\* address through in any window than login_rate_limit_attempts.
THEOREM GuessesBoundedHolds == Spec => []GuessesBounded
<1>1. LimiterInv => GuessesBounded
    <2> SUFFICES ASSUME LimiterInv, NEW e \in Emails, NEW t \in 0 .. clock
                 PROVE  Cardinality(LetThrough(e, t)) <= LoginMax
        BY DEF GuessesBounded, LetThrough
    <2> QED BY DEF LimiterInv, LimiterTyped, Windows
<1> QED BY <1>1, InitLimiter, StepLimiter, PTL DEF Spec

-----------------------------------------------------------------------------
(* Rows and transactions.                                                  *)

Writers == Transactions \ {Purger}
Dead(row) == row # Absent /\ ~row.live
\* A dead account stays dead, and so does the day it was deleted.
StillDead(new, old) == Dead(old) => ~new.live /\ new.deleted_at = old.deleted_at

Shaped ==
    /\ plan \in Scenarios /\ clock \in 0 .. LastTick
    /\ DOMAIN db = Rows
    /\ DOMAIN pending = Transactions /\ DOMAIN pc = Transactions /\ DOMAIN memo = Transactions
    /\ DOMAIN cmd = Requests /\ DOMAIN begun = Requests

RowsTyped == \A r \in Rows : db[r] = Absent \/ db[r] \in RowsOf(r)

WritesTyped ==
    \A p \in Transactions : \A r \in DOMAIN pending[p] :
        r \in Rows /\ IF p = Purger THEN pending[p][r] = Absent ELSE pending[p][r] \in RowsOf(r)

\* A row is written by one open transaction at most.
Exclusive ==
    \A p, q \in Transactions : p # q => DOMAIN pending[p] \intersect DOMAIN pending[q] = {}

\* A user or an identity that is written is there already, or is the request's own.
OwnRows ==
    \A p \in Transactions : \A i \in Ids : \A r \in {User(i), Identity(i)} :
        r \in DOMAIN pending[p] => Exists(db, r) \/ (p \in Requests /\ i = p)

UserWrites ==
    \A p \in Writers : \A i \in Ids :
        User(i) \in DOMAIN pending[p] => StillDead(pending[p][User(i)], db[User(i)])

Leaves(p, u) == User(u) \in DOMAIN pending[p] /\ ~pending[p][User(u)].live
IdentityWrites ==
    \A p \in Writers : \A i, u \in Ids :
        Identity(i) \in DOMAIN pending[p] /\ Exists(db, Identity(i)) /\ db[Identity(i)].user = u =>
            /\ pending[p][Identity(i)].user = u
            /\ pending[p][Identity(i)].live \/ Leaves(p, u)

Doomed(i) == Dead(db[User(i)]) /\ db[User(i)].deleted_at + Grace <= clock
PurgeWrites ==
    \A i \in Ids :
        /\ User(i) \in DOMAIN pending[Purger] => Doomed(i)
        /\ Identity(i) \in DOMAIN pending[Purger] =>
               Exists(db, Identity(i)) /\ Doomed(db[Identity(i)].user)

Data ==
    /\ RowsTyped /\ WritesTyped /\ Exclusive /\ OwnRows
    /\ UserWrites /\ IdentityWrites /\ PurgeWrites /\ LiveHasCredential

StepsOf(kind) ==
    CASE kind = "register" -> {"find_email", "create_user", "add_identity", "commit"}
      [] kind = "google" -> {"find_subject", "find_email", "create_user", "add_identity", "commit"}
      [] kind = "login" -> {"check_limit", "login_email", "verify", "reset"}
      [] kind = "rename" -> {"rename", "commit"}
      [] kind = "delete" -> {"soft_delete", "retire_identities", "retire_devices", "commit"}
      [] kind = "register_device" -> {"register_device", "commit"}
      [] kind = "unregister_device" -> {"unregister_device", "commit"}
      [] kind = "add" -> {"exists", "list", "add_target", "commit"}
      [] kind = "remove" -> {"get", "remove_target", "commit"}
      [] kind = "activate" -> {"get", "find_active", "clear_active", "set_active", "commit"}

\* A request runs the statements of its command.
OnPath(p) == pc[p] \notin {"idle", "done"} => cmd[p] \in Asks /\ pc[p] \in StepsOf(cmd[p].kind)
\* The rows a request creates are not there before it is done.
Fresh(p) == pc[p] # "done" => ~Exists(db, User(p)) /\ ~Exists(db, Identity(p))
\* An account is created with its credential.
NewAccount(p) ==
    User(p) \in DOMAIN pending[p] =>
        \/ pc[p] = "add_identity" /\ memo[p] = p
        \/ /\ pc[p] = "commit" /\ Identity(p) \in DOMAIN pending[p]
           /\ pending[p][Identity(p)].live /\ pending[p][Identity(p)].user = p
Remembers(p) ==
    /\ begun[p] \in 0 .. LastTick
    /\ pc[p] = "create_user" => memo[p] = p
    /\ pc[p] = "add_identity" => memo[p] \in Ids
    /\ pc[p] = "add_target" => memo[p] \in BOOLEAN
    /\ pc[p] = "retire_identities" => Leaves(p, cmd[p].user)
Request(p) == OnPath(p) /\ Fresh(p) /\ NewAccount(p) /\ Remembers(p)

\* The accounts the purger has chosen are doomed.
PurgerInv == pc[Purger] = "purge" => \A i \in memo[Purger] : i \in Ids /\ Doomed(i)
RunMemo(m) ==
    \E today \in 0 .. LastTick : \E risk \in SUBSET Ids : \E left, dead :
        m = [today |-> today, risk |-> risk, left |-> left, dead |-> dead]
ReminderInv == pc[Reminder] # "idle" => RunMemo(memo[Reminder])

Inv == Shaped /\ Data /\ (\A p \in Requests : Request(p)) /\ PurgerInv /\ ReminderInv

-----------------------------------------------------------------------------
(* Rows, overlays, and what a transaction that ends leaves behind. *)

LEMMA Kinds ==
    \A i \in Ids :
        /\ User(i) \in Rows /\ RowsOf(User(i)) = Users
        /\ Identity(i) \in Rows /\ RowsOf(Identity(i)) = Identities
        /\ Device(i) \in Rows /\ RowsOf(Device(i)) = Devices
        /\ Target(i) \in Rows /\ RowsOf(Target(i)) = Targets
BY DEF Rows, RowsOf, User, Identity, Device, Target

LEMMA Named == \A r \in Rows :
    /\ r[2] \in Ids
    /\ \/ r[1] = "user" /\ r = User(r[2])
       \/ r[1] = "identity" /\ r = Identity(r[2])
       \/ r[1] = "device" /\ r = Device(r[2])
       \/ r[1] = "target" /\ r = Target(r[2])
BY DEF Rows, User, Identity, Device, Target

LEMMA RowsAreThere == \A r \in Rows : Absent \notin RowsOf(r)
BY ScenariosAssumption, Named DEF RowsOf

LEMMA EmptyOverlay == DOMAIN Nothing = {}
BY DEF Nothing

LEMMA Overlay ==
    ASSUME NEW t, NEW w
    PROVE  /\ DOMAIN Over(w, t) = DOMAIN t \union DOMAIN w
           /\ \A r \in DOMAIN w : Over(w, t)[r] = w[r]
           /\ \A r \in DOMAIN t : r \notin DOMAIN w => Over(w, t)[r] = t[r]
BY DEF Over

LEMMA Written ==
    ASSUME NEW p, NEW w, pending'[p] = Over(w, pending[p])
    PROVE  /\ DOMAIN pending'[p] = DOMAIN pending[p] \union DOMAIN w
           /\ \A r \in DOMAIN w : pending'[p][r] = w[r]
           /\ \A r \in DOMAIN pending[p] : r \notin DOMAIN w => pending'[p][r] = pending[p][r]
<1>1. /\ DOMAIN Over(w, pending[p]) = DOMAIN pending[p] \union DOMAIN w
      /\ \A r \in DOMAIN w : Over(w, pending[p])[r] = w[r]
      /\ \A r \in DOMAIN pending[p] : r \notin DOMAIN w => Over(w, pending[p])[r] = pending[p][r]
    BY Overlay, Zenon
<1> QED BY <1>1

LEMMA Views ==
    ASSUME Shaped, Data, NEW p \in Transactions
    PROVE  /\ DOMAIN View(p) = Rows
           /\ \A r \in Rows : View(p)[r] = IF r \in DOMAIN pending[p] THEN pending[p][r] ELSE db[r]
           /\ p # Purger => \A r \in Rows : View(p)[r] = Absent \/ View(p)[r] \in RowsOf(r)
<1>1. DOMAIN db = Rows /\ DOMAIN pending[p] \subseteq Rows
    BY DEF Shaped, Data, WritesTyped
<1>0. /\ DOMAIN View(p) = DOMAIN db \union DOMAIN pending[p]
      /\ \A r \in DOMAIN pending[p] : View(p)[r] = pending[p][r]
      /\ \A r \in DOMAIN db : r \notin DOMAIN pending[p] => View(p)[r] = db[r]
    BY Overlay, Zenon DEF View
<1>2. DOMAIN View(p) = Rows
    BY <1>0, <1>1
<1>3. ASSUME NEW r \in Rows
      PROVE  View(p)[r] = IF r \in DOMAIN pending[p] THEN pending[p][r] ELSE db[r]
    BY <1>0, <1>1
<1> QED BY <1>2, <1>3 DEF Data, WritesTyped, RowsTyped

\* What another transaction does leaves q as it is.
Untouched(q) ==
    /\ pc'[q] = pc[q] /\ memo'[q] = memo[q] /\ pending'[q] = pending[q]
    /\ q \in Requests => cmd'[q] = cmd[q] /\ begun'[q] = begun[q]
Domains ==
    /\ DOMAIN pending = Transactions /\ DOMAIN pc = Transactions /\ DOMAIN memo = Transactions
    /\ DOMAIN cmd = Requests /\ DOMAIN begun = Requests

LEMMA EndsFrame ==
    ASSUME Shaped, NEW p \in Transactions, Ends(p)
    PROVE  /\ Domains'
           /\ pending'[p] = Nothing
           /\ p \in Requests => pc'[p] = "done" /\ begun'[p] = 0
           /\ p \notin Requests => pc'[p] = "idle"
           /\ \A q \in Transactions \ {p} : Untouched(q)
BY DEF Shaped, Ends, Domains, Untouched, Transactions

\* Time passes and overlays are dropped: the committed rows stay as they are.
LEMMA DataKeeps ==
    ASSUME Shaped, Data, UNCHANGED <<plan, db>>, clock' \in 0 .. LastTick, clock <= clock',
           \A p \in Transactions : pending'[p] = pending[p] \/ pending'[p] = Nothing
    PROVE  Data'
<1> USE EmptyOverlay DEF Data, Shaped
<1>0. Purger \in Transactions
    BY DEF Transactions, Jobs
<1>d. \A i \in Ids : Doomed(i) => Doomed(i)'
    <2> SUFFICES ASSUME NEW i \in Ids, Doomed(i) PROVE Doomed(i)'
        OBVIOUS
    <2>1. db[User(i)] \in Users
        BY Kinds DEF Doomed, Dead, RowsTyped
    <2>2. db[User(i)].deleted_at \in Int /\ Grace \in Int /\ clock \in Int
        BY <2>1, BoundsAssumption DEF Users
    <2> QED BY <2>2 DEF Doomed, Dead
<1>1. RowsTyped'
    BY DEF RowsTyped
<1>2. WritesTyped'
    BY DEF WritesTyped
<1>3. Exclusive'
    BY DEF Exclusive
<1>4. OwnRows'
    BY DEF OwnRows, Exists
<1>5. UserWrites'
    BY DEF UserWrites, Writers
<1>6. IdentityWrites'
    BY DEF IdentityWrites, Writers, Leaves, Exists
<1>7. PurgeWrites'
    <2> SUFFICES ASSUME NEW i \in Ids
                 PROVE  /\ User(i) \in DOMAIN pending'[Purger] => Doomed(i)'
                        /\ Identity(i) \in DOMAIN pending'[Purger] =>
                               Exists(db', Identity(i)) /\ Doomed(db[Identity(i)].user)'
        BY DEF PurgeWrites
    <2>1. User(i) \in DOMAIN pending'[Purger] => User(i) \in DOMAIN pending[Purger]
        BY <1>0
    <2>2. Identity(i) \in DOMAIN pending'[Purger] => Identity(i) \in DOMAIN pending[Purger]
        BY <1>0
    <2>3. Exists(db, Identity(i)) => db[Identity(i)].user \in Ids
        <3>1. Exists(db, Identity(i)) => db[Identity(i)] \in Identities
            BY Kinds DEF Exists, RowsTyped
        <3> QED BY <3>1 DEF Identities
    <2> QED BY <1>d, <2>1, <2>2, <2>3 DEF PurgeWrites, Exists
<1>8. LiveHasCredential'
    BY DEF LiveHasCredential, Live
<1> QED BY <1>1, <1>2, <1>3, <1>4, <1>5, <1>6, <1>7, <1>8

\* A request that nothing happened to.
LEMMA RequestStays ==
    ASSUME NEW q \in Requests, Request(q), Untouched(q),
           Exists(db', User(q)) => Exists(db, User(q)),
           Exists(db', Identity(q)) => Exists(db, Identity(q))
    PROVE  Request(q)'
BY DEF Request, Untouched, OnPath, Fresh, NewAccount, Remembers, Leaves

LEMMA RequestOver ==
    ASSUME NEW q \in Requests, pending'[q] = Nothing, pc'[q] = "done", begun'[q] = 0
    PROVE  Request(q)'
BY EmptyOverlay, BoundsAssumption DEF Request, OnPath, Fresh, NewAccount, Remembers

LEMMA EndsKeeps ==
    ASSUME Inv, NEW p \in Transactions, Ends(p), UNCHANGED <<plan, clock, db>>
    PROVE  Inv'
<1> USE DEF Inv
<1>1. Domains' /\ pending'[p] = Nothing /\ \A q \in Transactions \ {p} : Untouched(q)
    BY EndsFrame
<1>2. Shaped'
    BY <1>1 DEF Shaped, Domains
<1>3. Data'
    <2>1. clock' \in 0 .. LastTick /\ clock <= clock'
        BY DEF Shaped
    <2> QED BY <1>1, <2>1, DataKeeps DEF Untouched
<1>4. ASSUME NEW q \in Requests PROVE Request(q)'
    <2>1. CASE q = p
        BY <2>1, EndsFrame, RequestOver
    <2>2. CASE q # p
        BY <1>1, <2>2, RequestStays DEF Transactions, Exists
    <2> QED BY <2>1, <2>2
<1>5. PurgerInv'
    <2>1. Purger \in Transactions /\ Purger \notin Requests
        BY BoundsAssumption DEF Transactions, Jobs
    <2> QED BY <1>1, <2>1, EndsFrame DEF PurgerInv, Untouched, Doomed
<1>6. ReminderInv'
    <2>1. Reminder \in Transactions /\ Reminder \notin Requests
        BY BoundsAssumption DEF Transactions, Jobs
    <2>2. CASE p = Reminder
        <3>1. pc'[Reminder] = "idle"
            BY <2>1, <2>2, EndsFrame
        <3> QED BY <3>1 DEF ReminderInv
    <2>3. CASE p # Reminder
        BY <1>1, <2>1, <2>3 DEF ReminderInv, Untouched
    <2> QED BY <2>2, <2>3
<1> QED BY <1>2, <1>3, <1>4, <1>5, <1>6

-----------------------------------------------------------------------------
(* A statement: what it may write, and why that keeps the rows in order. *)

WriteOK(p, w) ==
    /\ \A r \in DOMAIN w : r \in Rows /\ w[r] \in RowsOf(r)
    /\ \A i \in Ids : \A r \in {User(i), Identity(i)} :
           r \in DOMAIN w => Exists(View(p), r) \/ (p \in Requests /\ i = p)
    /\ \A i \in Ids : User(i) \in DOMAIN w => StillDead(w[User(i)], View(p)[User(i)])
    /\ \A i, u \in Ids :
           Identity(i) \in DOMAIN w /\ Exists(db, Identity(i)) /\ View(p)[Identity(i)].user = u =>
               w[Identity(i)].user = u /\ (w[Identity(i)].live \/ Leaves(p, u))

LEMMA BlockedOnSameRow ==
    ASSUME NEW p, NEW w, Blockers(p, w) = {}
    PROVE  \A q \in Transactions \ {p} : DOMAIN w \intersect DOMAIN pending[q] = {}
BY DEF Blockers

LEMMA StatementData ==
    ASSUME Shaped, Data, NEW p \in Writers, NEW w, WriteOK(p, w), Blockers(p, w) = {},
           pending'[p] = Over(w, pending[p]),
           \A q \in Transactions \ {p} : pending'[q] = pending[q],
           UNCHANGED <<plan, clock, db>>
    PROVE  Data'
<1> USE DEF Data, Shaped
<1>p. p \in Transactions /\ p # Purger /\ Purger \in Transactions
    BY DEF Writers, Transactions, Jobs
<1>w. /\ DOMAIN pending'[p] = DOMAIN pending[p] \union DOMAIN w
      /\ \A r \in DOMAIN w : pending'[p][r] = w[r]
      /\ \A r \in DOMAIN pending[p] : r \notin DOMAIN w => pending'[p][r] = pending[p][r]
    BY Written
<1>v. \A r \in Rows : View(p)[r] = IF r \in DOMAIN pending[p] THEN pending[p][r] ELSE db[r]
    BY <1>p, Views
<1>1. RowsTyped'
    BY DEF RowsTyped
<1>2. WritesTyped'
    BY <1>p, <1>w DEF WritesTyped, WriteOK
<1>3. Exclusive'
    BY <1>p, <1>w, BlockedOnSameRow DEF Exclusive
<1>4. OwnRows'
    <2> SUFFICES ASSUME NEW q \in Transactions, NEW i \in Ids, NEW r \in {User(i), Identity(i)},
                        r \in DOMAIN pending'[q]
                 PROVE  Exists(db, r) \/ (q \in Requests /\ i = q)
        BY DEF OwnRows, Exists
    <2>1. CASE r \in DOMAIN pending[q]
        BY <2>1 DEF OwnRows
    <2>2. CASE r \notin DOMAIN pending[q]
        <3>1. q = p /\ r \in DOMAIN w
            BY <1>w, <2>2
        <3>2. Exists(View(p), r) \/ (p \in Requests /\ i = p)
            BY <3>1 DEF WriteOK
        <3>3. View(p)[r] = db[r]
            BY <1>v, <2>2, <3>1, Kinds
        <3> QED BY <3>1, <3>2, <3>3 DEF Exists
    <2> QED BY <2>1, <2>2
\* A dead row is dead in every view of it.
<1>s. \A i \in Ids : StillDead(View(p)[User(i)], db[User(i)])
    BY <1>v, Kinds DEF UserWrites, StillDead, Dead
<1>a. \A i \in Ids : User(i) \in DOMAIN pending[p] => pending[p][User(i)] # Absent
    BY <1>p, RowsAreThere, Kinds DEF WritesTyped
<1>5. UserWrites'
    <2> SUFFICES ASSUME NEW q \in Writers, NEW i \in Ids, User(i) \in DOMAIN pending'[q]
                 PROVE  StillDead(pending'[q][User(i)], db[User(i)])
        BY DEF UserWrites, StillDead, Dead
    <2>1. CASE q # p \/ User(i) \notin DOMAIN w
        BY <1>w, <2>1 DEF UserWrites, Writers
    <2>2. CASE q = p /\ User(i) \in DOMAIN w
        <3>1. StillDead(w[User(i)], View(p)[User(i)])
            BY <2>2 DEF WriteOK
        <3>2. Dead(db[User(i)]) => View(p)[User(i)] # Absent
            BY <1>v, <1>a, Kinds DEF Dead
        <3> QED BY <1>w, <1>s, <2>2, <3>1, <3>2 DEF StillDead, Dead
    <2> QED BY <2>1, <2>2
<1>l. \A u \in Ids : Leaves(p, u) => Leaves(p, u)'
    <2> SUFFICES ASSUME NEW u \in Ids, Leaves(p, u) PROVE Leaves(p, u)'
        OBVIOUS
    <2>1. CASE User(u) \notin DOMAIN w
        BY <1>w, <2>1 DEF Leaves
    <2>2. CASE User(u) \in DOMAIN w
        <3>1. Dead(View(p)[User(u)])
            BY <1>v, <1>a, Kinds DEF Leaves, Dead
        <3> QED BY <1>w, <2>2, <3>1 DEF WriteOK, StillDead, Leaves
    <2> QED BY <2>1, <2>2
<1>6. IdentityWrites'
    <2> SUFFICES ASSUME NEW q \in Writers, NEW i \in Ids, NEW u \in Ids,
                        Identity(i) \in DOMAIN pending'[q], db[Identity(i)] # Absent,
                        db[Identity(i)].user = u
                 PROVE  pending'[q][Identity(i)].user = u /\ (pending'[q][Identity(i)].live \/ Leaves(q, u)')
        BY DEF IdentityWrites, Exists
    <2>1. CASE q # p
        <3>1. pending'[q] = pending[q]
            BY <2>1 DEF Writers
        <3>2. pending[q][Identity(i)].user = u /\ (pending[q][Identity(i)].live \/ Leaves(q, u))
            BY <3>1 DEF IdentityWrites, Exists
        <3> QED BY <3>1, <3>2 DEF Leaves
    <2>2. CASE q = p /\ Identity(i) \notin DOMAIN w
        <3>1. /\ pending'[p][Identity(i)] = pending[p][Identity(i)]
              /\ Identity(i) \in DOMAIN pending[p]
            BY <1>w, <2>2
        <3>2. pending[p][Identity(i)].user = u /\ (pending[p][Identity(i)].live \/ Leaves(p, u))
            BY <3>1 DEF IdentityWrites, Exists
        <3> QED BY <1>l, <2>2, <3>1, <3>2
    <2>3. CASE q = p /\ Identity(i) \in DOMAIN w
        <3>1. pending'[p][Identity(i)] = w[Identity(i)]
            BY <1>w, <2>3
        <3>2. View(p)[Identity(i)] # Absent /\ View(p)[Identity(i)].user = u
            <4>1. CASE Identity(i) \in DOMAIN pending[p]
                <5>1. pending[p][Identity(i)] # Absent
                    BY <1>p, <4>1, RowsAreThere, Kinds DEF WritesTyped
                <5>2. pending[p][Identity(i)].user = u
                    BY <4>1 DEF IdentityWrites, Exists
                <5> QED BY <1>v, <4>1, <5>1, <5>2, Kinds
            <4>2. CASE Identity(i) \notin DOMAIN pending[p]
                BY <1>v, <4>2, Kinds
            <4> QED BY <4>1, <4>2
        <3>3. w[Identity(i)].user = u /\ (w[Identity(i)].live \/ Leaves(p, u))
            BY <2>3, <3>2 DEF WriteOK, Exists
        <3> QED BY <1>l, <2>3, <3>1, <3>3
    <2> QED BY <2>1, <2>2, <2>3
<1>7. PurgeWrites'
    BY <1>p DEF PurgeWrites, Doomed, Dead, Exists
<1>8. LiveHasCredential'
    BY DEF LiveHasCredential, Live
<1> QED BY <1>1, <1>2, <1>3, <1>4, <1>5, <1>6, <1>7, <1>8

-----------------------------------------------------------------------------
(* The requests: a step that only reads, a statement, and what each statement writes. *)

LEMMA Paths ==
    ASSUME NEW c \in Asks, NEW s \in StepsOf(c.kind)
    PROVE  /\ s \in {"find_email", "create_user", "add_identity"} =>
                  /\ c.kind \in {"register", "google"} /\ c.email \in Emails
                  /\ c.kind = "google" => c.subject \in Subjects
           /\ s \in {"soft_delete", "retire_identities", "retire_devices", "rename"} =>
                  c.user \in Ids /\ c.kind \in {"delete", "rename"}
           /\ s \in {"register_device", "unregister_device"} => c.user \in Ids /\ c.token \in Tokens
           /\ s = "add_target" => c.user \in Ids /\ c.exam \in Exams
           /\ s \in {"remove_target", "set_active", "clear_active", "find_active"} => c.target \in Ids
BY DEF Asks, StepsOf

LEMMA JobsApart ==
    /\ Purger \in Transactions /\ Purger \notin Requests /\ Purger # Reminder
    /\ Reminder \in Transactions /\ Reminder \notin Requests
BY BoundsAssumption DEF Transactions, Jobs

LEMMA ReadKeeps ==
    ASSUME Inv, NEW p \in Requests, NEW next, UNCHANGED <<plan, clock, db>>,
           Continues(p, next), DOMAIN memo' = DOMAIN memo, \A q \in Transactions \ {p} : memo'[q] = memo[q],
           pc[p] \notin {"idle", "done", "add_identity", "commit"},
           next \in StepsOf(cmd[p].kind), next \notin {"retire_identities", "commit", "idle", "done"},
           next = "create_user" => memo'[p] = p,
           next = "add_identity" => memo'[p] \in Ids,
           next = "add_target" => memo'[p] \in BOOLEAN
    PROVE  Inv'
<1> USE DEF Inv
<1>p. p \in Transactions /\ p # Purger /\ p # Reminder
    BY JobsApart DEF Transactions
<1>1. /\ pc'[p] = next /\ DOMAIN pc' = DOMAIN pc /\ pending' = pending /\ cmd' = cmd /\ begun' = begun
      /\ \A q \in Transactions \ {p} : Untouched(q)
    BY <1>p DEF Continues, Goto, request, Untouched, Shaped
<1>2. Shaped'
    BY <1>1 DEF Shaped
<1>3. Data'
    <2>1. clock' \in 0 .. LastTick /\ clock <= clock'
        BY DEF Shaped
    <2> QED BY <1>1, <2>1, DataKeeps
<1>4. ASSUME NEW q \in Requests PROVE Request(q)'
    <2>1. CASE q = p
        <3>1. Request(p)
            OBVIOUS
        <3>2. OnPath(p)'
            BY <1>1, <3>1 DEF Request, OnPath
        <3>3. Fresh(p)'
            BY <3>1 DEF Request, Fresh, Exists
        <3>4. NewAccount(p)'
            BY <1>1, <3>1 DEF Request, NewAccount
        <3>5. Remembers(p)'
            BY <1>1, <3>1 DEF Request, Remembers
        <3> QED BY <2>1, <3>2, <3>3, <3>4, <3>5 DEF Request
    <2>2. CASE q # p
        BY <1>1, <2>2, RequestStays DEF Transactions, Exists
    <2> QED BY <2>1, <2>2
<1>5. PurgerInv'
    <2>1. pc'[Purger] = pc[Purger] /\ memo'[Purger] = memo[Purger] /\ clock' = clock /\ db' = db
        BY <1>1, <1>p, JobsApart DEF Untouched
    <2> QED BY <2>1 DEF PurgerInv, Doomed
<1>6. ReminderInv'
    <2>1. pc'[Reminder] = pc[Reminder] /\ memo'[Reminder] = memo[Reminder]
        BY <1>1, <1>p, JobsApart DEF Untouched
    <2> QED BY <2>1 DEF ReminderInv
<1> QED BY <1>2, <1>3, <1>4, <1>5, <1>6

\* What a statement of a request has to leave for the next one.
StepOK(p, next, w) ==
    /\ next \in StepsOf(cmd[p].kind) /\ next \notin {"idle", "done", "create_user", "add_target"}
    /\ User(p) \in DOMAIN pending[p] \union DOMAIN w =>
           \/ next = "add_identity" /\ memo[p] = p
           \/ /\ next = "commit" /\ Identity(p) \in DOMAIN w
              /\ w[Identity(p)].live /\ w[Identity(p)].user = p
    /\ next = "add_identity" => memo[p] \in Ids
    /\ next = "retire_identities" => User(cmd[p].user) \in DOMAIN w /\ ~w[User(cmd[p].user)].live

LEMMA StatementKeeps ==
    ASSUME Inv, NEW p \in Requests, NEW next, Statement(p, next),
           pc[p] \notin {"idle", "done"}, WriteOK(p, WritesOf(p)), StepOK(p, next, WritesOf(p))
    PROVE  Inv'
<1> USE DEF Inv
<1> DEFINE w == WritesOf(p)
<1>p. p \in Transactions /\ p # Purger /\ p # Reminder /\ p \in Writers
    BY JobsApart DEF Transactions, Writers
<1>0. UNCHANGED <<plan, clock, db>> /\ Blockers(p, w) = {}
    BY DEF Statement, world
<1>1. CASE Ends(p)
    BY <1>0, <1>1, <1>p, EndsKeeps
<1>2. CASE /\ pending' = [pending EXCEPT ![p] = Over(w, pending[p])]
           /\ Goto(p, next) /\ UNCHANGED <<memo, request>>
    <2> HIDE DEF w
    <2>1. /\ pc'[p] = next /\ DOMAIN pc' = DOMAIN pc /\ memo' = memo /\ cmd' = cmd /\ begun' = begun
          /\ pending'[p] = Over(w, pending[p]) /\ DOMAIN pending' = DOMAIN pending
          /\ \A q \in Transactions \ {p} : Untouched(q)
        BY <1>2, <1>p DEF Goto, request, Untouched, Shaped
    <2>2. Shaped'
        BY <1>0, <2>1 DEF Shaped
    <2>3. Data'
        <3>1. WriteOK(p, w)
            BY DEF w
        <3>2. \A q \in Transactions \ {p} : pending'[q] = pending[q]
            BY <2>1 DEF Untouched
        <3> QED BY <1>0, <1>p, <2>1, <3>1, <3>2, StatementData
    <2>w. /\ DOMAIN pending'[p] = DOMAIN pending[p] \union DOMAIN w
          /\ \A r \in DOMAIN w : pending'[p][r] = w[r]
        <3>1. pending'[p] = Over(w, pending[p])
            BY <2>1
        <3> QED BY <3>1, Written
    <2>4. ASSUME NEW q \in Requests PROVE Request(q)'
        <3>1. CASE q = p
            <4>1. Request(p) /\ StepOK(p, next, w)
                BY DEF w
            <4>2. OnPath(p)'
                BY <2>1, <4>1 DEF Request, OnPath, StepOK
            <4>3. Fresh(p)'
                BY <1>0, <4>1 DEF Request, Fresh, Exists
            <4>4. NewAccount(p)'
                BY <2>1, <2>w, <4>1 DEF StepOK, NewAccount
            <4>5. Remembers(p)'
                BY <2>1, <2>w, <4>1 DEF Request, StepOK, Remembers, Leaves
            <4> QED BY <3>1, <4>2, <4>3, <4>4, <4>5 DEF Request
        <3>2. CASE q # p
            BY <1>0, <2>1, <3>2, RequestStays DEF Transactions, Exists
        <3> QED BY <3>1, <3>2
    <2>5. PurgerInv'
        BY <1>0, <2>1, <1>p, JobsApart DEF PurgerInv, Untouched, Doomed
    <2>6. ReminderInv'
        BY <2>1, <1>p, JobsApart DEF ReminderInv, Untouched
    <2> QED BY <2>2, <2>3, <2>4, <2>5, <2>6
<1> QED BY <1>1, <1>2 DEF Statement

LEMMA NoAccountYet ==
    ASSUME Inv, NEW p \in Requests, pc[p] \notin {"done", "add_identity", "commit"}
    PROVE  User(p) \notin DOMAIN pending[p] /\ View(p)[User(p)] = Absent
<1>1. Request(p) /\ p \in Transactions /\ p \in Ids
    BY DEF Inv, Transactions, Ids
<1>2. User(p) \notin DOMAIN pending[p] /\ db[User(p)] = Absent
    BY <1>1 DEF Request, NewAccount, Fresh, Exists
<1> QED BY <1>1, <1>2, Views, Kinds DEF Inv

\* Statements that write neither accounts nor identities.
LEMMA OtherRows ==
    ASSUME Inv, NEW p \in Transactions, NEW w,
           \A r \in DOMAIN w : r \in Rows /\ r[1] \in {"device", "target"} /\ w[r] \in RowsOf(r)
    PROVE  /\ WriteOK(p, w)
           /\ \A i \in Ids : User(i) \notin DOMAIN w /\ Identity(i) \notin DOMAIN w
<1>1. \A i \in Ids : User(i)[1] = "user" /\ Identity(i)[1] = "identity"
    BY DEF User, Identity
<1> QED BY <1>1 DEF WriteOK

LEMMA PutIs == \A r, row : DOMAIN Put(r, row) = {r} /\ Put(r, row)[r] = row
BY DEF Put

LEMMA RetireTyped ==
    ASSUME NEW r \in Rows, NEW row \in RowsOf(r)
    PROVE  /\ r[1] # "user" => [row EXCEPT !.live = FALSE] \in RowsOf(r)
           /\ r[1] = "identity" => [row EXCEPT !.live = FALSE].user = row.user
<1>1. CASE r[1] = "user"
    BY <1>1
<1>2. CASE r[1] = "identity"
    BY <1>2 DEF RowsOf, Identities
<1>3. CASE r[1] = "device"
    BY <1>3 DEF RowsOf, Devices
<1>4. CASE r[1] = "target"
    BY <1>4 DEF RowsOf, Targets
<1> QED BY <1>1, <1>2, <1>3, <1>4, Named

LEMMA CreateUserKeeps ==
    ASSUME Inv, NEW p \in Requests, InsertUser(p)
    PROVE  Inv'
<1>1. /\ pc[p] = "create_user" /\ Statement(p, "add_identity") /\ WritesOf(p) = CreateUser(p)
      /\ cmd[p] \in Asks /\ pc[p] \in StepsOf(cmd[p].kind) /\ memo[p] = p
    BY DEF InsertUser, WritesOf, Inv, Request, OnPath, Remembers
<1>i. p \in Ids /\ p \in Transactions
    BY DEF Ids, Transactions
<1> DEFINE row == [email |-> cmd[p].email, live |-> TRUE, deleted_at |-> 0, reminded |-> -1]
<1>2. row \in Users
    <2>1. cmd[p].email \in Emails
        BY <1>1, Paths
    <2> QED BY <2>1, BoundsAssumption DEF Users
<1>3. DOMAIN CreateUser(p) = {User(p)} /\ CreateUser(p)[User(p)] = row
    BY PutIs DEF CreateUser
<1>4. \A i \in Ids : (User(i) = User(p) => i = p) /\ Identity(i) # User(p)
    BY DEF User, Identity
<1>5. WriteOK(p, CreateUser(p))
    <2>1. User(p) \in Rows /\ RowsOf(User(p)) = Users
        BY <1>i, Kinds
    <2>2. StillDead(row, View(p)[User(p)])
        BY <1>1, NoAccountYet DEF StillDead, Dead
    <2> HIDE DEF row
    <2> QED BY <1>2, <1>3, <1>4, <2>1, <2>2 DEF WriteOK
<1>6. StepOK(p, "add_identity", CreateUser(p))
    <2>1. "add_identity" \in StepsOf(cmd[p].kind)
        BY <1>1, Paths DEF StepsOf
    <2> QED BY <1>1, <1>i, <2>1 DEF StepOK
<1> QED BY <1>1, <1>5, <1>6, StatementKeeps

LEMMA AddIdentityKeeps ==
    ASSUME Inv, NEW p \in Requests, InsertIdentity(p)
    PROVE  Inv'
<1>1. /\ pc[p] = "add_identity" /\ Statement(p, "commit") /\ WritesOf(p) = AddIdentity(p)
      /\ cmd[p] \in Asks /\ pc[p] \in StepsOf(cmd[p].kind) /\ memo[p] \in Ids
    BY DEF InsertIdentity, WritesOf, Inv, Request, OnPath, Remembers
<1>i. p \in Ids /\ p \in Transactions
    BY DEF Ids, Transactions
<1> DEFINE row == [user |-> memo[p], live |-> TRUE,
                   provider |-> IF cmd[p].kind = "google" THEN "google" ELSE "email",
                   subject |-> IF cmd[p].kind = "google" THEN cmd[p].subject ELSE Absent]
<1>2. row \in Identities
    <2>1. cmd[p].kind = "google" => cmd[p].subject \in Subjects
        BY <1>1, Paths
    <2> QED BY <1>1, <2>1 DEF Identities
<1>3. DOMAIN AddIdentity(p) = {Identity(p)} /\ AddIdentity(p)[Identity(p)] = row
    <2>1. AddIdentity(p) = Put(Identity(p), row)
        BY DEF AddIdentity
    <2> HIDE DEF row
    <2> QED BY <2>1, PutIs
<1>4. \A i \in Ids : (Identity(i) = Identity(p) => i = p) /\ User(i) # Identity(p)
    BY DEF User, Identity
<1>5. WriteOK(p, AddIdentity(p))
    <2>1. Identity(p) \in Rows /\ RowsOf(Identity(p)) = Identities
        BY <1>i, Kinds
    <2>2. ~Exists(db, Identity(p))
        BY <1>1 DEF Inv, Request, Fresh
    <2> HIDE DEF row
    <2> QED BY <1>2, <1>3, <1>4, <2>1, <2>2 DEF WriteOK
<1>6. StepOK(p, "commit", AddIdentity(p))
    <2>1. "commit" \in StepsOf(cmd[p].kind)
        BY <1>1, Paths DEF StepsOf
    <2>2. User(p) \in DOMAIN pending[p] => memo[p] = p
        BY <1>1 DEF Inv, Request, NewAccount
    <2>3. User(p) # Identity(p)
        BY DEF User, Identity
    <2> QED BY <1>3, <2>1, <2>2, <2>3 DEF StepOK
<1> QED BY <1>1, <1>5, <1>6, StatementKeeps

\* UPDATE users of a live account: Rename writes it as it was, Delete ends it.
LEMMA UpdateUserKeeps ==
    ASSUME Inv, NEW p \in Requests, NEW next, Statement(p, next), NEW u \in Ids, u = cmd[p].user,
           Live(View(p), User(u)), NEW row \in Users, WritesOf(p) = Put(User(u), row),
           pc[p] \notin {"idle", "done", "add_identity", "commit"}, next \in StepsOf(cmd[p].kind),
           next = "commit" \/ (next = "retire_identities" /\ ~row.live)
    PROVE  Inv'
<1>1. DOMAIN WritesOf(p) = {User(u)} /\ WritesOf(p)[User(u)] = row
    BY PutIs
<1>i. p \in Ids /\ p \in Transactions
    BY DEF Ids, Transactions
<1>2. \A i \in Ids : (User(i) = User(u) => i = u) /\ Identity(i) # User(u)
    BY DEF User, Identity
<1>3. View(p)[User(u)] # Absent /\ View(p)[User(u)].live
    BY DEF Live
<1>4. WriteOK(p, WritesOf(p))
    <2>1. User(u) \in Rows /\ RowsOf(User(u)) = Users
        BY Kinds
    <2>2. StillDead(row, View(p)[User(u)])
        BY <1>3 DEF StillDead, Dead
    <2> QED BY <1>1, <1>2, <1>3, <2>1, <2>2 DEF WriteOK, Exists
<1>5. StepOK(p, next, WritesOf(p))
    <2>1. User(p) \notin DOMAIN pending[p] /\ User(p) # User(u)
        BY <1>3, NoAccountYet
    <2> QED BY <1>1, <2>1 DEF StepOK
<1> QED BY <1>4, <1>5, StatementKeeps

LEMMA RenameKeeps == ASSUME Inv, NEW p \in Requests, Rename(p) PROVE Inv'
<1>1. /\ pc[p] = "rename" /\ Statement(p, "commit") /\ WritesOf(p) = UpdateNickname(p, View(p))
      /\ cmd[p] \in Asks /\ pc[p] \in StepsOf(cmd[p].kind) /\ p \in Transactions /\ p # Purger
    BY JobsApart DEF Rename, WritesOf, Inv, Request, OnPath, Transactions
<1>2. "commit" \in StepsOf(cmd[p].kind) /\ cmd[p].user \in Ids
    BY <1>1, Paths DEF StepsOf
<1> DEFINE u == User(cmd[p].user)
<1>3. CASE Live(View(p), u)
    <2>1. View(p)[u] \in Users
        BY <1>1, <1>2, <1>3, Views, Kinds DEF Live, Inv
    <2>2. WritesOf(p) = Put(u, View(p)[u])
        BY <1>1, <1>3 DEF UpdateNickname
    <2> QED BY <1>1, <1>2, <1>3, <2>1, <2>2, UpdateUserKeeps
<1>4. CASE ~Live(View(p), u)
    <2>1. DOMAIN WritesOf(p) = {}
        BY <1>1, <1>4, EmptyOverlay DEF UpdateNickname
    <2>2. WriteOK(p, WritesOf(p))
        BY <1>1, <2>1, OtherRows
    <2>3. StepOK(p, "commit", WritesOf(p))
        BY <1>1, <1>2, <2>1, NoAccountYet DEF StepOK
    <2> QED BY <1>1, <2>2, <2>3, StatementKeeps
<1> QED BY <1>3, <1>4

LEMMA DeleteKeeps == ASSUME Inv, NEW p \in Requests, Delete(p) PROVE Inv'
<1>1. /\ pc[p] = "soft_delete" /\ Statement(p, "retire_identities") /\ WritesOf(p) = SoftDelete(p, View(p))
      /\ Live(View(p), User(cmd[p].user)) /\ begun[p] \in 0 .. LastTick
      /\ cmd[p] \in Asks /\ pc[p] \in StepsOf(cmd[p].kind) /\ p \in Transactions /\ p # Purger
    BY JobsApart DEF Delete, WritesOf, Inv, Request, OnPath, Remembers, Transactions
<1>2. "retire_identities" \in StepsOf(cmd[p].kind) /\ cmd[p].user \in Ids
    BY <1>1, Paths DEF StepsOf
<1> DEFINE t == View(p)[User(cmd[p].user)]
           row == [t EXCEPT !.live = FALSE, !.deleted_at = begun[p]]
<1>3. t \in Users
    BY <1>1, <1>2, Views, Kinds DEF Live, Inv
<1>4. row \in Users /\ row.live = FALSE
    <2> HIDE DEF t
    <2> QED BY <1>1, <1>3 DEF Users
<1>5. WritesOf(p) = Put(User(cmd[p].user), row)
    BY <1>1 DEF SoftDelete
<1> HIDE DEF t, row
<1> QED BY <1>1, <1>2, <1>4, <1>5, UpdateUserKeeps

\* Only the credentials of the account that the same transaction deleted are retired.
LEMMA RetireIdentitiesKeeps ==
    ASSUME Inv, NEW p \in Requests, pc[p] = "retire_identities", Statement(p, "retire_devices")
    PROVE  Inv'
<1>1. /\ WritesOf(p) = RetireIdentities(p, View(p)) /\ Leaves(p, cmd[p].user)
      /\ cmd[p] \in Asks /\ pc[p] \in StepsOf(cmd[p].kind) /\ p \in Transactions /\ p # Purger
    BY JobsApart DEF WritesOf, Inv, Request, OnPath, Remembers, Transactions
<1>2. "retire_devices" \in StepsOf(cmd[p].kind)
    BY <1>1, Paths DEF StepsOf
<1> DEFINE gone == {r \in Rows : r[1] = "identity" /\ Live(View(p), r) /\ View(p)[r].user = cmd[p].user}
<1>3. /\ DOMAIN WritesOf(p) = gone
      /\ \A r \in gone : WritesOf(p)[r] = [View(p)[r] EXCEPT !.live = FALSE]
    BY <1>1 DEF RetireIdentities, Retire
<1>4. \A r \in gone : View(p)[r] \in RowsOf(r) /\ View(p)[r] # Absent /\ r[1] = "identity"
    BY <1>1, Views DEF Live, Inv
<1>5. \A r \in gone : WritesOf(p)[r] \in RowsOf(r) /\ WritesOf(p)[r].user = cmd[p].user
    <2> SUFFICES ASSUME NEW r \in gone
                 PROVE  WritesOf(p)[r] \in RowsOf(r) /\ WritesOf(p)[r].user = cmd[p].user
        OBVIOUS
    <2>1. r \in Rows /\ r[1] = "identity" /\ View(p)[r] \in RowsOf(r) /\ View(p)[r].user = cmd[p].user
        BY <1>4
    <2>2. WritesOf(p)[r] = [View(p)[r] EXCEPT !.live = FALSE]
        BY <1>3
    <2> HIDE DEF gone
    <2>3. /\ [View(p)[r] EXCEPT !.live = FALSE] \in RowsOf(r)
          /\ [View(p)[r] EXCEPT !.live = FALSE].user = View(p)[r].user
        BY <2>1, RetireTyped
    <2> QED BY <2>1, <2>2, <2>3
<1>6. \A i \in Ids : User(i) \notin gone
    BY DEF User
<1>7. WriteOK(p, WritesOf(p))
    <2> HIDE DEF gone
    <2>1. \A r \in gone : r \in Rows /\ View(p)[r].user = cmd[p].user
        BY DEF gone
    <2> QED BY <1>1, <1>3, <1>4, <1>5, <1>6, <2>1 DEF WriteOK, Exists
<1>8. StepOK(p, "retire_devices", WritesOf(p))
    <2>1. User(p) \notin DOMAIN pending[p] \union gone
        BY <1>6, NoAccountYet DEF Ids
    <2> QED BY <1>2, <1>3, <2>1 DEF StepOK
<1> QED BY <1>7, <1>8, StatementKeeps

-----------------------------------------------------------------------------
(* Devices and targets: their statements write neither accounts nor identities. *)

LEMMA OtherKeeps ==
    ASSUME Inv, NEW p \in Requests, NEW next, Statement(p, next), NEW w, w = WritesOf(p),
           pc[p] \notin {"idle", "done", "add_identity", "commit"},
           next \in StepsOf(cmd[p].kind), next \in {"commit", "set_active"},
           \A r \in DOMAIN w : r \in Rows /\ r[1] \in {"device", "target"} /\ w[r] \in RowsOf(r)
    PROVE  Inv'
<1>1. p \in Transactions /\ p \in Ids
    BY DEF Transactions, Ids
<1>2. WriteOK(p, w) /\ User(p) \notin DOMAIN w
    BY <1>1, OtherRows
<1>3. StepOK(p, next, w)
    BY <1>2, NoAccountYet DEF StepOK
<1> QED BY <1>2, <1>3, StatementKeeps

\* What a request that is about to run a statement has in hand.
LEMMA InHand ==
    ASSUME Inv, NEW p \in Requests, pc[p] \notin {"idle", "done"}
    PROVE  /\ p \in Ids /\ p \in Transactions /\ p # Purger
           /\ cmd[p] \in Asks /\ pc[p] \in StepsOf(cmd[p].kind)
           /\ DOMAIN View(p) = Rows
           /\ \A r \in Rows : View(p)[r] = Absent \/ View(p)[r] \in RowsOf(r)
<1>1. p \in Ids /\ p \in Transactions /\ p # Purger
    BY JobsApart DEF Ids, Transactions
<1>2. cmd[p] \in Asks /\ pc[p] \in StepsOf(cmd[p].kind)
    BY DEF Inv, Request, OnPath
<1> QED BY <1>1, <1>2, Views DEF Inv

LEMMA RetireRows ==
    ASSUME NEW t, NEW rows, \A r \in rows : r \in Rows /\ r[1] \in {"device", "target"} /\ t[r] \in RowsOf(r)
    PROVE  LET w == Retire(t, rows) IN
           \A r \in DOMAIN w : r \in Rows /\ r[1] \in {"device", "target"} /\ w[r] \in RowsOf(r)
<1> SUFFICES ASSUME NEW r \in rows PROVE [t[r] EXCEPT !.live = FALSE] \in RowsOf(r)
    BY DEF Retire
<1> QED BY RetireTyped

LEMMA RetireDevicesKeeps ==
    ASSUME Inv, NEW p \in Requests, pc[p] = "retire_devices", Statement(p, "commit") PROVE Inv'
<1>1. WritesOf(p) = RetireDevices(p, View(p))
    BY DEF WritesOf
<1>2. "commit" \in StepsOf(cmd[p].kind)
    BY InHand DEF StepsOf, Asks
<1>3. \A r \in DOMAIN WritesOf(p) : r \in Rows /\ r[1] \in {"device", "target"} /\ WritesOf(p)[r] \in RowsOf(r)
    BY <1>1, InHand, RetireRows DEF RetireDevices, Live
<1> QED BY <1>2, <1>3, OtherKeeps

LEMMA UnregisterKeeps == ASSUME Inv, NEW p \in Requests, Unregister(p) PROVE Inv'
<1>1. pc[p] = "unregister_device" /\ Statement(p, "commit") /\ WritesOf(p) = UnregisterDevice(p, View(p))
    BY DEF Unregister, WritesOf
<1>2. "commit" \in StepsOf(cmd[p].kind)
    BY <1>1, InHand DEF StepsOf, Asks
<1>3. \A r \in DOMAIN WritesOf(p) : r \in Rows /\ r[1] \in {"device", "target"} /\ WritesOf(p)[r] \in RowsOf(r)
    BY <1>1, InHand, RetireRows DEF UnregisterDevice, HasToken, Live
<1> QED BY <1>1, <1>2, <1>3, OtherKeeps

LEMMA RegisterKeeps == ASSUME Inv, NEW p \in Requests, Register(p) PROVE Inv'
<1>1. pc[p] = "register_device" /\ Statement(p, "commit") /\ WritesOf(p) = RegisterDevice(p, View(p))
    BY DEF Register, WritesOf
<1>2. "commit" \in StepsOf(cmd[p].kind) /\ cmd[p].user \in Ids /\ cmd[p].token \in Tokens
    BY <1>1, InHand, Paths DEF StepsOf, Asks
<1> DEFINE taken == {r \in Rows : HasToken(View(p), r, {cmd[p].token})}
           row == [user |-> cmd[p].user, token |-> cmd[p].token, live |-> TRUE]
<1>3. CASE taken = {}
    <2>1. WritesOf(p) = Put(Device(p), row) /\ row \in Devices
        BY <1>1, <1>2, <1>3 DEF RegisterDevice, Devices
    <2>2. Device(p) \in Rows /\ RowsOf(Device(p)) = Devices /\ Device(p)[1] = "device"
        BY <1>1, InHand, Kinds DEF Device
    <2> HIDE DEF row
    <2>3. DOMAIN WritesOf(p) = {Device(p)} /\ WritesOf(p)[Device(p)] = row
        BY <2>1, PutIs
    <2> QED BY <1>1, <1>2, <2>1, <2>2, <2>3, OtherKeeps
<1>4. CASE taken # {}
    <2>1. WritesOf(p) = [r \in taken |-> [View(p)[r] EXCEPT !.user = cmd[p].user]]
        BY <1>1, <1>4 DEF RegisterDevice
    <2>2. \A r \in taken : r \in Rows /\ r[1] = "device" /\ View(p)[r] \in Devices
        BY <1>1, InHand DEF HasToken, Live, RowsOf
    <2>3. \A r \in taken : [View(p)[r] EXCEPT !.user = cmd[p].user] \in Devices
        BY <1>2, <2>2 DEF Devices
    <2>4. \A r \in taken : RowsOf(r) = Devices
        BY <2>2 DEF RowsOf
    <2> HIDE DEF taken
    <2> QED BY <1>1, <1>2, <2>1, <2>2, <2>3, <2>4, OtherKeeps
<1> QED BY <1>3, <1>4

LEMMA AddKeeps == ASSUME Inv, NEW p \in Requests, Add(p) PROVE Inv'
<1>1. /\ pc[p] = "add_target" /\ Statement(p, "commit") /\ WritesOf(p) = AddTarget(p)
      /\ memo[p] \in BOOLEAN
    BY DEF Add, WritesOf, Inv, Request, Remembers
<1>2. "commit" \in StepsOf(cmd[p].kind) /\ cmd[p].user \in Ids /\ cmd[p].exam \in Exams
    BY <1>1, InHand, Paths DEF StepsOf, Asks
<1> DEFINE row == [user |-> cmd[p].user, exam |-> cmd[p].exam, is_active |-> memo[p], live |-> TRUE]
<1>3. row \in Targets
    BY <1>1, <1>2 DEF Targets
<1>4. WritesOf(p) = Put(Target(p), row)
    BY <1>1 DEF AddTarget
<1> HIDE DEF row
<1>5. DOMAIN WritesOf(p) = {Target(p)} /\ WritesOf(p)[Target(p)] = row
    BY <1>4, PutIs
<1>6. Target(p) \in Rows /\ RowsOf(Target(p)) = Targets /\ Target(p)[1] = "target"
    BY <1>1, InHand, Kinds DEF Target
<1> QED BY <1>1, <1>2, <1>3, <1>5, <1>6, OtherKeeps

LEMMA TargetFields ==
    ASSUME NEW row \in Targets, NEW active \in BOOLEAN
    PROVE  /\ [row EXCEPT !.is_active = active] \in Targets
           /\ [row EXCEPT !.live = FALSE, !.is_active = FALSE] \in Targets
BY DEF Targets

LEMMA TargetsOfView ==
    ASSUME Inv, NEW p \in Requests, pc[p] \notin {"idle", "done"}, NEW u, NEW r \in LiveTargets(View(p), u)
    PROVE  r \in Rows /\ r[1] = "target" /\ View(p)[r] \in Targets /\ RowsOf(r) = Targets
BY InHand DEF LiveTargets, Live, RowsOf

LEMMA RemoveKeeps == ASSUME Inv, NEW p \in Requests, Remove(p) PROVE Inv'
<1>1. pc[p] = "remove_target" /\ Statement(p, "commit") /\ WritesOf(p) = RemoveTarget(p, View(p))
    BY DEF Remove, WritesOf
<1>2. "commit" \in StepsOf(cmd[p].kind)
    BY <1>1, InHand DEF StepsOf, Asks
<1> DEFINE r == Target(cmd[p].target)
           row == [View(p)[r] EXCEPT !.live = FALSE, !.is_active = FALSE]
<1>3. CASE r \in LiveTargets(View(p), cmd[p].user)
    <2>1. WritesOf(p) = Put(r, row)
        BY <1>1, <1>3 DEF RemoveTarget
    <2>2. r \in Rows /\ r[1] = "target" /\ row \in Targets /\ RowsOf(r) = Targets
        BY <1>1, <1>3, TargetsOfView, TargetFields
    <2> HIDE DEF r, row
    <2>3. DOMAIN WritesOf(p) = {r} /\ WritesOf(p)[r] = row
        BY <2>1, PutIs
    <2> QED BY <1>1, <1>2, <2>2, <2>3, OtherKeeps
<1>4. CASE r \notin LiveTargets(View(p), cmd[p].user)
    BY <1>1, <1>2, <1>4, EmptyOverlay, OtherKeeps DEF RemoveTarget
<1> QED BY <1>3, <1>4

LEMMA ClearKeeps == ASSUME Inv, NEW p \in Requests, Clear(p) PROVE Inv'
<1>1. pc[p] = "clear_active" /\ Statement(p, "set_active") /\ WritesOf(p) = ClearActive(p, View(p))
    BY DEF Clear, WritesOf
<1>2. "set_active" \in StepsOf(cmd[p].kind)
    BY <1>1, InHand DEF StepsOf, Asks
<1> DEFINE cleared == {s \in memo[p] : s \in LiveTargets(View(p), cmd[p].user) /\ View(p)[s].is_active}
<1>3. WritesOf(p) = [r \in cleared |-> [View(p)[r] EXCEPT !.is_active = FALSE]]
    BY <1>1 DEF ClearActive
<1>4. \A r \in cleared :
          r \in Rows /\ r[1] = "target" /\ RowsOf(r) = Targets /\ [View(p)[r] EXCEPT !.is_active = FALSE] \in Targets
    BY <1>1, TargetsOfView, TargetFields
<1> HIDE DEF cleared
<1>5. /\ DOMAIN WritesOf(p) = cleared
      /\ \A r \in cleared : WritesOf(p)[r] = [View(p)[r] EXCEPT !.is_active = FALSE]
    BY <1>3
<1>6. \A r \in DOMAIN WritesOf(p) :
          r \in Rows /\ r[1] \in {"device", "target"} /\ WritesOf(p)[r] \in RowsOf(r)
    BY <1>4, <1>5
<1> QED BY <1>1, <1>2, <1>6, OtherKeeps

LEMMA SetKeeps == ASSUME Inv, NEW p \in Requests, Set(p) PROVE Inv'
<1>1. pc[p] = "set_active" /\ Statement(p, "commit") /\ WritesOf(p) = SetActive(p, View(p))
    BY DEF Set, WritesOf
<1>2. "commit" \in StepsOf(cmd[p].kind)
    BY <1>1, InHand DEF StepsOf, Asks
<1> DEFINE r == Target(cmd[p].target)
           row == [View(p)[r] EXCEPT !.is_active = TRUE]
<1>3. CASE r \in LiveTargets(View(p), cmd[p].user)
    <2>1. WritesOf(p) = Put(r, row)
        BY <1>1, <1>3 DEF SetActive
    <2>2. r \in Rows /\ r[1] = "target" /\ row \in Targets /\ RowsOf(r) = Targets
        BY <1>1, <1>3, TargetsOfView, TargetFields
    <2> HIDE DEF r, row
    <2>3. DOMAIN WritesOf(p) = {r} /\ WritesOf(p)[r] = row
        BY <2>1, PutIs
    <2> QED BY <1>1, <1>2, <2>2, <2>3, OtherKeeps
<1>4. CASE r \notin LiveTargets(View(p), cmd[p].user)
    BY <1>1, <1>2, <1>4, EmptyOverlay, OtherKeeps DEF SetActive
<1> QED BY <1>3, <1>4

-----------------------------------------------------------------------------
(* Reads, the login limiter, and the commit. *)

LEMMA BeginKeeps ==
    ASSUME Inv, NEW p \in Requests, NEW c \in plan.asks, Begin(p, c) PROVE Inv'
<1> USE DEF Inv
<1>p. p \in Transactions /\ p # Purger /\ p # Reminder
    BY JobsApart DEF Transactions
<1>c. c \in Asks /\ First(c.kind) \in StepsOf(c.kind)
    <2>1. c \in Asks
        BY ScenariosAssumption DEF Shaped
    <2> QED BY <2>1 DEF Asks, First, StepsOf
<1>f. First(c.kind) \notin {"idle", "done", "create_user", "add_identity", "add_target", "retire_identities", "commit"}
    BY <1>c DEF Asks, First
<1>1. /\ pc[p] = "idle" /\ pc'[p] = First(c.kind) /\ DOMAIN pc' = DOMAIN pc
      /\ cmd'[p] = c /\ DOMAIN cmd' = DOMAIN cmd /\ begun'[p] = clock /\ DOMAIN begun' = DOMAIN begun
      /\ pending' = pending /\ memo' = memo /\ UNCHANGED <<plan, clock, db>>
      /\ \A q \in Transactions \ {p} : Untouched(q)
    BY <1>p DEF Begin, Goto, world, Untouched, Shaped
<1>2. Shaped'
    BY <1>1 DEF Shaped
<1>3. Data'
    <2>1. clock' \in 0 .. LastTick /\ clock <= clock'
        BY <1>1 DEF Shaped
    <2> QED BY <1>1, <2>1, DataKeeps
<1>4. ASSUME NEW q \in Requests PROVE Request(q)'
    <2>1. CASE q = p
        <3>1. Request(p) /\ clock \in 0 .. LastTick
            BY DEF Shaped
        <3>2. OnPath(p)'
            BY <1>1, <1>c DEF OnPath
        <3>3. Fresh(p)'
            BY <1>1, <3>1 DEF Request, Fresh, Exists
        <3>4. NewAccount(p)'
            BY <1>1, <3>1 DEF Request, NewAccount
        <3>5. Remembers(p)'
            BY <1>1, <1>f, <3>1 DEF Remembers
        <3> QED BY <2>1, <3>2, <3>3, <3>4, <3>5 DEF Request
    <2>2. CASE q # p
        BY <1>1, <2>2, RequestStays DEF Transactions, Exists
    <2> QED BY <2>1, <2>2
<1>5. PurgerInv'
    <2>1. pc'[Purger] = pc[Purger] /\ memo'[Purger] = memo[Purger] /\ clock' = clock /\ db' = db
        BY <1>1, <1>p, JobsApart DEF Untouched
    <2> QED BY <2>1 DEF PurgerInv, Doomed
<1>6. ReminderInv'
    <2>1. pc'[Reminder] = pc[Reminder] /\ memo'[Reminder] = memo[Reminder]
        BY <1>1, <1>p, JobsApart DEF Untouched
    <2> QED BY <2>1 DEF ReminderInv
<1> QED BY <1>2, <1>3, <1>4, <1>5, <1>6

\* Reads that remember nothing.
LEMMA ReadOnlyKeeps ==
    ASSUME Inv, NEW p \in Requests, NEW next, UNCHANGED <<plan, clock, db>>,
           Continues(p, next), UNCHANGED memo,
           pc[p] \notin {"idle", "done", "add_identity", "commit"}, next \in StepsOf(cmd[p].kind),
           next \notin {"retire_identities", "commit", "idle", "done", "create_user", "add_identity", "add_target"}
    PROVE  Inv'
BY ReadKeeps

LEMMA Recalled ==
    ASSUME Shaped, NEW p \in Transactions, NEW v, Recall(p, v)
    PROVE  memo'[p] = v /\ DOMAIN memo' = DOMAIN memo /\ \A q \in Transactions \ {p} : memo'[q] = memo[q]
BY DEF Shaped, Recall

LEMMA ReadsKeep ==
    ASSUME Inv, NEW p \in Requests,
           \/ FindSubject(p) \/ TargetExists(p) \/ GetTarget(p) \/ LoginEmail(p)
           \/ (\E right \in BOOLEAN : Verify(p, right)) \/ IsFirst(p) \/ FindActive(p) \/ FindEmail(p)
           \/ CheckLimit(p) \/ ResetLimit(p) \/ DeleteAgain(p) \/ RequestDies(p)
    PROVE  Inv'
<1>p. p \in Transactions /\ p \in Ids /\ Shaped
    BY DEF Transactions, Ids, Inv
<1>e. Ends(p) /\ UNCHANGED <<plan, clock, db>> => Inv'
    BY <1>p, EndsKeeps
<1> USE <1>p, <1>e
<1>1. CASE FindSubject(p)
    <2>1. pc[p] = "find_subject" /\ UNCHANGED <<plan, clock, db>>
        BY <1>1 DEF FindSubject, world
    <2>2. "find_email" \in StepsOf(cmd[p].kind)
        BY <2>1, InHand DEF StepsOf, Asks
    <2>3. Ends(p) \/ (Continues(p, "find_email") /\ UNCHANGED memo)
        BY <1>1 DEF FindSubject
    <2> QED BY <2>1, <2>2, <2>3, ReadOnlyKeeps
<1>2. CASE TargetExists(p)
    <2>1. pc[p] = "exists" /\ UNCHANGED <<plan, clock, db>>
        BY <1>2 DEF TargetExists, world
    <2>2. "list" \in StepsOf(cmd[p].kind)
        BY <2>1, InHand DEF StepsOf, Asks
    <2>3. Ends(p) \/ (Continues(p, "list") /\ UNCHANGED memo)
        BY <1>2 DEF TargetExists
    <2> QED BY <2>1, <2>2, <2>3, ReadOnlyKeeps
<1>3. CASE GetTarget(p)
    <2> DEFINE next == IF cmd[p].kind = "remove" THEN "remove_target" ELSE "find_active"
    <2>1. pc[p] = "get" /\ UNCHANGED <<plan, clock, db>>
        BY <1>3 DEF GetTarget, world
    <2>2. next \in StepsOf(cmd[p].kind) /\ next \in {"remove_target", "find_active"}
        BY <2>1, InHand DEF StepsOf, Asks
    <2>3. Ends(p) \/ (Continues(p, next) /\ UNCHANGED memo)
        BY <1>3 DEF GetTarget
    <2> HIDE DEF next
    <2> QED BY <2>1, <2>2, <2>3, ReadOnlyKeeps
<1>4. CASE LoginEmail(p)
    <2>1. pc[p] = "login_email" /\ UNCHANGED <<plan, clock, db>>
        BY <1>4 DEF LoginEmail, world
    <2>2. "verify" \in StepsOf(cmd[p].kind)
        BY <2>1, InHand DEF StepsOf, Asks
    <2>3. Ends(p) \/ (Continues(p, "verify") /\ \E i : Recall(p, i))
        BY <1>4 DEF LoginEmail
    <2> QED BY <2>1, <2>2, <2>3, Recalled, ReadKeeps
<1>5. CASE \E right \in BOOLEAN : Verify(p, right)
    <2>1. pc[p] = "verify" /\ UNCHANGED <<plan, clock, db>>
        BY <1>5 DEF Verify, world
    <2>2. "reset" \in StepsOf(cmd[p].kind)
        BY <2>1, InHand DEF StepsOf, Asks
    <2>3. Ends(p) \/ (Continues(p, "reset") /\ UNCHANGED memo)
        BY <1>5 DEF Verify
    <2> QED BY <2>1, <2>2, <2>3, ReadOnlyKeeps
<1>6. CASE IsFirst(p)
    <2> DEFINE first == LiveTargets(db, cmd[p].user) = {}
    <2>1. pc[p] = "list" /\ UNCHANGED <<plan, clock, db>> /\ Recall(p, first) /\ Continues(p, "add_target")
        BY <1>6 DEF IsFirst, world
    <2>2. "add_target" \in StepsOf(cmd[p].kind)
        BY <2>1, InHand DEF StepsOf, Asks
    <2>3. first \in BOOLEAN
        OBVIOUS
    <2> HIDE DEF first
    <2> QED BY <2>1, <2>2, <2>3, Recalled, ReadKeeps
<1>7. CASE FindActive(p)
    <2>1. /\ pc[p] = "find_active" /\ UNCHANGED <<plan, clock, db>> /\ Continues(p, "clear_active")
          /\ \E v : Recall(p, v)
        BY <1>7 DEF FindActive, world
    <2>2. "clear_active" \in StepsOf(cmd[p].kind)
        BY <2>1, InHand DEF StepsOf, Asks
    <2> QED BY <2>1, <2>2, Recalled, ReadKeeps
<1>8. CASE FindEmail(p)
    <2>1. pc[p] = "find_email" /\ UNCHANGED <<plan, clock, db>>
        BY <1>8 DEF FindEmail, world
    <2>2. "create_user" \in StepsOf(cmd[p].kind) /\ "add_identity" \in StepsOf(cmd[p].kind)
        BY <2>1, InHand DEF StepsOf, Asks
    <2>3. \/ Ends(p)
          \/ Continues(p, "create_user") /\ Recall(p, p)
          \/ Continues(p, "add_identity") /\ \E i \in Ids : Recall(p, i)
        BY <1>8 DEF FindEmail
    <2>4. CASE Continues(p, "create_user") /\ Recall(p, p)
        BY <2>1, <2>2, <2>4, Recalled, ReadKeeps
    <2>5. CASE Continues(p, "add_identity") /\ \E i \in Ids : Recall(p, i)
        BY <2>1, <2>2, <2>5, Recalled, ReadKeeps
    <2> QED BY <2>1, <2>3, <2>4, <2>5
<1>9. CASE CheckLimit(p)
    <2>1. pc[p] = "check_limit" /\ UNCHANGED <<plan, clock, db>>
        BY <1>9 DEF CheckLimit
    <2>2. "login_email" \in StepsOf(cmd[p].kind)
        BY <2>1, InHand DEF StepsOf, Asks
    <2>3. Ends(p) \/ (Continues(p, "login_email") /\ UNCHANGED memo)
        BY <1>9 DEF CheckLimit
    <2> QED BY <2>1, <2>2, <2>3, ReadOnlyKeeps
<1>10. CASE ResetLimit(p) \/ DeleteAgain(p) \/ RequestDies(p)
    BY <1>10 DEF ResetLimit, DeleteAgain, RequestDies, world
<1> QED BY <1>1, <1>2, <1>3, <1>4, <1>5, <1>6, <1>7, <1>8, <1>9, <1>10

\* What a commit makes of the rows.
LEMMA Committed ==
    ASSUME Inv, NEW p \in Transactions, Commit(p)
    PROVE  /\ DOMAIN db' = Rows /\ UNCHANGED <<plan, clock>> /\ pc[p] = "commit" /\ Ends(p)
           /\ \A r \in Rows : db'[r] = IF r \in DOMAIN pending[p] THEN pending[p][r] ELSE db[r]
           /\ \A q \in Transactions \ {p} : \A r \in DOMAIN pending[q] : db'[r] = db[r]
<1>1. db' = View(p) /\ UNCHANGED <<plan, clock>> /\ pc[p] = "commit" /\ Ends(p)
    BY DEF Commit
<1>2. DOMAIN db' = Rows /\ \A r \in Rows : db'[r] = IF r \in DOMAIN pending[p] THEN pending[p][r] ELSE db[r]
    BY <1>1, Views DEF Inv
<1>3. \A q \in Transactions \ {p} : \A r \in DOMAIN pending[q] : r \in Rows /\ r \notin DOMAIN pending[p]
    BY DEF Inv, Data, WritesTyped, Exclusive
<1> QED BY <1>1, <1>2, <1>3

LEMMA DoomedStays ==
    ASSUME Inv, NEW p \in Writers, Commit(p), NEW i \in Ids, Doomed(i)
    PROVE  Doomed(i)'
<1>p. p \in Transactions /\ p # Purger
    BY DEF Writers
<1>1. /\ db'[User(i)] = IF User(i) \in DOMAIN pending[p] THEN pending[p][User(i)] ELSE db[User(i)]
      /\ clock' = clock
    BY <1>p, Committed, Kinds
<1>2. User(i) \in DOMAIN pending[p] =>
          /\ StillDead(pending[p][User(i)], db[User(i)]) /\ pending[p][User(i)] # Absent
    BY <1>p, Kinds, RowsAreThere DEF Inv, Data, UserWrites, WritesTyped
<1> QED BY <1>1, <1>2 DEF Doomed, Dead, StillDead

\* Every live account still has a live credential once a transaction has committed.
LEMMA CommitCredential ==
    ASSUME Inv, NEW p \in Transactions, Commit(p)
    PROVE  LiveHasCredential'
<1> USE DEF Inv, Data
<1>v. \A r \in Rows : db'[r] = IF r \in DOMAIN pending[p] THEN pending[p][r] ELSE db[r]
    BY Committed
<1> SUFFICES ASSUME NEW i \in Ids, db'[User(i)] # Absent, db'[User(i)].live
             PROVE  \E j \in Ids : /\ db'[Identity(j)] # Absent /\ db'[Identity(j)].live
                                   /\ db'[Identity(j)].user = i
    BY Kinds, Zenon DEF LiveHasCredential, Live, Identity
<1>1. CASE db[User(i)] # Absent /\ db[User(i)].live
    <2>1. PICK r \in Rows : r[1] = "identity" /\ db[r] # Absent /\ db[r].live /\ db[r].user = i
        BY <1>1 DEF LiveHasCredential, Live
    <2>2. PICK j \in Ids : r = Identity(j)
        BY <2>1, Named
    <2>3. CASE r \notin DOMAIN pending[p]
        BY <1>v, <2>1, <2>2, <2>3
    <2>4. CASE r \in DOMAIN pending[p] /\ p = Purger
        <3>1. Doomed(i)
            BY <2>1, <2>2, <2>4 DEF PurgeWrites
        <3> QED BY <1>1, <3>1 DEF Doomed, Dead
    <2>5. CASE r \in DOMAIN pending[p] /\ p # Purger
        <3>1. pending[p][r].user = i /\ (pending[p][r].live \/ Leaves(p, i))
            BY <2>1, <2>2, <2>5 DEF IdentityWrites, Writers, Exists
        <3>2. ~Leaves(p, i)
            BY <1>v, Kinds DEF Leaves
        <3>3. pending[p][r] # Absent
            BY <2>1, <2>5, RowsAreThere DEF WritesTyped
        <3> QED BY <1>v, <2>2, <2>5, <3>1, <3>2, <3>3
    <2> QED BY <2>3, <2>4, <2>5
<1>2. CASE db[User(i)] = Absent
    <2>1. User(i) \in DOMAIN pending[p]
        BY <1>v, <1>2, Kinds
    <2>2. p \in Requests /\ p = i
        BY <1>2, <2>1 DEF OwnRows, Exists
    <2>3. /\ Identity(p) \in DOMAIN pending[p]
          /\ pending[p][Identity(p)].live /\ pending[p][Identity(p)].user = p
        BY <2>1, <2>2, Committed DEF Request, NewAccount
    <2>4. pending[p][Identity(p)] # Absent
        BY <2>2, <2>3, RowsAreThere, JobsApart DEF WritesTyped
    <2> QED BY <1>v, <2>2, <2>3, <2>4, Kinds
<1>3. CASE Dead(db[User(i)])
    <2>1. User(i) \in DOMAIN pending[p]
        BY <1>v, <1>3, Kinds DEF Dead
    <2>2. CASE p = Purger
        BY <1>v, <2>1, <2>2, Kinds DEF WritesTyped
    <2>3. CASE p # Purger
        BY <1>v, <1>3, <2>1, <2>3, Kinds DEF UserWrites, Writers, StillDead
    <2> QED BY <2>2, <2>3
<1> QED BY <1>1, <1>2, <1>3 DEF Dead

LEMMA CommitData ==
    ASSUME Inv, NEW p \in Transactions, Commit(p)
    PROVE  Data'
<1> USE DEF Inv, Data
<1>v. \A r \in Rows : db'[r] = IF r \in DOMAIN pending[p] THEN pending[p][r] ELSE db[r]
    BY Committed
<1>k. \A q \in Transactions \ {p} : \A r \in DOMAIN pending[q] : db'[r] = db[r]
    BY Committed
<1>e. /\ DOMAIN pending'[p] = {}
      /\ \A q \in Transactions \ {p} : pending'[q] = pending[q]
    BY EndsFrame, Committed, EmptyOverlay DEF Untouched
<1>1. RowsTyped'
    <2> SUFFICES ASSUME NEW r \in Rows PROVE db'[r] = Absent \/ db'[r] \in RowsOf(r)
        BY DEF RowsTyped
    <2> QED BY <1>v DEF RowsTyped, WritesTyped
<1>2. WritesTyped'
    BY <1>e DEF WritesTyped
<1>3. Exclusive'
    BY <1>e DEF Exclusive
<1>4. OwnRows'
    <2> SUFFICES ASSUME NEW q \in Transactions, NEW i \in Ids, NEW r \in {User(i), Identity(i)},
                        r \in DOMAIN pending'[q]
                 PROVE  db'[r] # Absent \/ (q \in Requests /\ i = q)
        BY DEF OwnRows, Exists
    <2>1. q # p /\ r \in DOMAIN pending[q]
        BY <1>e
    <2> QED BY <1>k, <2>1 DEF OwnRows, Exists
<1>5. UserWrites'
    <2> SUFFICES ASSUME NEW q \in Writers, NEW i \in Ids, User(i) \in DOMAIN pending'[q]
                 PROVE  StillDead(pending'[q][User(i)], db'[User(i)])
        BY DEF UserWrites, StillDead, Dead
    <2>1. q # p /\ User(i) \in DOMAIN pending[q] /\ q \in Transactions
        BY <1>e DEF Writers
    <2> QED BY <1>e, <1>k, <2>1 DEF UserWrites
<1>6. IdentityWrites'
    <2> SUFFICES ASSUME NEW q \in Writers, NEW i \in Ids, NEW u \in Ids,
                        Identity(i) \in DOMAIN pending'[q], db'[Identity(i)] # Absent,
                        db'[Identity(i)].user = u
                 PROVE  pending'[q][Identity(i)].user = u /\ (pending'[q][Identity(i)].live \/ Leaves(q, u)')
        BY DEF IdentityWrites, Exists
    <2>1. q # p /\ Identity(i) \in DOMAIN pending[q] /\ q \in Transactions
        BY <1>e DEF Writers
    <2>2. pending'[q] = pending[q] /\ db'[Identity(i)] = db[Identity(i)]
        BY <1>e, <1>k, <2>1
    <2> QED BY <2>1, <2>2 DEF IdentityWrites, Exists, Leaves
<1>7. PurgeWrites'
    <2> SUFFICES ASSUME NEW i \in Ids
                 PROVE  /\ User(i) \in DOMAIN pending'[Purger] => Doomed(i)'
                        /\ Identity(i) \in DOMAIN pending'[Purger] =>
                               db'[Identity(i)] # Absent /\ Doomed(db[Identity(i)].user)'
        BY DEF PurgeWrites, Exists
    <2>1. CASE p = Purger
        BY <1>e, <2>1
    <2>2. CASE p # Purger
        <3>1. pending'[Purger] = pending[Purger]
            BY <1>e, <2>2, JobsApart
        <3>2. User(i) \in DOMAIN pending[Purger] => Doomed(i)'
            BY <2>2, DoomedStays DEF PurgeWrites, Writers
        <3>3. ASSUME Identity(i) \in DOMAIN pending[Purger]
              PROVE  db'[Identity(i)] # Absent /\ Doomed(db[Identity(i)].user)'
            <4>1. db[Identity(i)] \in Identities /\ db'[Identity(i)] = db[Identity(i)] /\ db[Identity(i)] # Absent
                BY <1>k, <2>2, <3>3, JobsApart, Kinds DEF PurgeWrites, Exists, RowsTyped
            <4>2. PICK u \in Ids : u = db[Identity(i)].user
                BY <4>1 DEF Identities
            <4>3. Doomed(u)
                BY <3>3, <4>2 DEF PurgeWrites
            <4>4. Doomed(u)'
                BY <2>2, <4>3, DoomedStays DEF Writers
            <4> QED BY <4>1, <4>2, <4>4
        <3> QED BY <3>1, <3>2, <3>3
    <2> QED BY <2>1, <2>2
<1>8. LiveHasCredential'
    BY CommitCredential
<1> QED BY <1>1, <1>2, <1>3, <1>4, <1>5, <1>6, <1>7, <1>8

LEMMA CommitKeeps == ASSUME Inv, NEW p \in Transactions, Commit(p) PROVE Inv'
<1> USE DEF Inv
<1>0. Ends(p) /\ UNCHANGED <<plan, clock>> /\ DOMAIN db' = Rows
    BY Committed
<1>1. Domains' /\ pending'[p] = Nothing /\ \A q \in Transactions \ {p} : Untouched(q)
    BY <1>0, EndsFrame
<1>2. Shaped'
    BY <1>0, <1>1 DEF Shaped, Domains
<1>3. Data'
    BY CommitData
<1>4. ASSUME NEW q \in Requests PROVE Request(q)'
    <2>1. CASE q = p
        BY <1>0, <2>1, EndsFrame, RequestOver
    <2>2. CASE q # p
        <3>1. \A r \in {User(q), Identity(q)} : Exists(db', r) => Exists(db, r)
            <4> SUFFICES ASSUME NEW r \in {User(q), Identity(q)}, db'[r] # Absent, db[r] = Absent
                         PROVE  FALSE
                BY DEF Exists
            <4>1. q \in Ids /\ r \in Rows
                BY Kinds DEF Ids
            <4>2. r \in DOMAIN pending[p]
                BY <4>1, Committed
            <4> QED BY <2>2, <4>1, <4>2 DEF Data, OwnRows, Exists
        <3> QED BY <1>1, <2>2, <3>1, RequestStays DEF Transactions
    <2> QED BY <2>1, <2>2
<1>5. PurgerInv'
    <2>1. CASE p = Purger
        <3>1. pc'[Purger] = "idle"
            BY <1>0, <2>1, EndsFrame, JobsApart
        <3> QED BY <3>1 DEF PurgerInv
    <2>2. CASE p # Purger
        <3>1. pc'[Purger] = pc[Purger] /\ memo'[Purger] = memo[Purger]
            BY <1>1, <2>2, JobsApart DEF Untouched
        <3>2. \A i \in Ids : Doomed(i) => Doomed(i)'
            BY <2>2, DoomedStays DEF Writers
        <3> QED BY <3>1, <3>2 DEF PurgerInv
    <2> QED BY <2>1, <2>2
<1>6. ReminderInv'
    <2>1. CASE p = Reminder
        <3>1. pc'[Reminder] = "idle"
            BY <1>0, <2>1, EndsFrame, JobsApart
        <3> QED BY <3>1 DEF ReminderInv
    <2>2. CASE p # Reminder
        <3>1. pc'[Reminder] = pc[Reminder] /\ memo'[Reminder] = memo[Reminder]
            BY <1>1, <2>2, JobsApart DEF Untouched
        <3> QED BY <3>1 DEF ReminderInv
    <2> QED BY <2>1, <2>2
<1> QED BY <1>2, <1>3, <1>4, <1>5, <1>6

-----------------------------------------------------------------------------
(* The two jobs. *)

LEMMA JobKeeps ==
    ASSUME Inv, NEW j \in Jobs, UNCHANGED <<plan, clock, db, cmd, begun>>,
           DOMAIN pc' = DOMAIN pc, DOMAIN memo' = DOMAIN memo, DOMAIN pending' = DOMAIN pending,
           \A q \in Transactions \ {j} : pc'[q] = pc[q] /\ memo'[q] = memo[q] /\ pending'[q] = pending[q],
           Data', PurgerInv', ReminderInv'
    PROVE  Inv'
<1>1. Shaped'
    BY DEF Inv, Shaped
<1>2. ASSUME NEW q \in Requests PROVE Request(q)'
    <2>1. q \in Transactions \ {j}
        BY BoundsAssumption DEF Transactions
    <2>2. Untouched(q)
        BY <2>1 DEF Untouched
    <2> QED BY <2>2, RequestStays DEF Inv, Exists
<1> QED BY <1>1, <1>2 DEF Inv

LEMMA SameData == Inv /\ UNCHANGED <<plan, clock, db, pending>> => Data'
<1> SUFFICES ASSUME Inv, UNCHANGED <<plan, clock, db, pending>> PROVE Data'
    OBVIOUS
<1>1. clock' \in 0 .. LastTick /\ clock <= clock'
    BY DEF Inv, Shaped
<1> QED BY <1>1, DataKeeps DEF Inv

LEMMA DueForPurgeKeeps == Inv /\ DueForPurge => Inv'
<1> SUFFICES ASSUME Inv, DueForPurge PROVE Inv'
    OBVIOUS
<1>1. PICK chosen \in SUBSET Due :
          /\ Recall(Purger, chosen) /\ Continues(Purger, "purge") /\ UNCHANGED <<plan, clock, db>>
    BY DEF DueForPurge, world
<1>2. /\ memo'[Purger] = chosen /\ pc'[Purger] = "purge"
      /\ DOMAIN pc' = DOMAIN pc /\ DOMAIN memo' = DOMAIN memo
      /\ UNCHANGED <<pending, cmd, begun>>
      /\ \A q \in Transactions \ {Purger} : pc'[q] = pc[q] /\ memo'[q] = memo[q]
    BY <1>1, JobsApart DEF Recall, Continues, Goto, request, Inv, Shaped
<1>3. \A i \in chosen : i \in Ids /\ Doomed(i)
    <2> SUFFICES ASSUME NEW i \in Due PROVE i \in Ids /\ Doomed(i)
        OBVIOUS
    <2>1. i \in Ids /\ db[User(i)] # Absent /\ ~db[User(i)].live /\ db[User(i)].deleted_at <= clock - Grace
        BY DEF Due, Exists, PurgeCutoff
    <2>2. db[User(i)] \in Users
        BY <2>1, Kinds DEF Inv, Data, RowsTyped
    <2>3. db[User(i)].deleted_at \in Int /\ clock \in Int /\ Grace \in Int
        BY <2>2, BoundsAssumption DEF Users, Inv, Shaped
    <2> QED BY <2>1, <2>3 DEF Doomed, Dead
<1>4. PurgerInv'
    BY <1>1, <1>2, <1>3 DEF PurgerInv, Doomed
<1>5. ReminderInv'
    BY <1>2, JobsApart DEF Inv, ReminderInv
<1>6. Data'
    BY <1>1, <1>2, SameData
<1> QED BY <1>1, <1>2, <1>4, <1>5, <1>6, JobKeeps DEF Jobs

\* DELETE FROM users of a doomed account, with its dependents.
DeletesAccount(w, i) ==
    \A r \in DOMAIN w :
        /\ r \in Rows /\ w[r] = Absent /\ db[r] # Absent
        /\ r = User(i) \/ (Child(r) /\ db[r].user = i)

LEMMA PurgeDeletes == ASSUME Inv, NEW i PROVE DeletesAccount(Purge(View(Purger), i), i)
<1> SUFFICES ASSUME NEW r \in DOMAIN Purge(View(Purger), i)
             PROVE  /\ r \in Rows /\ Purge(View(Purger), i)[r] = Absent /\ db[r] # Absent
                    /\ r = User(i) \/ (Child(r) /\ db[r].user = i)
    BY DEF DeletesAccount
<1>1. /\ r \in Rows /\ Purge(View(Purger), i)[r] = Absent /\ View(Purger)[r] # Absent
      /\ r = User(i) \/ (Child(r) /\ View(Purger)[r].user = i)
    BY DEF Purge, Exists, ChildOf
<1>2. r \notin DOMAIN pending[Purger]
    BY <1>1, Views, JobsApart DEF WritesTyped, Inv, Data
<1>3. View(Purger)[r] = db[r]
    BY <1>1, <1>2, Views, JobsApart DEF Inv
<1> QED BY <1>1, <1>3

LEMMA PurgeData ==
    ASSUME Inv, NEW i \in Ids, Doomed(i), NEW w, DeletesAccount(w, i), Blockers(Purger, w) = {},
           pending'[Purger] = Over(w, pending[Purger]),
           \A q \in Transactions \ {Purger} : pending'[q] = pending[q],
           UNCHANGED <<plan, clock, db>>
    PROVE  Data'
<1>w. /\ DOMAIN pending'[Purger] = DOMAIN pending[Purger] \union DOMAIN w
      /\ \A r \in DOMAIN w : pending'[Purger][r] = w[r]
      /\ \A r \in DOMAIN pending[Purger] : r \notin DOMAIN w => pending'[Purger][r] = pending[Purger][r]
    BY Written
<1>p. \A r \in DOMAIN w :
          /\ r \in Rows /\ w[r] = Absent /\ db[r] # Absent
          /\ r = User(i) \/ (Child(r) /\ db[r].user = i)
    BY DEF DeletesAccount
<1> USE DEF Inv, Data
<1>1. RowsTyped'
    BY DEF RowsTyped
<1>2. WritesTyped'
    BY <1>w, <1>p, JobsApart DEF WritesTyped
<1>3. Exclusive'
    BY <1>w, BlockedOnSameRow, JobsApart DEF Exclusive
<1>4. OwnRows'
    BY <1>w, <1>p DEF OwnRows, Exists
<1>5. UserWrites'
    BY DEF UserWrites, Writers, StillDead, Dead
<1>6. IdentityWrites'
    BY DEF IdentityWrites, Writers, Leaves, Exists
<1>7. PurgeWrites'
    <2> SUFFICES ASSUME NEW j \in Ids
                 PROVE  /\ User(j) \in DOMAIN pending'[Purger] => Doomed(j)
                        /\ Identity(j) \in DOMAIN pending'[Purger] =>
                               db[Identity(j)] # Absent /\ Doomed(db[Identity(j)].user)
        BY DEF PurgeWrites, Doomed, Exists
    <2>1. User(j) \in DOMAIN w => j = i
        BY <1>p DEF Child, User
    <2>2. Identity(j) \in DOMAIN w => db[Identity(j)] # Absent /\ db[Identity(j)].user = i
        BY <1>p DEF User, Identity
    <2> QED BY <1>w, <2>1, <2>2 DEF PurgeWrites, Exists
<1>8. LiveHasCredential'
    BY DEF LiveHasCredential, Live
<1> QED BY <1>1, <1>2, <1>3, <1>4, <1>5, <1>6, <1>7, <1>8

LEMMA PurgeNextKeeps == ASSUME Inv, NEW i \in Ids, PurgeNext(i) PROVE Inv'
<1> DEFINE w == Purge(View(Purger), i)
<1>1. /\ pc[Purger] = "purge" /\ i \in memo[Purger] /\ Blockers(Purger, w) = {}
      /\ UNCHANGED <<plan, clock, db, cmd, begun>>
      /\ pending' = [pending EXCEPT ![Purger] = Over(w, pending[Purger])]
      /\ Recall(Purger, memo[Purger] \ {i})
      /\ \E next : Goto(Purger, next)
    BY DEF PurgeNext, world, request
<1> HIDE DEF w
<1>2. /\ memo'[Purger] = memo[Purger] \ {i} /\ pending'[Purger] = Over(w, pending[Purger])
      /\ DOMAIN pc' = DOMAIN pc /\ DOMAIN memo' = DOMAIN memo /\ DOMAIN pending' = DOMAIN pending
      /\ \A q \in Transactions \ {Purger} : pc'[q] = pc[q] /\ memo'[q] = memo[q] /\ pending'[q] = pending[q]
    BY <1>1, JobsApart DEF Recall, Goto, Inv, Shaped
<1>3. \A j \in memo[Purger] : j \in Ids /\ Doomed(j)
    BY <1>1 DEF Inv, PurgerInv
<1>4. Data'
    <2>1. DeletesAccount(w, i)
        BY PurgeDeletes DEF w
    <2> QED BY <1>1, <1>2, <1>3, <2>1, PurgeData
<1>5. PurgerInv'
    BY <1>1, <1>2, <1>3 DEF PurgerInv, Doomed
<1>6. ReminderInv'
    BY <1>2, JobsApart DEF Inv, ReminderInv
<1> QED BY <1>1, <1>2, <1>4, <1>5, <1>6, JobKeeps DEF Jobs

LEMMA ReminderReads ==
    ASSUME Inv, UNCHANGED <<plan, clock, db, pending, cmd, begun>>,
           NEW next, Goto(Reminder, next), NEW m, Recall(Reminder, m), RunMemo(m)
    PROVE  Inv'
<1>1. /\ memo'[Reminder] = m /\ DOMAIN pc' = DOMAIN pc /\ DOMAIN memo' = DOMAIN memo
      /\ \A q \in Transactions \ {Reminder} : pc'[q] = pc[q] /\ memo'[q] = memo[q] /\ pending'[q] = pending[q]
    BY JobsApart DEF Goto, Recall, Inv, Shaped
<1>2. PurgerInv'
    BY <1>1, JobsApart DEF PurgerInv, Inv, Doomed
<1>3. ReminderInv'
    BY <1>1 DEF ReminderInv
<1>4. Data'
    BY SameData
<1> QED BY <1>1, <1>2, <1>3, <1>4, JobKeeps DEF Jobs

LEMMA ReminderStatement ==
    ASSUME Inv, NEW next, Statement(Reminder, next), pc[Reminder] # "idle", WriteOK(Reminder, WritesOf(Reminder))
    PROVE  Inv'
<1> DEFINE w == WritesOf(Reminder)
<1>0. UNCHANGED <<plan, clock, db>> /\ Blockers(Reminder, w) = {}
    BY DEF Statement, world
<1>1. CASE Ends(Reminder)
    BY <1>0, <1>1, EndsKeeps, JobsApart
<1>2. CASE /\ pending' = [pending EXCEPT ![Reminder] = Over(w, pending[Reminder])]
           /\ Goto(Reminder, next) /\ UNCHANGED <<memo, request>>
    <2>1. WriteOK(Reminder, w)
        OBVIOUS
    <2> HIDE DEF w
    <2>2. /\ pending'[Reminder] = Over(w, pending[Reminder])
          /\ DOMAIN pending' = DOMAIN pending /\ DOMAIN pc' = DOMAIN pc
          /\ UNCHANGED <<memo, cmd, begun>>
          /\ \A q \in Transactions \ {Reminder} : pc'[q] = pc[q] /\ pending'[q] = pending[q]
        BY <1>2, JobsApart DEF Goto, request, Inv, Shaped
    <2>3. Data'
        BY <1>0, <2>1, <2>2, StatementData, JobsApart DEF Inv, Writers
    <2>4. PurgerInv'
        <3>1. pc'[Purger] = pc[Purger] /\ memo'[Purger] = memo[Purger] /\ clock' = clock /\ db' = db
            BY <1>0, <2>2, JobsApart
        <3> QED BY <3>1 DEF PurgerInv, Inv, Doomed
    <2>5. ReminderInv'
        BY <2>2 DEF ReminderInv, Inv
    <2> QED BY <1>0, <2>2, <2>3, <2>4, <2>5, JobKeeps DEF Jobs
<1> QED BY <1>1, <1>2 DEF Statement

LEMMA RunMemos ==
    ASSUME NEW m, RunMemo(m), NEW a, NEW b
    PROVE  /\ a \in SUBSET Ids => RunMemo([m EXCEPT !.risk = a])
           /\ RunMemo([m EXCEPT !.left = a])
           /\ RunMemo([m EXCEPT !.left = a, !.dead = b])
           /\ m.today \in 0 .. LastTick /\ m.risk \in SUBSET Ids
<1>1. PICK today, risk, left, dead :
          /\ today \in 0 .. LastTick /\ risk \in SUBSET Ids
          /\ m = [today |-> today, risk |-> risk, left |-> left, dead |-> dead]
    BY DEF RunMemo
<1>2. ASSUME a \in SUBSET Ids PROVE RunMemo([m EXCEPT !.risk = a])
    <2>1. [m EXCEPT !.risk = a] = [today |-> today, risk |-> a, left |-> left, dead |-> dead]
        BY <1>1
    <2> QED BY <1>1, <1>2, <2>1, Zenon DEF RunMemo
<1>3. RunMemo([m EXCEPT !.left = a])
    <2>1. [m EXCEPT !.left = a] = [today |-> today, risk |-> risk, left |-> a, dead |-> dead]
        BY <1>1
    <2> QED BY <1>1, <2>1, Zenon DEF RunMemo
<1>4. RunMemo([m EXCEPT !.left = a, !.dead = b])
    <2> DEFINE n == [today |-> today, risk |-> risk, left |-> a, dead |-> dead]
    <2>1. [m EXCEPT !.left = a] = n
        BY <1>1
    <2>2. [n EXCEPT !.dead = b] = [today |-> today, risk |-> risk, left |-> a, dead |-> b]
        OBVIOUS
    <2>3. [m EXCEPT !.left = a, !.dead = b] = [n EXCEPT !.dead = b]
        BY <2>1
    <2>4. [m EXCEPT !.left = a, !.dead = b] = [today |-> today, risk |-> risk, left |-> a, dead |-> b]
        BY <2>2, <2>3
    <2> QED BY <1>1, <2>4, Zenon DEF RunMemo
<1>5. m.today = today /\ m.risk = risk
    BY <1>1
<1> QED BY <1>1, <1>2, <1>3, <1>4, <1>5

LEMMA UnregisterDeadKeeps == Inv /\ UnregisterDead => Inv'
<1> SUFFICES ASSUME Inv, UnregisterDead PROVE Inv'
    OBVIOUS
<1>1. /\ pc[Reminder] = "unregister_many" /\ Statement(Reminder, "mark_reminded")
      /\ WritesOf(Reminder) = UnregisterMany(View(Reminder))
    BY DEF UnregisterDead, WritesOf
<1>2. \A r \in DOMAIN WritesOf(Reminder) :
          r \in Rows /\ r[1] \in {"device", "target"} /\ WritesOf(Reminder)[r] \in RowsOf(r)
    BY <1>1, Views, JobsApart, RetireRows DEF UnregisterMany, HasToken, Live, Inv
<1> QED BY <1>1, <1>2, OtherRows, ReminderStatement, JobsApart

LEMMA MarkSentKeeps == Inv /\ MarkSent => Inv'
<1> SUFFICES ASSUME Inv, MarkSent PROVE Inv'
    OBVIOUS
<1> DEFINE today == memo[Reminder].today
           marked == {User(i) : i \in {j \in memo[Reminder].risk : Exists(View(Reminder), User(j))}}
<1>1. /\ pc[Reminder] = "mark_reminded" /\ Statement(Reminder, "commit")
      /\ WritesOf(Reminder) = [r \in marked |-> [View(Reminder)[r] EXCEPT !.reminded = today]]
    BY DEF MarkSent, WritesOf, MarkReminded
<1>2. today \in 0 .. LastTick /\ memo[Reminder].risk \in SUBSET Ids
    BY <1>1, RunMemos DEF Inv, ReminderInv
<1> HIDE DEF today
<1>3. \A r \in marked : /\ r \in Rows /\ RowsOf(r) = Users
                        /\ View(Reminder)[r] # Absent /\ View(Reminder)[r] \in Users
    <2> SUFFICES ASSUME NEW i \in memo[Reminder].risk, Exists(View(Reminder), User(i))
                 PROVE  /\ User(i) \in Rows /\ RowsOf(User(i)) = Users
                        /\ View(Reminder)[User(i)] # Absent /\ View(Reminder)[User(i)] \in Users
        OBVIOUS
    <2>1. User(i) \in Rows /\ RowsOf(User(i)) = Users
        BY <1>2, Kinds
    <2> QED BY <2>1, Views, JobsApart DEF Inv, Exists
<1>4. \A i \in Ids : Identity(i) \notin marked
    BY DEF User, Identity
<1>5. /\ DOMAIN WritesOf(Reminder) = marked
      /\ \A r \in marked : WritesOf(Reminder)[r] = [View(Reminder)[r] EXCEPT !.reminded = today]
    BY <1>1
<1> HIDE DEF marked
<1>6. \A r \in marked : /\ WritesOf(Reminder)[r] \in Users
                        /\ WritesOf(Reminder)[r].live = View(Reminder)[r].live
                        /\ WritesOf(Reminder)[r].deleted_at = View(Reminder)[r].deleted_at
    <2> SUFFICES ASSUME NEW r \in marked
                 PROVE  /\ WritesOf(Reminder)[r] \in Users
                        /\ WritesOf(Reminder)[r].live = View(Reminder)[r].live
                        /\ WritesOf(Reminder)[r].deleted_at = View(Reminder)[r].deleted_at
        OBVIOUS
    <2> DEFINE row == View(Reminder)[r]
    <2>1. row \in Users /\ WritesOf(Reminder)[r] = [row EXCEPT !.reminded = today]
        BY <1>3, <1>5
    <2> HIDE DEF row
    <2>2. /\ [row EXCEPT !.reminded = today] \in Users
          /\ [row EXCEPT !.reminded = today].live = row.live
          /\ [row EXCEPT !.reminded = today].deleted_at = row.deleted_at
        BY <1>2, <2>1 DEF Users
    <2> QED BY <2>1, <2>2 DEF row
<1>7. WriteOK(Reminder, WritesOf(Reminder))
    BY <1>3, <1>4, <1>5, <1>6 DEF WriteOK, StillDead, Dead, Exists
<1> QED BY <1>1, <1>7, ReminderStatement

LEMMA ReminderKeeps ==
    ASSUME Inv, ReminderStep \/ RemindBegins \/ ReminderDies
    PROVE  Inv'
<1>1. CASE RemindBegins
    <2>1. RunMemo([today |-> clock, risk |-> {}, left |-> {}, dead |-> {}])
        BY DEF RunMemo, Inv, Shaped
    <2>2. /\ UNCHANGED <<plan, clock, db, pending, cmd, begun>> /\ Goto(Reminder, "at_risk")
          /\ Recall(Reminder, [today |-> clock, risk |-> {}, left |-> {}, dead |-> {}])
        BY <1>1 DEF RemindBegins, request
    <2> QED BY <2>1, <2>2, ReminderReads
<1>2. CASE ReminderDies
    BY <1>2, EndsKeeps, JobsApart DEF ReminderDies, RunFails
<1>3. ASSUME NEW practised \in SUBSET Ids, AtRisk(practised) PROVE Inv'
    <2> DEFINE risk == practised \ AlreadyReminded(memo[Reminder].today)
    <2>1. /\ pc[Reminder] = "at_risk" /\ UNCHANGED <<plan, clock, db>>
          /\ \/ Ends(Reminder)
             \/ /\ Recall(Reminder, [memo[Reminder] EXCEPT !.risk = risk])
                /\ Goto(Reminder, "tokens") /\ UNCHANGED <<pending, cmd, begun>>
        BY <1>3 DEF AtRisk, world, Continues, request
    <2>2. RunMemo([memo[Reminder] EXCEPT !.risk = risk])
        BY <2>1, RunMemos DEF Inv, ReminderInv
    <2> HIDE DEF risk
    <2> QED BY <2>1, <2>2, EndsKeeps, ReminderReads, JobsApart
<1>4. CASE GetTokens
    <2> DEFINE tokens == TokensOfUsers(memo[Reminder].risk)
    <2>1. /\ pc[Reminder] = "tokens" /\ UNCHANGED <<plan, clock, db>>
          /\ \/ Ends(Reminder)
             \/ /\ Recall(Reminder, [memo[Reminder] EXCEPT !.left = tokens])
                /\ Goto(Reminder, "send") /\ UNCHANGED <<pending, cmd, begun>>
        BY <1>4 DEF GetTokens, world, Continues, request
    <2> HIDE DEF tokens
    <2>2. RunMemo([memo[Reminder] EXCEPT !.left = tokens])
        BY <2>1, RunMemos DEF Inv, ReminderInv
    <2> QED BY <2>1, <2>2, EndsKeeps, ReminderReads, JobsApart
<1>5. CASE SendSome
    <2>1. PICK left, dead, next :
              /\ pc[Reminder] = "send" /\ UNCHANGED <<plan, clock, db, pending, cmd, begun>>
              /\ Recall(Reminder, [memo[Reminder] EXCEPT !.left = left, !.dead = dead])
              /\ Goto(Reminder, next)
        BY <1>5 DEF SendSome, Send, request
    <2>2. RunMemo([memo[Reminder] EXCEPT !.left = left, !.dead = dead])
        BY <2>1, RunMemos DEF Inv, ReminderInv
    <2> QED BY <2>1, <2>2, ReminderReads
<1> QED BY <1>1, <1>2, <1>3, <1>4, <1>5, UnregisterDeadKeeps, MarkSentKeeps, CommitKeeps, JobsApart
        DEF ReminderStep

LEMMA ClockKeeps == Inv /\ Tick => Inv'
<1> SUFFICES ASSUME Inv, Tick PROVE Inv'
    OBVIOUS
<1>1. UNCHANGED <<plan, db, pending, pc, cmd, begun, memo>> /\ clock < plan.ticks /\ clock' = clock + 1
    BY DEF Tick, request
<1>2. clock' \in 0 .. LastTick /\ clock <= clock'
    BY <1>1, BoundsAssumption DEF Inv, Shaped
<1>3. Shaped'
    BY <1>1, <1>2 DEF Inv, Shaped
<1>4. Data'
    BY <1>1, <1>2, DataKeeps DEF Inv
<1>5. ASSUME NEW q \in Requests PROVE Request(q)'
    BY <1>1, RequestStays DEF Inv, Untouched, Exists
<1>6. PurgerInv'
    <2>1. ASSUME NEW i \in Ids, Doomed(i) PROVE Doomed(i)'
        <3>1. db[User(i)].deleted_at \in Int /\ Grace \in Int /\ clock \in Int
            <4>1. db[User(i)] \in Users
                BY <2>1, Kinds DEF Doomed, Dead, Inv, Data, RowsTyped
            <4> QED BY <4>1, BoundsAssumption DEF Users, Inv, Shaped
        <3> QED BY <1>1, <2>1, <3>1 DEF Doomed, Dead
    <2> QED BY <1>1, <2>1 DEF Inv, PurgerInv
<1>7. ReminderInv'
    BY <1>1 DEF Inv, ReminderInv
<1> QED BY <1>3, <1>4, <1>5, <1>6, <1>7 DEF Inv

-----------------------------------------------------------------------------
LEMMA InitInv == Init => Inv
<1> SUFFICES ASSUME Init PROVE Inv
    OBVIOUS
<1>1. /\ plan \in Scenarios /\ clock = 0 /\ DOMAIN db = Rows
      /\ \A r \in Rows : db[r] = IF r \in DOMAIN plan.rows THEN plan.rows[r] ELSE Absent
      /\ \A p \in Transactions : pending[p] = Nothing /\ pc[p] = "idle"
      /\ \A p \in Requests : begun[p] = 0
    BY DEF Init, Start
<1>2. Shaped
    BY <1>1, BoundsAssumption DEF Init, Shaped
<1>3. Data
    <2>1. RowsTyped
        BY <1>1, ScenariosAssumption DEF RowsTyped
    <2>2. WritesTyped /\ Exclusive /\ OwnRows /\ UserWrites /\ IdentityWrites /\ PurgeWrites
        BY <1>1, EmptyOverlay, JobsApart
        DEF WritesTyped, Exclusive, OwnRows, UserWrites, IdentityWrites, PurgeWrites, Writers
    <2>3. LiveHasCredential
        <3> SUFFICES ASSUME NEW i \in Ids, db[User(i)] # Absent, db[User(i)].live
                     PROVE  \E r \in Rows : r[1] = "identity" /\ Live(db, r) /\ db[r].user = i
            BY DEF LiveHasCredential, Live
        <3>1. /\ User(i) \in DOMAIN plan.rows /\ plan.rows[User(i)].live
              /\ User(i)[1] = "user" /\ User(i)[2] = i
            BY <1>1, Kinds DEF User
        <3>2. PICK q \in DOMAIN plan.rows :
                  q[1] = "identity" /\ plan.rows[q].live /\ plan.rows[q].user = i
            BY <1>1, <3>1, ScenariosAssumption
        <3>3. q \in Rows /\ plan.rows[q] # Absent
            BY <1>1, <3>2, ScenariosAssumption, RowsAreThere
        <3> QED BY <1>1, <3>2, <3>3 DEF Live
    <2> QED BY <2>1, <2>2, <2>3 DEF Data
<1>4. ASSUME NEW p \in Requests PROVE Request(p)
    <2>1. p \notin Olds /\ p \in Transactions /\ p \in Ids
        BY BoundsAssumption DEF Transactions, Ids
    <2>2. Fresh(p)
        <3>1. \A r \in {User(p), Identity(p)} : r[2] = p /\ r \in Rows
            <4>1. User(p)[2] = p /\ Identity(p)[2] = p
                BY DEF User, Identity
            <4> QED BY <2>1, <4>1, Kinds
        <3>2. \A r \in {User(p), Identity(p)} : r \notin DOMAIN plan.rows
            BY <1>1, <2>1, <3>1, ScenariosAssumption
        <3> QED BY <1>1, <3>1, <3>2 DEF Fresh, Exists
    <2> QED BY <1>1, <2>1, <2>2, EmptyOverlay, BoundsAssumption DEF Request, OnPath, NewAccount, Remembers
<1>5. PurgerInv /\ ReminderInv
    BY <1>1, JobsApart DEF PurgerInv, ReminderInv
<1> QED BY <1>2, <1>3, <1>4, <1>5 DEF Inv

LEMMA RequestsKeep ==
    ASSUME Inv, NEW p \in Requests, RequestStep(p) \/ RequestDies(p)
    PROVE  Inv'
<1>1. p \in Transactions
    BY DEF Transactions
<1> QED BY <1>1, ReadsKeep, CreateUserKeeps, AddIdentityKeeps, RenameKeeps, DeleteKeeps,
           RetireIdentitiesKeeps, RetireDevicesKeeps, RegisterKeeps, UnregisterKeeps, AddKeeps,
           RemoveKeeps, ClearKeeps, SetKeeps, CommitKeeps
        DEF RequestStep, RetireCredentials

LEMMA NextKeeps == Inv /\ [Next]_vars => Inv'
<1> SUFFICES ASSUME Inv, [Next]_vars PROVE Inv'
    OBVIOUS
<1>1. CASE UNCHANGED vars
    <2>1. UNCHANGED <<plan, clock, db, pending, pc, cmd, begun, memo>>
        BY <1>1 DEF vars
    <2>2. Shaped'
        BY <2>1 DEF Inv, Shaped
    <2>3. Data'
        BY <2>1, SameData
    <2>4. ASSUME NEW q \in Requests PROVE Request(q)'
        BY <2>1, RequestStays DEF Inv, Untouched, Exists
    <2>5. PurgerInv' /\ ReminderInv'
        BY <2>1 DEF Inv, PurgerInv, ReminderInv, Doomed
    <2> QED BY <2>2, <2>3, <2>4, <2>5 DEF Inv
<1>2. CASE Tick
    BY <1>2, ClockKeeps
<1>3. ASSUME NEW p \in Requests, RequestStep(p) \/ RequestDies(p) PROVE Inv'
    BY <1>3, RequestsKeep
<1>4. ASSUME NEW p \in Requests, NEW c \in plan.asks, Begin(p, c) PROVE Inv'
    BY <1>4, BeginKeeps
<1>5. CASE PurgerStep
    BY <1>5, DueForPurgeKeeps, PurgeNextKeeps, CommitKeeps, JobsApart DEF PurgerStep
<1>6. CASE PurgeDies
    BY <1>6, EndsKeeps, JobsApart DEF PurgeDies
<1>7. CASE ReminderStep \/ RemindBegins \/ ReminderDies
    BY <1>7, ReminderKeeps
<1>8. ASSUME NEW p \in Transactions, BreakDeadlock(p) PROVE Inv'
    BY <1>8, EndsKeeps DEF BreakDeadlock, RunFails, world
<1> QED BY <1>1, <1>2, <1>3, <1>4, <1>5, <1>6, <1>7, <1>8 DEF Next, Progress

\* Rows change at a commit only.
LEMMA OnlyCommits == [Next]_vars => UNCHANGED db \/ \E p \in Transactions : Commit(p)
<1> SUFFICES ASSUME [Next]_vars, db' # db PROVE \E p \in Transactions : Commit(p)
    OBVIOUS
<1>1. CASE UNCHANGED vars
    BY <1>1 DEF vars
<1>2. CASE Tick
    BY <1>2 DEF Tick
<1>3. ASSUME NEW p \in Requests, RequestStep(p) PROVE Commit(p)
    BY <1>3 DEF RequestStep, FindSubject, FindEmail, InsertUser, InsertIdentity, Rename,
           Delete, DeleteAgain, RetireCredentials, Register, Unregister, TargetExists, IsFirst,
           Add, GetTarget, Remove, FindActive, Clear, Set, CheckLimit, LoginEmail, Verify, ResetLimit,
           Statement, world
<1>4. CASE PurgerStep \/ PurgeDies
    BY <1>4, JobsApart DEF PurgerStep, PurgeDies, DueForPurge, PurgeNext, world
<1>5. CASE ReminderStep \/ RemindBegins \/ ReminderDies
    BY <1>5, JobsApart DEF ReminderStep, RemindBegins, ReminderDies, RunFails, AtRisk, GetTokens, SendSome,
           Send, UnregisterDead, MarkSent, Statement, world
<1>6. ASSUME NEW p \in Transactions, BreakDeadlock(p) PROVE FALSE
    BY <1>6 DEF BreakDeadlock, RunFails, world
<1>7. ASSUME NEW p \in Requests, (\E c \in plan.asks : Begin(p, c)) \/ RequestDies(p) PROVE FALSE
    BY <1>7 DEF Begin, RequestDies, world
<1>8. Requests \subseteq Transactions
    BY DEF Transactions
<1> QED BY <1>1, <1>2, <1>3, <1>4, <1>5, <1>6, <1>7, <1>8 DEF Next, Progress

-----------------------------------------------------------------------------
LEMMA InvHolds == Spec => []Inv
BY InitInv, NextKeeps, PTL DEF Spec

\* Rows keep their types in every transaction's view, and the limiter's window only
\* holds attempts that were made.
THEOREM TypeCorrect == Spec => []TypeOK
<1>1. Inv /\ LimiterInv => TypeOK
    <2> SUFFICES ASSUME Inv, LimiterInv PROVE TypeOK
        OBVIOUS
    <2>1. clock \in 0 .. LastTick
        BY DEF Inv, Shaped
    <2>2. ASSUME NEW r \in Rows, NEW p \in Transactions
          PROVE  View(p)[r] = Absent \/ View(p)[r] \in RowsOf(r)
        BY Views DEF Inv, Data, RowsTyped, WritesTyped
    <2>3. \A e \in Emails : attempts[e] \subseteq tried[e]
        BY DEF LimiterInv, LimiterTyped
    <2> QED BY <2>1, <2>2, <2>3 DEF TypeOK
<1> QED BY <1>1, InvHolds, InitLimiter, StepLimiter, PTL DEF Spec

\* Every live account has a live credential, whatever registrations, sign-ins,
\* deletions and purges run side by side.
THEOREM CredentialHolds == Spec => []LiveHasCredential
<1>1. Inv => LiveHasCredential
    BY DEF Inv, Data
<1> QED BY <1>1, InvHolds, PTL

\* No user row leaves the table before its student asked for it and the grace period
\* has passed.
THEOREM GraceHolds == Spec => GraceKept
<1>1. Inv /\ [Next]_vars =>
          \A i \in Ids : Exists(db, User(i)) /\ ~Exists(db', User(i)) =>
              ~db[User(i)].live /\ db[User(i)].deleted_at + Grace <= clock
    <2> SUFFICES ASSUME Inv, [Next]_vars, NEW i \in Ids, db[User(i)] # Absent, db'[User(i)] = Absent
                 PROVE  ~db[User(i)].live /\ db[User(i)].deleted_at + Grace <= clock
        BY DEF Exists
    <2>1. PICK p \in Transactions : Commit(p)
        BY OnlyCommits
    <2>2. User(i) \in DOMAIN pending[p] /\ pending[p][User(i)] = Absent
        BY <2>1, Committed, Kinds
    <2>3. p = Purger
        BY <2>2, RowsAreThere, Kinds DEF Inv, Data, WritesTyped
    <2> QED BY <2>2, <2>3 DEF Inv, Data, PurgeWrites, Doomed, Dead
<1> QED BY <1>1, InvHolds, PTL DEF Spec, GraceKept
=============================================================================
