----------------------------- MODULE TablesProofs -----------------------------
(***************************************************************************)
(* The tables of Accounts.tla, for any requests, scenarios and bounds.     *)
(* The unique indexes and the foreign keys hold of the committed rows and  *)
(* of every transaction's view of them (Schema).  From that: the reminder  *)
(* job reminds nobody twice without a failed run, only late arrivals work  *)
(* of a deleted account, a student with targets has exactly one lens, an   *)
(* activation that commits landed, and no wait cycle is closed without the *)
(* reminder job.                                                           *)
(***************************************************************************)
EXTENDS AccountsProofs

\* No two transactions have taken the same key, and none has written a child of a user
\* that another one deletes.
Apart ==
    \A p, q \in Transactions : p # q =>
        \A r \in DOMAIN pending[p], s \in DOMAIN pending[q] :
            /\ Keys(r, pending[p][r]) \intersect Keys(s, pending[q][s]) = {}
            /\ s[1] = "user" /\ pending[q][s] = Absent => ~ChildOf(r, pending[p][r], s[2])
Schema == Unique(db) /\ Owned(db) /\ Apart /\ \A p \in Transactions : Unique(View(p)) /\ Owned(View(p))

-----------------------------------------------------------------------------
(* The kinds of steps. *)

\* The statements at which a transaction may have written rows already.
Holding == {"add_identity", "retire_identities", "retire_devices", "set_active", "commit"}
\* A statement and the one that follows it.
Edges ==
    {<<"create_user", "add_identity">>, <<"add_identity", "commit">>, <<"rename", "commit">>,
     <<"soft_delete", "retire_identities">>, <<"retire_identities", "retire_devices">>,
     <<"retire_devices", "commit">>, <<"register_device", "commit">>, <<"unregister_device", "commit">>,
     <<"add_target", "commit">>, <<"remove_target", "commit">>, <<"clear_active", "set_active">>,
     <<"set_active", "commit">>}
JobEdges == {<<"unregister_many", "mark_reminded">>, <<"mark_reminded", "commit">>}

\* What a request knows from its last read.
Sees(p) ==
    /\ pc[p] = "idle" =>
           /\ InSession(cmd'[p]) => Live(db, User(cmd'[p].user))
           /\ pc'[p] \notin {"add_target", "find_active", "clear_active"}
    /\ pc'[p] = "add_target" => memo'[p] \/ LiveTargets(db, cmd[p].user) # {}
    /\ pc'[p] = "find_active" => Target(cmd[p].target) \in LiveTargets(db, cmd[p].user)
    /\ pc'[p] = "clear_active" => pc[p] = "find_active"

Rest == UNCHANGED <<db, pending, pc, memo, cmd, begun, beside>>
Stop(p) == Ends(p) /\ UNCHANGED <<db, beside>>
Look(p) ==
    /\ UNCHANGED <<db, pending, beside>>
    /\ \A q \in Transactions \ {p} : Untouched(q)
    /\ p \in Requests /\ pc[p] # "idle" => cmd'[p] = cmd[p]
    /\ pc[p] \notin Holding \union {"done"}
    /\ pc'[p] \notin (Holding \ {"add_identity"}) \union {"idle", "done"}
    /\ p \in Requests => Sees(p)
    /\ p = Purger => pc'[p] = "purge"
Wrote(p) ==
    /\ Blockers(p, WritesOf(p)) = {} /\ ~Refused(p, WritesOf(p))
    /\ pending'[p] = Over(WritesOf(p), pending[p])
    /\ \A q \in Transactions \ {p} : Untouched(q)
    /\ memo'[p] = memo[p]
    /\ p \in Requests => cmd'[p] = cmd[p]
    /\ UNCHANGED <<db, beside>>
Purged(i) ==
    /\ pc[Purger] = "purge" /\ i \in memo[Purger]
    /\ Blockers(Purger, Purge(View(Purger), i)) = {}
    /\ pending'[Purger] = Over(Purge(View(Purger), i), pending[Purger])
    /\ pc'[Purger] \in {"purge", "commit"}
    /\ \A q \in Transactions \ {Purger} : Untouched(q)
    /\ UNCHANGED <<db, beside>>

LEMMA StatementMoves ==
    ASSUME Shaped, NEW p \in Transactions, NEW next, Statement(p, next)
    PROVE  Stop(p) \/ (Wrote(p) /\ pc'[p] = next)
<1> DEFINE w == WritesOf(p)
<1>1. UNCHANGED <<db, beside>> /\ Blockers(p, w) = {}
    BY DEF Statement, world
<1>2. CASE Ends(p)
    BY <1>1, <1>2 DEF Stop
<1>3. CASE /\ ~Refused(p, w) /\ pending' = [pending EXCEPT ![p] = Over(w, pending[p])]
           /\ Goto(p, next) /\ UNCHANGED <<memo, request>>
    <2> HIDE DEF w
    <2>1. /\ pending'[p] = Over(w, pending[p]) /\ pc'[p] = next
          /\ \A q \in Transactions \ {p} : Untouched(q)
        BY <1>3 DEF Shaped, Untouched, Goto, request
    <2> QED BY <1>1, <1>3, <2>1 DEF Wrote, request, w
<1> QED BY <1>1, <1>2, <1>3 DEF Statement

\* Whatever a request does.
LEMMA RequestMoves ==
    ASSUME Inv, NEW p \in Requests, RequestStep(p) \/ RequestDies(p) \/ \E c \in plan.asks : Begin(p, c)
    PROVE  \/ Stop(p) \/ Look(p) \/ Commit(p)
           \/ Wrote(p) /\ <<pc[p], pc'[p]>> \in Edges
<1>p. p \in Transactions /\ p # Purger /\ Shaped
    BY JobsApart DEF Transactions, Inv
<1>l. ASSUME NEW next, Continues(p, next), UNCHANGED <<db, beside>>, pc[p] \notin Holding \union {"done"},
             next \notin (Holding \ {"add_identity"}) \union {"idle", "done"},
             \A q \in Transactions \ {p} : memo'[q] = memo[q], pc'[p] = next => Sees(p)
      PROVE  Look(p)
    BY <1>p, <1>l DEF Continues, Goto, request, Shaped, Untouched, Look
<1>r. \A v : Recall(p, v) => \A q \in Transactions \ {p} : memo'[q] = memo[q]
    BY <1>p, Recalled
<1>1. CASE FindSubject(p) \/ LoginEmail(p) \/ (\E right \in BOOLEAN : Verify(p, right))
    BY <1>l, <1>r, <1>1 DEF FindSubject, LoginEmail, Verify, world, Stop, Holding, Sees
<1>2. CASE FindEmail(p)
    BY <1>l, <1>r, <1>2 DEF FindEmail, world, Stop, Holding, Sees
<1>3. CASE TargetExists(p) \/ IsFirst(p) \/ FindActive(p) \/ GetTarget(p)
    <2>1. IsFirst(p) => memo'[p] = (LiveTargets(db, cmd[p].user) = {})
        BY <1>p DEF IsFirst, Recall, Shaped
    <2> QED BY <1>l, <1>r, <1>3, <2>1 DEF TargetExists, IsFirst, FindActive, GetTarget, world, Stop, Holding, Sees
<1>4. CASE CheckLimit(p) \/ ResetLimit(p) \/ DeleteAgain(p) \/ RequestDies(p)
    BY <1>l, <1>4 DEF CheckLimit, ResetLimit, DeleteAgain, RequestDies, world, Stop, Holding, Sees
<1>5. CASE \E c \in plan.asks : Begin(p, c)
    <2>1. PICK c \in plan.asks : Begin(p, c)
        BY <1>5
    <2>2. c \in Asks
        BY ScenariosAssumption DEF Inv, Shaped
    <2>3. First(c.kind) \notin Holding \union {"idle", "done", "add_target", "find_active", "clear_active"}
        BY <2>2 DEF Asks, First, Holding
    <2>4. /\ pc[p] = "idle" /\ pc'[p] = First(c.kind) /\ UNCHANGED <<db, pending, beside>>
          /\ \A q \in Transactions \ {p} : Untouched(q)
        BY <1>p, <2>1 DEF Begin, Goto, world, Untouched, Shaped
    <2>5. cmd'[p] = c /\ (InSession(c) => Live(db, User(c.user)))
        BY <1>p, <2>1 DEF Begin, Shaped
    <2>6. Sees(p)
        BY <2>3, <2>4, <2>5 DEF Sees
    <2> QED BY <1>p, <2>3, <2>4, <2>6 DEF Look, Holding
<1>6. CASE InsertUser(p) \/ InsertIdentity(p) \/ Rename(p) \/ Delete(p)
    BY <1>p, <1>6, StatementMoves DEF InsertUser, InsertIdentity, Rename, Delete, Edges
<1>7. CASE RetireCredentials(p) \/ Register(p) \/ Unregister(p)
    BY <1>p, <1>7, StatementMoves DEF RetireCredentials, Register, Unregister, Edges
<1>8. CASE Add(p) \/ Remove(p) \/ Clear(p) \/ Set(p)
    BY <1>p, <1>8, StatementMoves DEF Add, Remove, Clear, Set, Edges
<1> QED BY <1>1, <1>2, <1>3, <1>4, <1>5, <1>6, <1>7, <1>8 DEF RequestStep

LEMMA PurgerMoves ==
    ASSUME Inv, PurgerStep \/ PurgeDies
    PROVE  Stop(Purger) \/ Look(Purger) \/ Commit(Purger) \/ \E i \in Ids : Purged(i)
<1>p. Purger \in Transactions /\ Purger \notin Requests /\ Shaped
    BY JobsApart DEF Inv
<1>1. CASE DueForPurge
    <2>1. PICK chosen \in SUBSET Due :
              Recall(Purger, chosen) /\ Continues(Purger, "purge") /\ UNCHANGED <<db, beside>>
        BY <1>1 DEF DueForPurge, world
    <2>2. \A q \in Transactions \ {Purger} : memo'[q] = memo[q]
        BY <1>p, <2>1, Recalled
    <2> QED BY <1>p, <1>1, <2>1, <2>2 DEF DueForPurge, Continues, Goto, request, Shaped, Untouched, Look, Holding
<1>2. ASSUME NEW i \in Ids, PurgeNext(i) PROVE Purged(i)
    <2> DEFINE w == Purge(View(Purger), i)
    <2>1. /\ pc[Purger] = "purge" /\ i \in memo[Purger] /\ Blockers(Purger, w) = {}
          /\ pending' = [pending EXCEPT ![Purger] = Over(w, pending[Purger])]
          /\ Recall(Purger, memo[Purger] \ {i})
          /\ Goto(Purger, IF memo[Purger] = {i} THEN "commit" ELSE "purge")
          /\ UNCHANGED <<db, beside, cmd, begun>>
        BY <1>2 DEF PurgeNext, world, request
    <2> HIDE DEF w
    <2>2. pc'[Purger] \in {"purge", "commit"} /\ \A q \in Transactions \ {Purger} : Untouched(q)
        BY <1>p, <2>1 DEF Recall, Goto, Shaped, Untouched
    <2>3. pending'[Purger] = Over(w, pending[Purger])
        BY <1>p, <2>1 DEF Shaped
    <2> QED BY <2>1, <2>2, <2>3 DEF Purged, w
<1>3. CASE PurgeDies
    BY <1>3 DEF PurgeDies, Stop
<1> QED BY <1>1, <1>2, <1>3 DEF PurgerStep

LEMMA ReminderMoves ==
    ASSUME Inv, ReminderStep \/ RemindBegins \/ ReminderDies
    PROVE  \/ Stop(Reminder) \/ Look(Reminder) \/ Commit(Reminder)
           \/ Wrote(Reminder) /\ <<pc[Reminder], pc'[Reminder]>> \in JobEdges
<1>p. Reminder \in Transactions /\ Reminder \notin Requests /\ Reminder # Purger /\ Shaped
    BY JobsApart DEF Inv
<1>l. ASSUME NEW next, NEW v, Goto(Reminder, next), Recall(Reminder, v), UNCHANGED <<db, beside, pending, request>>,
             pc[Reminder] \notin Holding \union {"done"}, next \notin Holding \union {"idle", "done"}
      PROVE  Look(Reminder)
    BY <1>p, <1>l DEF Goto, Recall, request, Shaped, Untouched, Look
<1>1. CASE RemindBegins
    BY <1>l, <1>1 DEF RemindBegins, Holding
<1>2. CASE ReminderDies
    BY <1>2 DEF ReminderDies, RunFails, Stop
<1>3. ASSUME NEW practised \in SUBSET Ids, AtRisk(practised) PROVE Stop(Reminder) \/ Look(Reminder)
    BY <1>l, <1>3 DEF AtRisk, Continues, world, Stop, Holding
<1>4. CASE GetTokens
    BY <1>l, <1>4 DEF GetTokens, Continues, world, Stop, Holding
<1>5. CASE SendSome
    BY <1>l, <1>5 DEF SendSome, Send, Holding
<1>6. CASE UnregisterDead \/ MarkSent
    BY <1>p, <1>6, StatementMoves DEF UnregisterDead, MarkSent, JobEdges
<1> QED BY <1>1, <1>2, <1>3, <1>4, <1>5, <1>6 DEF ReminderStep

LEMMA Moves ==
    ASSUME Inv, [Next]_vars
    PROVE  \/ Rest
           \/ \E p \in Transactions : Stop(p) \/ Look(p) \/ Commit(p)
           \/ \E p \in Requests : Wrote(p) /\ <<pc[p], pc'[p]>> \in Edges
           \/ Wrote(Reminder) /\ <<pc[Reminder], pc'[Reminder]>> \in JobEdges
           \/ \E i \in Ids : Purged(i)
<1>0. Requests \subseteq Transactions
    BY DEF Transactions
<1>1. CASE UNCHANGED vars
    BY <1>1 DEF vars, Rest
<1>2. CASE Tick
    BY <1>2 DEF Tick, request, Rest
<1>3. ASSUME NEW p \in Transactions, BreakDeadlock(p) PROVE Stop(p)
    BY <1>3 DEF BreakDeadlock, RunFails, world, Stop
<1>4. ASSUME NEW p \in Requests, RequestStep(p) \/ RequestDies(p) \/ \E c \in plan.asks : Begin(p, c)
      PROVE  \/ Stop(p) \/ Look(p) \/ Commit(p)
             \/ Wrote(p) /\ <<pc[p], pc'[p]>> \in Edges
    BY <1>4, RequestMoves
<1> QED BY <1>0, <1>1, <1>2, <1>3, <1>4, PurgerMoves, ReminderMoves, JobsApart DEF Next, Progress

-----------------------------------------------------------------------------
(* Indexes and foreign keys. *)

LEMMA NoKeys == \A r, row : row = Absent \/ ~row.live => Keys(r, row) = {}
BY DEF Keys

LEMMA Parents == \A r \in Rows : \A row \in RowsOf(r) : Child(r) => row.user \in Ids /\ User(row.user) \in Rows
<1> SUFFICES ASSUME NEW r \in Rows, NEW row \in RowsOf(r), r[1] # "user"
             PROVE  row.user \in Ids /\ User(row.user) \in Rows
    BY DEF Child
<1>1. row \in Identities \/ row \in Devices \/ row \in Targets
    BY Named DEF RowsOf
<1>2. row.user \in Ids
    BY <1>1 DEF Identities, Devices, Targets
<1> QED BY <1>2, Kinds

Typed(t) == \A r \in Rows : t[r] = Absent \/ t[r] \in RowsOf(r)

LEMMA Seen ==
    ASSUME Inv, NEW p \in Transactions
    PROVE  /\ DOMAIN pending[p] \subseteq Rows
           /\ \A r \in Rows : View(p)[r] = IF r \in DOMAIN pending[p] THEN pending[p][r] ELSE db[r]
           /\ Typed(db) /\ Typed(View(p))
           /\ p # Purger => \A r \in DOMAIN pending[p] : pending[p][r] \in RowsOf(r) /\ pending[p][r] # Absent
           /\ p = Purger => \A r \in DOMAIN pending[p] : pending[p][r] = Absent
<1>1. /\ DOMAIN pending[p] \subseteq Rows
      /\ p # Purger => \A r \in DOMAIN pending[p] : pending[p][r] \in RowsOf(r) /\ pending[p][r] # Absent
      /\ p = Purger => \A r \in DOMAIN pending[p] : pending[p][r] = Absent
    BY RowsAreThere DEF Inv, Data, WritesTyped
<1>2. \A r \in Rows : View(p)[r] = IF r \in DOMAIN pending[p] THEN pending[p][r] ELSE db[r]
    BY Views DEF Inv
<1>3. Typed(db)
    BY DEF Inv, Data, RowsTyped, Typed
<1>4. Typed(View(p))
    BY <1>1, <1>2, <1>3 DEF Typed
<1> QED BY <1>1, <1>2, <1>3, <1>4

LEMMA SeenNext ==
    ASSUME Inv', NEW p \in Transactions
    PROVE  /\ DOMAIN pending'[p] \subseteq Rows
           /\ \A r \in Rows : View(p)'[r] = IF r \in DOMAIN pending'[p] THEN pending'[p][r] ELSE db'[r]
           /\ Typed(db)' /\ Typed(View(p))'
           /\ p # Purger => \A r \in DOMAIN pending'[p] : pending'[p][r] \in RowsOf(r) /\ pending'[p][r] # Absent
           /\ p = Purger => \A r \in DOMAIN pending'[p] : pending'[p][r] = Absent
<1>1. /\ DOMAIN pending'[p] \subseteq Rows
      /\ p # Purger => \A r \in DOMAIN pending'[p] : pending'[p][r] \in RowsOf(r) /\ pending'[p][r] # Absent
      /\ p = Purger => \A r \in DOMAIN pending'[p] : pending'[p][r] = Absent
    BY RowsAreThere DEF Inv, Data, WritesTyped
<1>2. \A r \in Rows : View(p)'[r] = IF r \in DOMAIN pending'[p] THEN pending'[p][r] ELSE db'[r]
    <2>1. DOMAIN db' = Rows
        BY DEF Inv, Shaped
    <2>2. View(p)' = Over(pending'[p], db')
        BY DEF View
    <2> DEFINE w == pending'[p]
               t == db'
    <2>3. /\ \A r \in DOMAIN w : Over(w, t)[r] = w[r]
          /\ \A r \in DOMAIN t : r \notin DOMAIN w => Over(w, t)[r] = t[r]
        <3> HIDE DEF w, t
        <3> QED BY DEF Over
    <2> QED BY <2>1, <2>2, <2>3
<1>3. Typed(db)'
    BY DEF Inv, Data, RowsTyped, Typed
<1>4. Typed(View(p))'
    BY <1>1, <1>2, <1>3 DEF Typed
<1> QED BY <1>1, <1>2, <1>3, <1>4

\* A table t2 that is t but for some rows, whose keys and whose users are looked at.
LEMMA UniqueAfter ==
    ASSUME NEW t, NEW t2, NEW changed, Unique(t),
           \A r \in Rows \ changed : t2[r] = t[r],
           \A r \in changed : \A s \in Rows \ {r} : Keys(r, t2[r]) \intersect Keys(s, t2[s]) = {}
    PROVE  Unique(t2)
BY DEF Unique

LEMMA OwnedAfter ==
    ASSUME NEW t, NEW t2, NEW changed, Owned(t), Typed(t),
           \A r \in Rows \ changed : t2[r] = t[r],
           \A r \in Rows \intersect changed : Child(r) /\ t2[r] # Absent => t2[User(t2[r].user)] # Absent,
           \A r \in Rows \ changed : Child(r) /\ t[r] # Absent /\ User(t[r].user) \in changed =>
               t2[User(t[r].user)] # Absent
    PROVE  Owned(t2)
<1> SUFFICES ASSUME NEW r \in Rows, Child(r), t2[r] # Absent
             PROVE  t2[User(t2[r].user)] # Absent
    BY DEF Owned, Exists
<1>1. CASE r \in changed
    BY <1>1
<1>2. CASE r \notin changed
    <2>1. t2[r] = t[r] /\ t[User(t[r].user)] # Absent /\ User(t[r].user) \in Rows
        BY <1>2, Parents DEF Owned, Exists, Typed
    <2> QED BY <1>2, <2>1
<1> QED BY <1>1, <1>2

LEMMA SchemaStays ==
    ASSUME Inv, Inv', Schema, UNCHANGED db,
           \A p \in Transactions : pending'[p] = pending[p] \/ pending'[p] = Nothing
    PROVE  Schema'
<1>1. Unique(db)' /\ Owned(db)'
    BY DEF Schema, Unique, Owned
<1>2. Apart'
    BY EmptyOverlay DEF Schema, Apart
<1>3. ASSUME NEW p \in Transactions PROVE Unique(View(p))' /\ Owned(View(p))'
    <2>1. CASE pending'[p] = pending[p]
        <3>1. View(p)' = View(p)
            BY <2>1 DEF View
        <3> QED BY <3>1 DEF Schema, Unique, Owned
    <2>2. CASE pending'[p] = Nothing
        <3> DEFINE t == View(p)'
        <3>1. \A r \in Rows : t[r] = db[r]
            BY <2>2, SeenNext, EmptyOverlay
        <3>2. Unique(db) /\ Owned(db) /\ Typed(db)
            BY Seen DEF Schema
        <3> HIDE DEF t
        <3>3. Unique(t)
            BY <3>1, <3>2 DEF Unique
        <3>4. Owned(t)
            BY <3>1, <3>2, Parents DEF Owned, Typed, Exists
        <3> QED BY <3>3, <3>4 DEF t
    <2> QED BY <2>1, <2>2
<1> QED BY <1>1, <1>2, <1>3 DEF Schema

LEMMA SchemaWrites ==
    ASSUME Inv, Inv', Schema, NEW p \in Writers, Wrote(p)
    PROVE  Schema'
<1> DEFINE w == WritesOf(p)
           before == View(p)
           after == Over(w, before)
<1>p. p \in Transactions /\ p # Purger
    BY DEF Writers
<1>1. /\ DOMAIN pending'[p] = DOMAIN pending[p] \union DOMAIN w
      /\ \A r \in DOMAIN w : pending'[p][r] = w[r]
      /\ \A r \in DOMAIN pending[p] : r \notin DOMAIN w => pending'[p][r] = pending[p][r]
    BY Written DEF Wrote
<1>2. UNCHANGED db /\ \A q \in Transactions \ {p} : pending'[q] = pending[q]
    BY DEF Wrote, Untouched
<1>3. DOMAIN w \subseteq Rows /\ \A r \in DOMAIN w : w[r] \in RowsOf(r) /\ w[r] # Absent
    BY <1>p, <1>1, SeenNext
<1>4. \A r \in Rows : View(p)'[r] = IF r \in DOMAIN w THEN w[r] ELSE before[r]
    <2> HIDE DEF w
    <2> QED BY <1>p, <1>1, <1>2, Seen, SeenNext
<1>5. \A r \in Rows : after[r] = IF r \in DOMAIN w THEN w[r] ELSE before[r]
    <2>1. DOMAIN before = Rows
        BY <1>p, Views DEF Inv
    <2> HIDE DEF w, before
    <2> QED BY <1>3, <2>1 DEF Over
<1>6. \A r \in DOMAIN w :
          /\ \A s \in Rows \ {r} : Keys(r, after[r]) \intersect Keys(s, after[s]) = {}
          /\ Child(r) /\ after[r] # Absent => after[User(after[r].user)] # Absent
    BY DEF Wrote, Refused
<1>7. Unique(db)' /\ Owned(db)'
    BY <1>2 DEF Schema, Unique, Owned
<1>8. Apart'
    <2> SUFFICES ASSUME NEW q1 \in Transactions, NEW q2 \in Transactions, q1 # q2,
                        NEW r \in DOMAIN pending'[q1], NEW s \in DOMAIN pending'[q2]
                 PROVE  /\ Keys(r, pending'[q1][r]) \intersect Keys(s, pending'[q2][s]) = {}
                        /\ s[1] = "user" /\ pending'[q2][s] = Absent => ~ChildOf(r, pending'[q1][r], s[2])
        BY DEF Apart, ChildOf, Child
    <2>b. \A q \in Transactions \ {p} : \A x \in DOMAIN w, y \in DOMAIN pending[q] :
              /\ Keys(x, w[x]) \intersect Keys(y, pending[q][y]) = {}
              /\ y[1] = "user" /\ pending[q][y] = Absent => ~ChildOf(x, w[x], y[2])
        BY DEF Wrote, Blockers
    <2>o. r \in DOMAIN pending[q1] /\ s \in DOMAIN pending[q2] =>
              /\ Keys(r, pending[q1][r]) \intersect Keys(s, pending[q2][s]) = {}
              /\ s[1] = "user" /\ pending[q2][s] = Absent => ~ChildOf(r, pending[q1][r], s[2])
        BY DEF Schema, Apart
    <2> HIDE DEF w
    <2>1. CASE q1 = p /\ r \in DOMAIN w
        BY <1>1, <1>2, <2>1, <2>b
    <2>2. CASE q2 = p /\ s \in DOMAIN w
        BY <1>1, <1>2, <1>3, <2>2, <2>b
    <2>3. CASE ~(q1 = p /\ r \in DOMAIN w) /\ ~(q2 = p /\ s \in DOMAIN w)
        <3>1. r \in DOMAIN pending[q1] /\ pending'[q1][r] = pending[q1][r]
            BY <1>1, <1>2, <2>3
        <3>2. s \in DOMAIN pending[q2] /\ pending'[q2][s] = pending[q2][s]
            BY <1>1, <1>2, <2>3
        <3> QED BY <2>o, <3>1, <3>2
    <2> QED BY <2>1, <2>2, <2>3
<1>9. ASSUME NEW q \in Transactions PROVE Unique(View(q))' /\ Owned(View(q))'
    <2>1. CASE q # p
        <3>1. View(q)' = View(q)
            BY <1>2, <2>1 DEF View
        <3> QED BY <3>1 DEF Schema, Unique, Owned
    <2>2. CASE q = p
        <3> DEFINE new == View(p)'
        <3>1. Unique(before) /\ Owned(before) /\ Typed(before)
            BY <1>p, Seen DEF Schema
        <3> HIDE DEF w, before, new, after
        <3>2. \A r \in Rows : new[r] = after[r]
            BY <1>4, <1>5 DEF new
        <3>3. Unique(new)
            BY <1>3, <1>5, <1>6, <3>1, <3>2, UniqueAfter
        <3>4. Owned(new)
            <4>1. \A r \in DOMAIN w : Child(r) => User(w[r].user) \in Rows
                BY <1>3, Parents
            <4> QED BY <1>3, <1>5, <1>6, <3>1, <3>2, <4>1, OwnedAfter
        <3> QED BY <2>2, <3>3, <3>4 DEF new
    <2> QED BY <2>1, <2>2
<1> QED BY <1>7, <1>8, <1>9 DEF Schema

LEMMA SchemaPurges ==
    ASSUME Inv, Inv', Schema, NEW i \in Ids, Purged(i)
    PROVE  Schema'
<1> DEFINE before == View(Purger)
           w == Purge(before, i)
<1>p. Purger \in Transactions
    BY JobsApart
<1>0. /\ \A r \in DOMAIN w : r \in Rows /\ w[r] = Absent /\ (r = User(i) \/ ChildOf(r, before[r], i))
      /\ \A r \in Rows : Exists(before, r) /\ (r = User(i) \/ ChildOf(r, before[r], i)) => r \in DOMAIN w
    BY DEF Purge
<1>u. \A r \in Rows : User(r[2]) \in Rows /\ (r[1] = "user" => r = User(r[2]))
    BY Named, Kinds
<1>i. User(i)[1] = "user" /\ User(i)[2] = i /\ \A j : User(j) = User(i) => j = i
    BY DEF User
<1>1. /\ DOMAIN pending'[Purger] = DOMAIN pending[Purger] \union DOMAIN w
      /\ \A r \in DOMAIN w : pending'[Purger][r] = w[r]
      /\ \A r \in DOMAIN pending[Purger] : r \notin DOMAIN w => pending'[Purger][r] = pending[Purger][r]
    BY Written DEF Purged
<1>2. UNCHANGED db /\ \A q \in Transactions \ {Purger} : pending'[q] = pending[q]
    BY DEF Purged, Untouched
<1>b. \A q \in Transactions \ {Purger} : \A y \in DOMAIN pending[q] :
          User(i) \in DOMAIN w => ~ChildOf(y, pending[q][y], i)
    <2> SUFFICES ASSUME NEW q \in Transactions \ {Purger}, NEW y \in DOMAIN pending[q],
                        User(i) \in DOMAIN w, ChildOf(y, pending[q][y], i)
                 PROVE  FALSE
        OBVIOUS
    <2>1. w[User(i)] = Absent
        BY <1>0
    <2>2. q \in Blockers(Purger, w)
        <3> HIDE DEF w
        <3> QED BY <1>i, <2>1 DEF Blockers
    <2> QED BY <2>2 DEF Purged
<1> HIDE DEF w, before
<1>4. \A r \in Rows : View(Purger)'[r] = IF r \in DOMAIN w THEN Absent ELSE before[r]
    BY <1>p, <1>0, <1>1, <1>2, Seen, SeenNext DEF before
<1>7. Unique(db)' /\ Owned(db)'
    BY <1>2 DEF Schema, Unique, Owned
<1>8. Apart'
    <2> SUFFICES ASSUME NEW q1 \in Transactions, NEW q2 \in Transactions, q1 # q2,
                        NEW r \in DOMAIN pending'[q1], NEW s \in DOMAIN pending'[q2]
                 PROVE  /\ Keys(r, pending'[q1][r]) \intersect Keys(s, pending'[q2][s]) = {}
                        /\ s[1] = "user" /\ pending'[q2][s] = Absent => ~ChildOf(r, pending'[q1][r], s[2])
        BY DEF Apart, ChildOf, Child
    <2>o. r \in DOMAIN pending[q1] /\ s \in DOMAIN pending[q2] =>
              /\ Keys(r, pending[q1][r]) \intersect Keys(s, pending[q2][s]) = {}
              /\ s[1] = "user" /\ pending[q2][s] = Absent => ~ChildOf(r, pending[q1][r], s[2])
        BY DEF Schema, Apart
    <2>1. CASE q1 = Purger /\ r \in DOMAIN w
        BY <1>0, <1>1, <2>1, NoKeys DEF ChildOf
    <2>2. CASE q2 = Purger /\ s \in DOMAIN w
        <3>1. Keys(s, pending'[q2][s]) = {}
            BY <1>0, <1>1, <2>2, NoKeys
        <3>2. s[1] = "user" => s = User(i)
            BY <1>0, <2>2 DEF ChildOf, Child
        <3>3. q1 \in Transactions \ {Purger} /\ pending'[q1] = pending[q1]
            BY <1>2, <2>2
        <3> QED BY <1>b, <1>i, <2>2, <3>1, <3>2, <3>3
    <2>3. CASE ~(q1 = Purger /\ r \in DOMAIN w) /\ ~(q2 = Purger /\ s \in DOMAIN w)
        <3>1. r \in DOMAIN pending[q1] /\ pending'[q1][r] = pending[q1][r]
            BY <1>1, <1>2, <2>3
        <3>2. s \in DOMAIN pending[q2] /\ pending'[q2][s] = pending[q2][s]
            BY <1>1, <1>2, <2>3
        <3> QED BY <2>o, <3>1, <3>2
    <2> QED BY <2>1, <2>2, <2>3
<1>9. ASSUME NEW q \in Transactions PROVE Unique(View(q))' /\ Owned(View(q))'
    <2>1. CASE q # Purger
        <3>1. View(q)' = View(q)
            BY <1>2, <2>1 DEF View
        <3> QED BY <3>1 DEF Schema, Unique, Owned
    <2>2. CASE q = Purger
        <3> DEFINE new == View(Purger)'
        <3>1. Unique(before) /\ Owned(before) /\ Typed(before)
            BY <1>p, Seen DEF Schema, before
        <3> HIDE DEF new
        <3>2. \A r \in Rows : new[r] = IF r \in DOMAIN w THEN Absent ELSE before[r]
            BY <1>4 DEF new
        <3>3. Unique(new)
            BY <3>1, <3>2, NoKeys DEF Unique
        <3>4. Owned(new)
            <4> SUFFICES ASSUME NEW r \in Rows, Child(r), new[r] # Absent
                         PROVE  new[User(new[r].user)] # Absent
                BY DEF Owned, Exists
            <4>1. r \notin DOMAIN w /\ new[r] = before[r]
                BY <3>2
            <4>2. before[r] \in RowsOf(r)
                BY <3>1, <4>1 DEF Typed
            <4>3. PICK u \in Ids : u = before[r].user
                BY <4>2, Parents
            <4>4. before[User(u)] # Absent /\ User(u) \in Rows
                BY <3>1, <4>1, <4>3, Kinds DEF Owned, Exists
            <4>5. u # i
                BY <1>0, <4>1, <4>3 DEF ChildOf, Exists
            <4>6. User(u) \notin DOMAIN w
                BY <1>0, <1>i, <4>5 DEF ChildOf, Child, User
            <4> QED BY <3>2, <4>1, <4>3, <4>4, <4>6
        <3> QED BY <2>2, <3>3, <3>4 DEF new
    <2> QED BY <2>1, <2>2
<1> QED BY <1>7, <1>8, <1>9 DEF Schema

LEMMA SchemaCommits ==
    ASSUME Inv, Inv', Schema, NEW p \in Transactions, Commit(p)
    PROVE  Schema'
<1> DEFINE mid == View(p)
<1>1. db' = mid /\ pending'[p] = Nothing /\ \A q \in Transactions \ {p} : pending'[q] = pending[q]
    BY EndsFrame DEF Commit, Inv, Untouched
<1>2. Unique(mid) /\ Owned(mid) /\ Typed(mid)
    BY Seen DEF Schema
<1>3. \A r \in Rows : mid[r] = IF r \in DOMAIN pending[p] THEN pending[p][r] ELSE db[r]
    BY Seen
<1> HIDE DEF mid
<1>4. Unique(db)' /\ Owned(db)'
    BY <1>1, <1>2 DEF Unique, Owned
<1>5. Apart'
    BY <1>1, EmptyOverlay DEF Schema, Apart
<1>6. ASSUME NEW q \in Transactions PROVE Unique(View(q))' /\ Owned(View(q))'
    <2> DEFINE new == View(q)'
               old == View(q)
               w == pending[q]
    <2>1. CASE q = p
        <3>1. \A r \in Rows : new[r] = mid[r]
            BY <1>1, <2>1, SeenNext, EmptyOverlay
        <3> HIDE DEF new
        <3>2. Unique(new)
            BY <1>2, <3>1 DEF Unique
        <3>3. Owned(new)
            BY <1>2, <3>1, Parents DEF Owned, Typed, Exists
        <3> QED BY <3>2, <3>3 DEF new
    <2>2. CASE q # p
        <3>1. \A r \in Rows : new[r] = IF r \in DOMAIN w THEN w[r] ELSE mid[r]
            BY <1>1, <2>2, SeenNext
        <3>2. \A r \in Rows : old[r] = IF r \in DOMAIN w THEN w[r] ELSE db[r]
            BY Seen
        <3>3. Unique(old) /\ Owned(old) /\ Typed(old)
            BY Seen DEF Schema
        <3>4. \A r \in DOMAIN w : r \notin DOMAIN pending[p] /\ r \in Rows
            BY <2>2, Seen DEF Inv, Data, Exclusive
        <3>5. \A r \in DOMAIN w, s \in DOMAIN pending[p] :
                  /\ Keys(r, w[r]) \intersect Keys(s, pending[p][s]) = {}
                  /\ s[1] = "user" /\ pending[p][s] = Absent => ~ChildOf(r, w[r], s[2])
                  /\ r[1] = "user" /\ w[r] = Absent => ~ChildOf(s, pending[p][s], r[2])
            BY <2>2 DEF Schema, Apart
        <3> HIDE DEF new, old, w
        <3>6. Unique(new)
            <4>1. \A r \in DOMAIN w : \A s \in Rows \ {r} : Keys(r, new[r]) \intersect Keys(s, new[s]) = {}
                <5> SUFFICES ASSUME NEW r \in DOMAIN w, NEW s \in Rows \ {r}
                             PROVE  Keys(r, new[r]) \intersect Keys(s, new[s]) = {}
                    OBVIOUS
                <5>1. Keys(r, old[r]) \intersect Keys(s, old[s]) = {}
                    BY <3>3, <3>4 DEF Unique
                <5>2. CASE s \in DOMAIN pending[p]
                    BY <1>3, <3>1, <3>4, <3>5, <5>2
                <5>3. CASE s \notin DOMAIN pending[p]
                    BY <1>3, <3>1, <3>2, <3>4, <5>1, <5>3
                <5> QED BY <5>2, <5>3
            <4> QED BY <1>2, <3>1, <4>1, UniqueAfter
        <3>7. Owned(new)
            <4> SUFFICES ASSUME NEW r \in Rows, Child(r), new[r] # Absent
                         PROVE  new[User(new[r].user)] # Absent
                BY DEF Owned, Exists
            <4>1. new[r] \in RowsOf(r)
                BY <1>2, <3>1, <3>2, <3>3, <3>4 DEF Typed
            <4>2. PICK u \in Ids : u = new[r].user
                BY <4>1, Parents
            <4>u. User(u) \in Rows /\ User(u)[1] = "user" /\ User(u)[2] = u
                BY Kinds DEF User
            <4>3. CASE r \in DOMAIN w
                <5>1. new[r] = w[r] /\ old[r] = w[r]
                    BY <3>1, <3>2, <4>3
                <5>2. old[User(u)] # Absent
                    BY <3>3, <4>2, <5>1 DEF Owned, Exists
                <5>3. User(u) \in DOMAIN pending[p] => pending[p][User(u)] # Absent
                    BY <3>5, <4>2, <4>3, <4>u, <5>1 DEF ChildOf
                <5> QED BY <1>3, <3>1, <3>2, <4>2, <4>u, <5>2, <5>3
            <4>4. CASE r \notin DOMAIN w
                <5>1. new[r] = mid[r] /\ mid[User(u)] # Absent
                    BY <1>2, <3>1, <4>2, <4>4 DEF Owned, Exists
                <5>2. User(u) \in DOMAIN w => w[User(u)] # Absent
                    <6>1. CASE r \in DOMAIN pending[p]
                        BY <1>3, <3>5, <4>2, <4>u, <5>1, <6>1 DEF ChildOf
                    <6>2. CASE r \notin DOMAIN pending[p]
                        <7>1. old[r] = new[r]
                            BY <1>3, <3>2, <4>4, <5>1, <6>2
                        <7>2. old[User(u)] # Absent
                            BY <3>3, <4>2, <7>1 DEF Owned, Exists
                        <7> QED BY <3>2, <4>u, <7>2
                    <6> QED BY <6>1, <6>2
                <5> QED BY <3>1, <4>2, <4>u, <5>1, <5>2
            <4> QED BY <4>3, <4>4
        <3> QED BY <3>6, <3>7 DEF new
    <2> QED BY <2>1, <2>2
<1> QED BY <1>4, <1>5, <1>6 DEF Schema

LEMMA InitSchema == Init => Schema
<1> SUFFICES ASSUME Init PROVE Schema
    OBVIOUS
<1>1. Inv
    BY InitInv
<1>2. Unique(db) /\ Owned(db)
    BY StartAssumption DEF Init
<1>3. \A p \in Transactions : DOMAIN pending[p] = {}
    BY EmptyOverlay DEF Init
<1>4. ASSUME NEW p \in Transactions PROVE Unique(View(p)) /\ Owned(View(p))
    <2> DEFINE t == View(p)
    <2>1. \A r \in Rows : t[r] = db[r]
        BY <1>1, <1>3, Seen
    <2>2. Typed(db)
        BY <1>1, Seen
    <2> HIDE DEF t
    <2>3. Unique(t)
        BY <1>2, <2>1 DEF Unique
    <2>4. Owned(t)
        BY <1>2, <2>1, <2>2, Parents DEF Owned, Typed, Exists
    <2> QED BY <2>3, <2>4 DEF t
<1> QED BY <1>2, <1>3, <1>4 DEF Schema, Apart

LEMMA SchemaKeeps == Inv /\ Inv' /\ Schema /\ [Next]_vars => Schema'
<1> SUFFICES ASSUME Inv, Inv', Schema, [Next]_vars PROVE Schema'
    OBVIOUS
<1>1. CASE Rest
    BY <1>1, SchemaStays DEF Rest
<1>2. ASSUME NEW p \in Transactions, Stop(p) PROVE Schema'
    <2>1. UNCHANGED db /\ pending'[p] = Nothing /\ \A q \in Transactions \ {p} : pending'[q] = pending[q]
        BY <1>2, EndsFrame DEF Stop, Inv, Untouched
    <2> QED BY <2>1, SchemaStays
<1>3. ASSUME NEW p \in Transactions, Look(p) PROVE Schema'
    BY <1>3, SchemaStays DEF Look
<1>4. ASSUME NEW p \in Transactions, Commit(p) PROVE Schema'
    BY <1>4, SchemaCommits
<1>5. ASSUME NEW p \in Requests \union {Reminder}, Wrote(p) PROVE Schema'
    <2>1. p \in Writers
        BY JobsApart DEF Writers, Transactions
    <2> QED BY <1>5, <2>1, SchemaWrites
<1>6. ASSUME NEW i \in Ids, Purged(i) PROVE Schema'
    BY <1>6, SchemaPurges
<1> QED BY <1>1, <1>2, <1>3, <1>4, <1>5, <1>6, Moves

-----------------------------------------------------------------------------
(* What becomes of an account. *)

\* An account of the start, or of a request that is done.
Past(i) == i \in Requests => pc[i] = "done"

LEMMA DoneStaysDone ==
    ASSUME Inv, [Next]_vars, NEW i \in Ids, Past(i)
    PROVE  Past(i)'
<1> SUFFICES ASSUME i \in Requests, pc[i] = "done" PROVE pc'[i] = "done"
    BY DEF Past
<1>t. i \in Transactions /\ i # Purger /\ i # Reminder
    BY JobsApart DEF Transactions
<1>1. ASSUME NEW p \in Transactions, \A q \in Transactions \ {p} : Untouched(q), p # i PROVE pc'[i] = "done"
    BY <1>t, <1>1 DEF Untouched
<1>2. ASSUME NEW p \in Transactions, Ends(p) PROVE pc'[i] = "done"
    BY <1>1, <1>2, EndsFrame DEF Inv
<1>3. CASE Rest
    BY <1>3 DEF Rest
<1>4. ASSUME NEW p \in Transactions, Stop(p) \/ Look(p) \/ Commit(p) PROVE pc'[i] = "done"
    BY <1>1, <1>2, <1>4, Committed DEF Stop, Look
<1>5. ASSUME NEW p \in Requests, Wrote(p), <<pc[p], pc'[p]>> \in Edges PROVE pc'[i] = "done"
    <2>1. p \in Transactions /\ p # i
        BY <1>5 DEF Transactions, Edges
    <2> QED BY <1>1, <1>5, <2>1 DEF Wrote
<1>6. CASE Wrote(Reminder) \/ \E j \in Ids : Purged(j)
    BY <1>1, <1>6, <1>t, JobsApart DEF Wrote, Purged
<1> QED BY <1>3, <1>4, <1>5, <1>6, Moves

LEMMA GoneStaysGone ==
    ASSUME Inv, [Next]_vars, NEW i \in Ids
    PROVE  /\ Past(i) /\ ~Exists(db, User(i)) => ~Exists(db', User(i))
           /\ Past(i) /\ ~Live(db, User(i)) => ~Live(db', User(i))
<1>1. CASE UNCHANGED db
    BY <1>1 DEF Exists, Live
<1>2. ASSUME NEW p \in Transactions, Commit(p), User(i) \in DOMAIN pending[p], Past(i), ~Live(db, User(i))
      PROVE  db'[User(i)] = Absent \/ (Dead(db[User(i)]) /\ ~db'[User(i)].live)
    <2>1. db'[User(i)] = pending[p][User(i)] /\ pc[p] = "commit"
        BY <1>2, Committed, Kinds
    <2>2. CASE p = Purger
        BY <1>2, <2>1, <2>2, Seen
    <2>3. CASE p # Purger
        <3>1. db[User(i)] # Absent
            BY <1>2, <2>1 DEF Inv, Data, OwnRows, Exists, Past
        <3> QED BY <1>2, <2>1, <2>3, <3>1 DEF Inv, Data, UserWrites, Writers, StillDead, Dead, Live
    <2> QED BY <2>2, <2>3
<1>3. ASSUME NEW p \in Transactions, Commit(p), User(i) \notin DOMAIN pending[p]
      PROVE  db'[User(i)] = db[User(i)]
    BY <1>3, Committed, Kinds
<1> QED BY <1>1, <1>2, <1>3, OnlyCommits DEF Exists, Live, Dead

-----------------------------------------------------------------------------
(* The reminders: what a run has sent is marked when the run commits. *)

\* What the others do leaves the run and its records alone.
Aside ==
    /\ Untouched(Reminder) /\ UNCHANGED <<runs, notified>> /\ clock <= clock'
    /\ UNCHANGED db \/ \E p \in Transactions \ {Reminder} : Commit(p)

LEMMA RequestAside ==
    ASSUME NEW p \in Requests, RequestStep(p) \/ RequestDies(p) \/ \E c \in plan.asks : Begin(p, c)
    PROVE  UNCHANGED <<clock, runs, notified>> /\ (UNCHANGED db \/ Commit(p))
<1>1. CASE FindSubject(p) \/ FindEmail(p) \/ TargetExists(p) \/ IsFirst(p) \/ GetTarget(p) \/ FindActive(p)
           \/ DeleteAgain(p) \/ LoginEmail(p) \/ RequestDies(p)
    BY <1>1 DEF FindSubject, FindEmail, TargetExists, IsFirst, GetTarget, FindActive, DeleteAgain,
           LoginEmail, RequestDies, world, reminders
<1>2. CASE CheckLimit(p) \/ ResetLimit(p) \/ (\E right \in BOOLEAN : Verify(p, right)) \/ Commit(p)
    BY <1>2 DEF CheckLimit, ResetLimit, Verify, Commit, world, reminders
<1>3. ASSUME NEW next, Statement(p, next) PROVE UNCHANGED <<clock, runs, notified, db>>
    BY <1>3 DEF Statement, world, reminders
<1>4. CASE InsertUser(p) \/ InsertIdentity(p) \/ Rename(p) \/ Delete(p) \/ RetireCredentials(p)
           \/ Register(p) \/ Unregister(p) \/ Add(p) \/ Remove(p) \/ Clear(p) \/ Set(p)
    BY <1>3, <1>4 DEF InsertUser, InsertIdentity, Rename, Delete, RetireCredentials, Register, Unregister,
           Add, Remove, Clear, Set
<1>5. CASE \E c \in plan.asks : Begin(p, c)
    BY <1>5 DEF Begin, world, reminders
<1> QED BY <1>1, <1>2, <1>4, <1>5 DEF RequestStep

LEMMA ReminderCases ==
    ASSUME Inv, [Next]_vars
    PROVE  \/ Aside \/ RemindBegins \/ RunFails \/ Commit(Reminder)
           \/ (\E practised \in SUBSET Ids : AtRisk(practised)) \/ GetTokens
           \/ SendSome \/ UnregisterDead \/ MarkSent
<1>p. /\ Purger \in Transactions \ {Reminder} /\ Reminder \in Transactions /\ Requests \subseteq Transactions \ {Reminder}
      /\ clock \in Int
    BY JobsApart DEF Transactions, Inv, Shaped
<1>m. ASSUME NEW p \in Transactions \ {Reminder}, Stop(p) \/ Look(p) \/ Commit(p) \/ Wrote(p) PROVE Untouched(Reminder)
    BY <1>p, <1>m, EndsFrame DEF Inv, Stop, Look, Wrote, Commit
<1>1. CASE UNCHANGED vars
    BY <1>1, <1>p DEF vars, request, reminders, Aside, Untouched
<1>2. CASE Tick
    BY <1>2, <1>p DEF Tick, request, reminders, Aside, Untouched
<1>3. ASSUME NEW p \in Requests, RequestStep(p) \/ RequestDies(p) \/ \E c \in plan.asks : Begin(p, c) PROVE Aside
    <2>1. Stop(p) \/ Look(p) \/ Commit(p) \/ Wrote(p)
        BY <1>3, RequestMoves
    <2>2. UNCHANGED <<clock, runs, notified>> /\ (UNCHANGED db \/ Commit(p))
        BY <1>3, RequestAside
    <2> QED BY <1>m, <1>p, <2>1, <2>2 DEF Aside
<1>4. CASE PurgerStep \/ PurgeDies
    <2>1. Untouched(Reminder)
        <3>1. CASE \E i \in Ids : Purged(i)
            BY <1>p, <3>1 DEF Purged
        <3> QED BY <1>4, <1>m, <1>p, <3>1, PurgerMoves
    <2>2. UNCHANGED <<clock, runs, notified>> /\ (UNCHANGED db \/ Commit(Purger))
        BY <1>4 DEF PurgerStep, PurgeDies, DueForPurge, PurgeNext, Commit, world, reminders
    <2> QED BY <1>p, <2>1, <2>2 DEF Aside
<1>5. ASSUME NEW p \in Transactions, BreakDeadlock(p) PROVE Aside \/ RunFails
    <2>1. CASE p = Reminder
        BY <1>5, <2>1 DEF BreakDeadlock
    <2>2. CASE p # Reminder
        <3>1. Ends(p) /\ UNCHANGED <<clock, runs, notified, db>>
            BY <1>5, <2>2 DEF BreakDeadlock, world, reminders
        <3> QED BY <1>p, <2>2, <3>1, EndsFrame DEF Inv, Aside
    <2> QED BY <2>1, <2>2
<1> QED BY <1>1, <1>2, <1>3, <1>4, <1>5 DEF Next, Progress, ReminderStep, ReminderDies

Running == pc[Reminder] # "idle"
Run == memo[Reminder]

\* What the run has written: devices it retires and, in the end, its users, marked.
ReminderHolds ==
    LET w == pending[Reminder] IN
    /\ pc[Reminder] \notin {"mark_reminded", "commit"} => DOMAIN w = {}
    /\ \A r \in DOMAIN w :
        \/ r[1] = "device"
        \/ /\ pc[Reminder] = "commit" /\ r[1] = "user" /\ Exists(db, r)
           /\ w[r].live = db[r].live /\ w[r].reminded = Run.today
    /\ pc[Reminder] = "commit" => \A i \in Run.risk : User(i) \in DOMAIN w \/ ~Exists(db, User(i))

\* Who a run that goes on may still remind, and who it has reminded.
RunInv ==
    Running =>
        /\ Run.today <= clock
        /\ \A i \in Run.risk : i \in Ids /\ Past(i)
        /\ pc[Reminder] = "send" => \A d \in Run.left : d.user \in Run.risk
        /\ \A a \in notified.sent : a.run = runs =>
               a.user \in Run.risk /\ a.day = Run.today /\ pc[Reminder] \notin {"at_risk", "tokens"}
        /\ \A a \in notified.sent : a.run < runs /\ a.day = Run.today /\ a.user \in Run.risk =>
               a.run \in notified.failed \/ ~Live(db, User(a.user))

\* A reminder of a run that is over is on record, unless that run failed.
OnRecord(a) ==
    /\ a.day <= db[User(a.user)].reminded
    /\ db[User(a.user)].reminded <= IF Running THEN Run.today ELSE clock
SentInv ==
    /\ \E S, F : notified = [sent |-> S, failed |-> F]
    /\ runs \in Nat
    /\ \A a \in notified.sent :
        /\ a.user \in Ids /\ Past(a.user) /\ a.run \in 0 .. runs /\ a.day \in Nat
        /\ \/ Running /\ a.run = runs
           \/ a.run \in notified.failed
           \/ ~Live(db, User(a.user))
           \/ OnRecord(a)
ReminderSafe == ReminderHolds /\ RunInv /\ SentInv /\ RemindedOnce

LEMMA UserFields ==
    ASSUME NEW row \in Users, NEW today \in 0 .. LastTick
    PROVE  LET new == [row EXCEPT !.reminded = today] IN
           /\ new \in Users /\ new # Absent /\ new.live = row.live /\ new.email = row.email
           /\ new.reminded = today
<1>1. Absent \notin Users
    BY ScenariosAssumption
<1> QED BY <1>1 DEF Users

LEMMA DeviceFields ==
    ASSUME NEW row \in Devices
    PROVE  LET new == [row EXCEPT !.live = FALSE] IN new # Absent /\ ~new.live /\ new.user = row.user
<1>1. Absent \notin Devices
    BY ScenariosAssumption
<1> QED BY <1>1 DEF Devices

\* What the two statements of the reminder job write.
LEMMA UnregisterWrites ==
    ASSUME Inv, pc[Reminder] = "unregister_many"
    PROVE  \A r \in DOMAIN WritesOf(Reminder) :
               LET row == WritesOf(Reminder)[r] IN
               /\ r \in Rows /\ r[1] = "device" /\ View(Reminder)[r] # Absent
               /\ row # Absent /\ ~row.live /\ row.user = View(Reminder)[r].user
<1> DEFINE t == View(Reminder)
           w == WritesOf(Reminder)
<1>1. w = UnregisterMany(t)
    BY DEF WritesOf
<1>2. \A r \in DOMAIN w : r \in Rows /\ r[1] = "device" /\ t[r] # Absent /\ w[r] = [t[r] EXCEPT !.live = FALSE]
    BY <1>1 DEF UnregisterMany, Retire, HasToken, Live
<1>3. ASSUME NEW r \in DOMAIN w PROVE w[r] # Absent /\ ~w[r].live /\ w[r].user = t[r].user
    <2> DEFINE row == t[r]
    <2>1. row \in Devices /\ w[r] = [row EXCEPT !.live = FALSE]
        BY <1>2, JobsApart, Seen DEF Typed, RowsOf
    <2> HIDE DEF row, w
    <2>2. w[r] # Absent /\ ~w[r].live /\ w[r].user = row.user
        BY <2>1, DeviceFields
    <2> QED BY <2>2 DEF row
<1> QED BY <1>2, <1>3

LEMMA MarkWrites ==
    ASSUME Inv, pc[Reminder] = "mark_reminded"
    PROVE  /\ \A r \in DOMAIN WritesOf(Reminder) :
                  LET row == WritesOf(Reminder)[r]
                      old == View(Reminder)[r] IN
                  /\ r \in Rows /\ r[1] = "user" /\ old # Absent
                  /\ row # Absent /\ row.live = old.live /\ row.email = old.email
                  /\ row.reminded = Run.today
           /\ \A i \in Run.risk : Exists(View(Reminder), User(i)) => User(i) \in DOMAIN WritesOf(Reminder)
<1> DEFINE t == View(Reminder)
           w == WritesOf(Reminder)
           today == Run.today
           risk == Run.risk
<1>1. w = [r \in {User(i) : i \in {j \in risk : Exists(t, User(j))}} |-> [t[r] EXCEPT !.reminded = today]]
    BY DEF WritesOf, MarkReminded, Run
<1>2. today \in 0 .. LastTick /\ risk \in SUBSET Ids
    BY RunMemos DEF Inv, ReminderInv, Run
<1> HIDE DEF w, today, risk
<1>3. \A i \in risk : Exists(t, User(i)) => User(i) \in DOMAIN w
    BY <1>1
<1>4. ASSUME NEW r \in DOMAIN w
      PROVE  r \in Rows /\ r[1] = "user" /\ t[r] # Absent /\ w[r] = [t[r] EXCEPT !.reminded = today]
    <2>1. PICK i \in risk : Exists(t, User(i)) /\ r = User(i)
        BY <1>1
    <2> QED BY <1>1, <1>2, <2>1, Kinds DEF Exists, User
<1>5. ASSUME NEW r \in DOMAIN w
      PROVE  w[r] # Absent /\ w[r].live = t[r].live /\ w[r].email = t[r].email /\ w[r].reminded = today
    <2> DEFINE row == t[r]
    <2>1. row \in Users /\ w[r] = [row EXCEPT !.reminded = today]
        BY <1>4, JobsApart, Seen DEF Typed, RowsOf
    <2> HIDE DEF row
    <2>2. w[r] # Absent /\ w[r].live = row.live /\ w[r].email = row.email /\ w[r].reminded = today
        BY <1>2, <2>1, UserFields
    <2> QED BY <2>2 DEF row
<1> QED BY <1>3, <1>4, <1>5 DEF w, today, risk

\* Neither retiring devices nor marking users can be refused by an index or a foreign key.
LEMMA ReminderNotRefused ==
    ASSUME Inv, Schema, pc[Reminder] \in {"unregister_many", "mark_reminded"}
    PROVE  ~Refused(Reminder, WritesOf(Reminder))
<1> DEFINE t == View(Reminder)
           w == WritesOf(Reminder)
           after == Over(w, t)
<1>1. Unique(t) /\ Owned(t) /\ Typed(t) /\ DOMAIN t = Rows
    BY JobsApart, Seen, Views DEF Schema, Inv
<1>2. CASE pc[Reminder] = "unregister_many"
    <2>1. \A r \in DOMAIN w : /\ r \in Rows /\ r[1] = "device" /\ t[r] # Absent
                             /\ w[r] # Absent /\ ~w[r].live /\ w[r].user = t[r].user
        BY <1>2, UnregisterWrites
    <2> HIDE DEF w, t
    <2>2. \A r \in Rows : after[r] = IF r \in DOMAIN w THEN w[r] ELSE t[r]
        BY <1>1 DEF Over
    <2>3. ASSUME NEW r \in DOMAIN w PROVE Keys(r, after[r]) = {} /\ after[User(after[r].user)] # Absent
        <3>1. after[r] = w[r] /\ r \in Rows /\ Child(r)
            BY <2>1, <2>2 DEF Child
        <3>2. t[User(t[r].user)] # Absent /\ t[r] \in RowsOf(r)
            BY <1>1, <2>1, <3>1 DEF Owned, Exists, Typed
        <3>3. User(t[r].user) \in Rows /\ User(t[r].user)[1] = "user"
            BY <3>1, <3>2, Parents DEF User
        <3>4. User(t[r].user) \notin DOMAIN w
            BY <2>1, <3>3
        <3> QED BY <2>1, <2>2, <3>1, <3>2, <3>3, <3>4, NoKeys
    <2> QED BY <2>3 DEF Refused, w, t
<1>3. CASE pc[Reminder] = "mark_reminded"
    <2>1. \A r \in DOMAIN w : /\ r \in Rows /\ r[1] = "user" /\ t[r] # Absent
                             /\ w[r] # Absent /\ w[r].live = t[r].live /\ w[r].email = t[r].email
        BY <1>3, MarkWrites
    <2> HIDE DEF w, t
    <2>2. \A r \in DOMAIN w : Keys(r, w[r]) = Keys(r, t[r])
        BY <2>1 DEF Keys, UserKeys
    <2>3. \A r \in Rows : after[r] = IF r \in DOMAIN w THEN w[r] ELSE t[r]
        BY <1>1 DEF Over
    <2>4. \A r \in Rows : Keys(r, after[r]) = Keys(r, t[r])
        BY <2>2, <2>3
    <2>5. \A r \in DOMAIN w : r \in Rows /\ ~Child(r)
        BY <2>1 DEF Child
    <2> QED BY <1>1, <2>4, <2>5 DEF Refused, Unique, w, t
<1> QED BY <1>2, <1>3

\* What a request writes in the table of users.
LEMMA UserStatements ==
    ASSUME Inv, NEW p \in Requests, NEW next, <<pc[p], next>> \in Edges, NEW i \in Ids,
           User(i) \in DOMAIN WritesOf(p)
    PROVE  LET new == WritesOf(p)[User(i)]
               old == View(p)[User(i)] IN
           \/ pc[p] = "create_user" /\ i = p
           \/ /\ pc[p] \in {"rename", "soft_delete"} /\ i = cmd[p].user /\ Live(View(p), User(i))
              /\ new.reminded = old.reminded
              /\ pc[p] = "rename" => new = old
<1> DEFINE w == WritesOf(p)
           t == View(p)
<1>u. /\ User(i)[1] = "user" /\ \A j : (User(j) = User(i) => j = i)
      /\ \A j : User(i) \notin {Identity(j), Device(j), Target(j)}
    BY DEF User, Identity, Device, Target
<1>1. CASE pc[p] = "create_user"
    BY <1>1, <1>u DEF WritesOf, CreateUser, Put
<1>2. CASE pc[p] = "rename"
    BY <1>2, <1>u, EmptyOverlay DEF WritesOf, UpdateNickname, Put
<1>3. CASE pc[p] = "soft_delete"
    <2>1. /\ Live(t, User(cmd[p].user)) /\ i = cmd[p].user
          /\ w[User(i)] = [t[User(i)] EXCEPT !.live = FALSE, !.deleted_at = begun[p]]
        BY <1>3, <1>u, EmptyOverlay DEF WritesOf, SoftDelete, Put
    <2> DEFINE row == t[User(i)]
    <2>2. row \in Users
        BY <2>1, <1>3, InHand, Kinds DEF Live
    <2> HIDE DEF row
    <2>3. [row EXCEPT !.live = FALSE, !.deleted_at = begun[p]].reminded = row.reminded
        BY <2>2 DEF Users
    <2> QED BY <1>3, <2>1, <2>3 DEF row
<1>4. CASE pc[p] \in {"add_identity", "retire_identities", "retire_devices"}
    BY <1>4, <1>u DEF WritesOf, AddIdentity, Put, RetireIdentities, RetireDevices, Retire
<1>5. CASE pc[p] \in {"register_device", "unregister_device"}
    BY <1>5, <1>u DEF WritesOf, RegisterDevice, UnregisterDevice, Put, HasToken, Retire
<1>6. CASE pc[p] = "add_target"
    BY <1>6, <1>u DEF WritesOf, AddTarget, Put
<1>7. CASE pc[p] \in {"remove_target", "set_active"}
    BY <1>7, <1>u, EmptyOverlay DEF WritesOf, RemoveTarget, SetActive, Put
<1>8. CASE pc[p] = "clear_active"
    BY <1>8, <1>u DEF WritesOf, ClearActive, LiveTargets
<1> QED BY <1>1, <1>2, <1>3, <1>4, <1>5, <1>6, <1>7, <1>8 DEF Edges

\* No request changes when a user was last reminded.
KeepsMark ==
    \A p \in Requests : \A i \in Ids :
        User(i) \in DOMAIN pending[p] /\ Exists(db, User(i)) =>
            pending[p][User(i)].reminded = db[User(i)].reminded

LEMMA KeepsMarkKeeps == Inv /\ KeepsMark /\ [Next]_vars => KeepsMark'
<1> SUFFICES ASSUME Inv, KeepsMark, [Next]_vars, NEW p \in Requests, NEW i \in Ids,
                    User(i) \in DOMAIN pending'[p], db'[User(i)] # Absent
             PROVE  pending'[p][User(i)].reminded = db'[User(i)].reminded
    BY DEF KeepsMark, Exists
<1>p. p \in Transactions /\ p # Purger /\ p # Reminder
    BY JobsApart DEF Transactions
<1>1. ASSUME pending'[p] = pending[p], db'[User(i)] = db[User(i)]
      PROVE  pending'[p][User(i)].reminded = db'[User(i)].reminded
    BY <1>1 DEF KeepsMark, Exists
<1>2. CASE Rest \/ \E q \in Transactions : Look(q)
    BY <1>1, <1>2 DEF Rest, Look
<1>3. ASSUME NEW q \in Transactions, Stop(q) \/ Commit(q)
      PROVE  pending'[p][User(i)].reminded = db'[User(i)].reminded
    <2>1. Ends(q)
        BY <1>3, Committed DEF Stop
    <2>2. q # p /\ pending'[p] = pending[p]
        BY <1>p, <2>1, EndsFrame, EmptyOverlay DEF Inv, Untouched
    <2>3. db'[User(i)] = db[User(i)]
        BY <1>3, <1>p, <2>2, Committed DEF Stop
    <2> QED BY <1>1, <2>2, <2>3
<1>4. CASE Wrote(Reminder) \/ \E j \in Ids : Purged(j)
    BY <1>1, <1>4, <1>p DEF Wrote, Purged, Untouched
<1>5. ASSUME NEW q \in Requests, Wrote(q), <<pc[q], pc'[q]>> \in Edges
      PROVE  pending'[p][User(i)].reminded = db'[User(i)].reminded
    <2>1. CASE q # p
        BY <1>1, <1>5, <1>p, <2>1 DEF Wrote, Untouched
    <2>2. CASE q = p
        <3>1. /\ DOMAIN pending'[p] = DOMAIN pending[p] \union DOMAIN WritesOf(p)
              /\ \A r \in DOMAIN WritesOf(p) : pending'[p][r] = WritesOf(p)[r]
              /\ \A r \in DOMAIN pending[p] : r \notin DOMAIN WritesOf(p) => pending'[p][r] = pending[p][r]
            BY <1>5, <2>2, Written DEF Wrote
        <3>2. db' = db
            BY <1>5 DEF Wrote
        <3>3. CASE User(i) \notin DOMAIN WritesOf(p)
            BY <3>1, <3>2, <3>3 DEF KeepsMark, Exists
        <3>4. CASE User(i) \in DOMAIN WritesOf(p)
            <4>1. ~(pc[p] = "create_user" /\ i = p)
                BY <3>2 DEF Inv, Request, Fresh, Exists
            <4>2. WritesOf(p)[User(i)].reminded = View(p)[User(i)].reminded
                BY <1>5, <2>2, <3>4, <4>1, UserStatements
            <4>3. View(p)[User(i)].reminded = db[User(i)].reminded
                BY <1>p, <3>2, Seen, Kinds DEF KeepsMark, Exists
            <4> QED BY <3>1, <3>2, <3>4, <4>2, <4>3
        <3> QED BY <3>3, <3>4
    <2> QED BY <2>1, <2>2
<1> QED BY <1>2, <1>3, <1>4, <1>5, Moves

\* A past account that is still live was live, and was last reminded, as before.
LEMMA AsideUsers ==
    ASSUME Inv, KeepsMark, [Next]_vars, Aside, NEW i \in Ids, Past(i), Live(db', User(i))
    PROVE  Live(db, User(i)) /\ db'[User(i)].reminded = db[User(i)].reminded
<1>1. Live(db, User(i))
    BY GoneStaysGone
<1>2. ASSUME NEW p \in Transactions \ {Reminder}, Commit(p), User(i) \in DOMAIN pending[p]
      PROVE  db'[User(i)].reminded = db[User(i)].reminded
    <2>1. db'[User(i)] = pending[p][User(i)]
        BY <1>2, Committed, Kinds
    <2>2. p \in Requests
        BY <1>2, <2>1, Seen DEF Live, Transactions, Jobs
    <2> QED BY <1>1, <1>2, <2>1, <2>2 DEF KeepsMark, Live, Exists
<1>3. ASSUME NEW p \in Transactions \ {Reminder}, Commit(p), User(i) \notin DOMAIN pending[p]
      PROVE  db'[User(i)] = db[User(i)]
    BY <1>3, Committed, Kinds
<1> QED BY <1>1, <1>2, <1>3 DEF Aside

-----------------------------------------------------------------------------
(* The steps of a run, and the steps beside it. *)

LEMMA RunFields ==
    ASSUME NEW m, RunMemo(m), NEW a, NEW b
    PROVE  /\ [m EXCEPT !.risk = a].today = m.today /\ [m EXCEPT !.risk = a].risk = a
           /\ [m EXCEPT !.left = a].today = m.today /\ [m EXCEPT !.left = a].risk = m.risk
           /\ [m EXCEPT !.left = a].left = a
           /\ [m EXCEPT !.left = a, !.dead = b].today = m.today
           /\ [m EXCEPT !.left = a, !.dead = b].risk = m.risk
           /\ [m EXCEPT !.left = a, !.dead = b].left = a
           /\ m.today \in 0 .. LastTick /\ m.risk \subseteq Ids
<1>1. PICK today, risk, left, dead :
          /\ today \in 0 .. LastTick /\ risk \in SUBSET Ids
          /\ m = [today |-> today, risk |-> risk, left |-> left, dead |-> dead]
    BY DEF RunMemo
<1> QED BY <1>1

\* When a user was last reminded is a number.
LEMMA MarksAreDays ==
    ASSUME Inv, NEW i \in Ids, Live(db, User(i))
    PROVE  db[User(i)].reminded \in Int
<1>1. db[User(i)] \in Users
    BY Kinds DEF Live, Inv, Data, RowsTyped
<1> QED BY <1>1 DEF Users

LEMMA AsideKeeps ==
    ASSUME Inv, KeepsMark, [Next]_vars, Aside, ReminderSafe
    PROVE  ReminderSafe'
<1> USE DEF ReminderSafe
<1>1. /\ pending'[Reminder] = pending[Reminder] /\ pc'[Reminder] = pc[Reminder] /\ Run' = Run
      /\ UNCHANGED <<runs, notified>> /\ clock <= clock' /\ Running' = Running
    BY DEF Aside, Untouched, Run, Running
<1>2. \A r \in DOMAIN pending[Reminder] : db'[r] = db[r]
    BY JobsApart, Committed DEF Aside
<1>3. \A i \in Ids : Past(i) =>
          /\ Past(i)' /\ (~Exists(db, User(i)) => ~Exists(db', User(i)))
          /\ ~Live(db, User(i)) => ~Live(db', User(i))
          /\ Live(db', User(i)) => db'[User(i)].reminded = db[User(i)].reminded
    BY DoneStaysDone, GoneStaysGone, AsideUsers
<1>c. clock \in Int /\ clock' \in Int
    BY NextKeeps DEF Inv, Shaped
<1>t. Running => Run.today \in Int /\ Run.risk \subseteq Ids
    BY RunFields DEF Inv, ReminderInv, Running, Run
<1>4. ReminderHolds'
    <2>1. pc[Reminder] = "commit" => \A i \in Run.risk : i \in Ids /\ Past(i)
        BY DEF RunInv, Running
    <2> QED BY <1>1, <1>2, <1>3, <2>1 DEF ReminderHolds, Exists
<1>5. RunInv'
    <2>1. \A a \in notified.sent : a.user \in Ids /\ Past(a.user)
        BY DEF SentInv
    <2>2. Running => Run.today <= clock'
        BY <1>1, <1>c, <1>t DEF RunInv
    <2> QED BY <1>1, <1>3, <2>1, <2>2 DEF RunInv
<1>6. SentInv'
    <2> SUFFICES ASSUME NEW a \in notified.sent
                 PROVE  /\ a.user \in Ids /\ Past(a.user)' /\ a.run \in 0 .. runs /\ a.day \in Nat
                        /\ \/ Running /\ a.run = runs
                           \/ a.run \in notified.failed
                           \/ ~Live(db', User(a.user))
                           \/ OnRecord(a)'
        BY <1>1 DEF SentInv
    <2>1. /\ a.user \in Ids /\ Past(a.user) /\ a.run \in 0 .. runs /\ a.day \in Nat
          /\ \/ Running /\ a.run = runs
             \/ a.run \in notified.failed
             \/ ~Live(db, User(a.user))
             \/ OnRecord(a)
        BY DEF SentInv
    <2>2. CASE OnRecord(a) /\ Live(db', User(a.user))
        <3>1. /\ db'[User(a.user)].reminded = db[User(a.user)].reminded
              /\ db[User(a.user)].reminded \in Int
            BY <1>3, <2>1, <2>2, MarksAreDays
        <3> DEFINE mark == db[User(a.user)].reminded
        <3>2. a.day <= mark /\ (Running => mark <= Run.today) /\ (~Running => mark <= clock)
            BY <2>2 DEF OnRecord
        <3>3. ~Running => mark <= clock'
            <4> HIDE DEF mark
            <4> QED BY <1>1, <1>c, <3>1, <3>2 DEF mark
        <3>4. OnRecord(a)'
            <4>1. CASE Running
                BY <1>1, <3>1, <3>2, <4>1 DEF OnRecord
            <4>2. CASE ~Running
                BY <1>1, <3>1, <3>2, <3>3, <4>2 DEF OnRecord
            <4> QED BY <4>1, <4>2
        <3> QED BY <1>3, <2>1, <3>4
    <2> QED BY <1>3, <2>1, <2>2
<1>7. RemindedOnce'
    <2>1. \A a \in notified.sent : a.user \in Ids /\ Past(a.user)
        BY DEF SentInv
    <2> QED BY <1>1, <1>3, <2>1 DEF RemindedOnce
<1> QED BY <1>4, <1>5, <1>6, <1>7

LEMMA RunBegins ==
    ASSUME Inv, ReminderSafe, RemindBegins
    PROVE  ReminderSafe'
<1> USE DEF ReminderSafe
<1>1. /\ pc[Reminder] = "idle" /\ pc'[Reminder] = "at_risk" /\ runs' = runs + 1
      /\ memo'[Reminder] = [today |-> clock, risk |-> {}, left |-> {}, dead |-> {}]
      /\ UNCHANGED <<db, clock, pending, notified>>
      /\ \A q \in Requests : pc'[q] = pc[q]
    BY JobsApart DEF RemindBegins, Goto, Recall, Inv, Shaped
<1>2. ~Running /\ Running' /\ Run'.today = clock /\ Run'.risk = {} /\ clock \in Int
    BY <1>1 DEF Running, Run, Inv, Shaped
<1>3. \A a \in notified.sent : a.run \in 0 .. runs /\ runs \in Nat /\ a.run # runs'
    BY <1>1 DEF SentInv
<1>4. ReminderHolds'
    BY <1>1 DEF ReminderHolds
<1>5. RunInv'
    BY <1>1, <1>2, <1>3 DEF RunInv
<1>6. SentInv'
    <2>1. runs' \in Nat /\ \A a \in notified.sent : a.run \in 0 .. runs'
        BY <1>1 DEF SentInv
    <2>2. \A i : Past(i) => Past(i)'
        BY <1>1 DEF Past
    <2>3. \A a \in notified.sent : OnRecord(a) => OnRecord(a)'
        BY <1>1, <1>2 DEF OnRecord
    <2> QED BY <1>1, <1>2, <2>1, <2>2, <2>3 DEF SentInv
<1>7. RemindedOnce'
    BY <1>1 DEF RemindedOnce
<1> QED BY <1>4, <1>5, <1>6, <1>7

\* A run that is over without a commit: it sent nothing, or it failed.
LEMMA RunStops ==
    ASSUME Inv, ReminderSafe, Ends(Reminder), UNCHANGED <<db, clock, runs>>,
           notified'.sent = notified.sent, notified.failed \subseteq notified'.failed,
           \E S, F : notified' = [sent |-> S, failed |-> F],
           \A a \in notified.sent : Running /\ a.run = runs => a.run \in notified'.failed
    PROVE  ReminderSafe'
<1> USE DEF ReminderSafe
<1>1. /\ pc'[Reminder] = "idle" /\ pending'[Reminder] = Nothing
      /\ \A q \in Requests : pc'[q] = pc[q]
    <2>1. \A q \in Requests : q \in Transactions \ {Reminder}
        BY JobsApart DEF Transactions
    <2> QED BY <2>1, EndsFrame, JobsApart DEF Inv, Untouched
<1>2. ~Running' /\ clock \in Int
    BY <1>1 DEF Running, Inv, Shaped
<1>3. Running => Run.today \in Int /\ Run.today <= clock
    BY RunFields DEF Inv, ReminderInv, RunInv, Running, Run
<1>4. ReminderHolds'
    BY <1>1, EmptyOverlay DEF ReminderHolds
<1>5. RunInv'
    BY <1>2 DEF RunInv
<1>6. SentInv'
    <2>1. \A i : Past(i) => Past(i)'
        BY <1>1 DEF Past
    <2>2. ASSUME NEW a \in notified.sent, OnRecord(a), Live(db, User(a.user)) PROVE OnRecord(a)'
        <3> DEFINE mark == db[User(a.user)].reminded
        <3>1. mark \in Int
            BY <2>2, MarksAreDays DEF SentInv
        <3>2. a.day <= mark /\ (Running => mark <= Run.today) /\ (~Running => mark <= clock)
            BY <2>2 DEF OnRecord
        <3>3. mark <= clock
            <4> HIDE DEF mark
            <4> QED BY <1>2, <1>3, <3>1, <3>2
        <3> QED BY <1>2, <3>2, <3>3 DEF OnRecord
    <2> QED BY <1>2, <2>1, <2>2 DEF SentInv
<1>7. RemindedOnce'
    BY DEF RemindedOnce
<1> QED BY <1>4, <1>5, <1>6, <1>7

LEMMA RunFailing == ASSUME Inv, ReminderSafe, RunFails PROVE ReminderSafe'
<1>1. /\ Ends(Reminder) /\ UNCHANGED <<db, clock, runs>>
      /\ notified' = [notified EXCEPT !.failed = @ \union {runs}]
    BY DEF RunFails
<1>2. PICK S, F : notified = [sent |-> S, failed |-> F]
    BY DEF ReminderSafe, SentInv
<1>3. notified' = [sent |-> S, failed |-> F \union {runs}]
    BY <1>1, <1>2
<1> QED BY <1>1, <1>2, <1>3, RunStops

\* A run that read who is at risk, or which devices they have, and goes on.
LEMMA RunReads ==
    ASSUME Inv, ReminderSafe, UNCHANGED <<db, clock, runs, pending, notified>>,
           pc[Reminder] \in {"at_risk", "tokens"}, pc'[Reminder] \in {"tokens", "send"},
           \A q \in Requests : pc'[q] = pc[q],
           Run'.today = Run.today,
           \A i \in Run'.risk : /\ i \in Ids /\ Past(i)
                                /\ pc[Reminder] = "tokens" => i \in Run.risk
                                /\ pc[Reminder] = "at_risk" =>
                                       i \notin {j \in Ids : Live(db, User(j)) /\ db[User(j)].reminded = Run.today},
           pc'[Reminder] = "send" => \A d \in Run'.left : d.user \in Run'.risk
    PROVE  ReminderSafe'
<1> USE DEF ReminderSafe
<1>1. Running /\ Running' /\ Run.today \in Int
    BY RunFields DEF Inv, ReminderInv, Running, Run
<1>2. \A i : Past(i) => Past(i)'
    BY DEF Past
<1>3. \A a \in notified.sent : a.run # runs
    BY <1>1 DEF RunInv
<1>4. ReminderHolds'
    BY DEF ReminderHolds
<1>5. ASSUME NEW a \in notified.sent, a.day = Run.today, a.user \in Run'.risk
      PROVE  a.run \in notified.failed \/ ~Live(db, User(a.user))
    <2>1. CASE pc[Reminder] = "tokens"
        <3>1. a.run < runs
            BY <1>3 DEF SentInv
        <3> QED BY <1>1, <1>5, <2>1, <3>1 DEF RunInv
    <2>2. CASE pc[Reminder] = "at_risk"
        <3> SUFFICES ASSUME Live(db, User(a.user)), a.run \notin notified.failed PROVE FALSE
            OBVIOUS
        <3>1. OnRecord(a) /\ a.user \in Ids
            BY <1>3 DEF SentInv
        <3>2. db[User(a.user)].reminded \in Int
            BY <3>1, MarksAreDays
        <3>3. db[User(a.user)].reminded = Run.today
            BY <1>1, <1>5, <3>1, <3>2 DEF OnRecord
        <3> QED BY <1>5, <2>2, <3>1, <3>3
    <2> QED BY <2>1, <2>2
<1>6. RunInv'
    <2>1. Run.today <= clock
        BY <1>1 DEF RunInv
    <2> QED BY <1>2, <1>3, <1>5, <2>1 DEF RunInv
<1>7. SentInv'
    <2>1. \A a \in notified.sent : OnRecord(a) => OnRecord(a)'
        BY <1>1 DEF OnRecord
    <2> QED BY <1>1, <1>2, <2>1 DEF SentInv
<1>8. RemindedOnce'
    BY DEF RemindedOnce
<1> QED BY <1>4, <1>6, <1>7, <1>8

LEMMA AtRiskSafe == ASSUME Inv, ReminderSafe, NEW practised \in SUBSET Ids, AtRisk(practised) PROVE ReminderSafe'
<1> DEFINE risk == practised \ AlreadyReminded(memo[Reminder].today)
<1>1. /\ pc[Reminder] = "at_risk" /\ practised \subseteq {i \in Ids : Exists(db, User(i))}
      /\ UNCHANGED <<db, clock, runs, notified>>
      /\ \/ Ends(Reminder)
         \/ Recall(Reminder, [memo[Reminder] EXCEPT !.risk = risk]) /\ Continues(Reminder, "tokens")
    BY DEF AtRisk, world, reminders
<1>r. Running
    BY <1>1 DEF Running
<1>2. CASE Ends(Reminder)
    <2>1. \A a \in notified.sent : a.run # runs
        BY <1>1, <1>r DEF ReminderSafe, RunInv
    <2>2. \E S, F : notified' = [sent |-> S, failed |-> F]
        BY <1>1 DEF ReminderSafe, SentInv
    <2> QED BY <1>1, <1>2, <2>1, <2>2, RunStops
<1>3. CASE Recall(Reminder, [memo[Reminder] EXCEPT !.risk = risk]) /\ Continues(Reminder, "tokens")
    <2>1. /\ pc'[Reminder] = "tokens" /\ pending' = pending /\ Run' = [Run EXCEPT !.risk = risk]
          /\ \A q \in Requests : pc'[q] = pc[q]
        BY <1>3, JobsApart DEF Continues, Goto, Recall, Run, Inv, Shaped
    <2>2. Run'.today = Run.today /\ Run'.risk = risk
        <3> HIDE DEF risk
        <3> QED BY <1>r, <2>1, RunFields DEF Inv, ReminderInv, Running, Run
    <2>3. \A i \in risk : /\ i \in Ids /\ Past(i)
                          /\ i \notin {j \in Ids : Live(db, User(j)) /\ db[User(j)].reminded = Run.today}
        BY <1>1 DEF AlreadyReminded, Run, Past, Inv, Request, Fresh
    <2> HIDE DEF risk
    <2> QED BY <1>1, <2>1, <2>2, <2>3, RunReads
<1> QED BY <1>1, <1>2, <1>3

LEMMA GetTokensSafe == ASSUME Inv, ReminderSafe, GetTokens PROVE ReminderSafe'
<1> DEFINE tokens == TokensOfUsers(memo[Reminder].risk)
<1>1. /\ pc[Reminder] = "tokens" /\ UNCHANGED <<db, clock, runs, notified>>
      /\ \/ Ends(Reminder)
         \/ Recall(Reminder, [memo[Reminder] EXCEPT !.left = tokens]) /\ Continues(Reminder, "send")
    BY DEF GetTokens, world, reminders
<1>r. Running
    BY <1>1 DEF Running
<1>2. CASE Ends(Reminder)
    <2>1. \A a \in notified.sent : a.run # runs
        BY <1>1, <1>r DEF ReminderSafe, RunInv
    <2>2. \E S, F : notified' = [sent |-> S, failed |-> F]
        BY <1>1 DEF ReminderSafe, SentInv
    <2> QED BY <1>1, <1>2, <2>1, <2>2, RunStops
<1>3. CASE Recall(Reminder, [memo[Reminder] EXCEPT !.left = tokens]) /\ Continues(Reminder, "send")
    <2>1. /\ pc'[Reminder] = "send" /\ pending' = pending /\ Run' = [Run EXCEPT !.left = tokens]
          /\ \A q \in Requests : pc'[q] = pc[q]
        BY <1>3, JobsApart DEF Continues, Goto, Recall, Run, Inv, Shaped
    <2>2. Run'.today = Run.today /\ Run'.risk = Run.risk /\ Run'.left = tokens
        <3> HIDE DEF tokens
        <3> QED BY <1>r, <2>1, RunFields DEF Inv, ReminderInv, Running, Run
    <2>3. \A d \in tokens : d.user \in Run.risk
        BY DEF TokensOfUsers, Run
    <2>4. \A i \in Run.risk : i \in Ids /\ Past(i)
        BY <1>r DEF ReminderSafe, RunInv
    <2> HIDE DEF tokens
    <2> QED BY <1>1, <2>1, <2>2, <2>3, <2>4, RunReads
<1> QED BY <1>1, <1>2, <1>3

LEMMA SendSafe ==
    ASSUME Inv, ReminderSafe, NEW chunk, NEW gone, chunk \subseteq Run.left, Send(chunk, gone),
           pc[Reminder] = "send"
    PROVE  ReminderSafe'
<1> USE DEF ReminderSafe
<1> DEFINE new == Sent(chunk \ gone)
           left == Run.left \ chunk
           dead == Run.dead \union {d.token : d \in gone}
<1>1. /\ UNCHANGED <<db, clock, runs, pending>>
      /\ notified' = [notified EXCEPT !.sent = @ \union new]
      /\ Run' = [Run EXCEPT !.left = left, !.dead = dead]
      /\ pc'[Reminder] \in {"send", "unregister_many", "mark_reminded"}
      /\ \A q \in Requests : pc'[q] = pc[q]
    BY JobsApart DEF Send, Goto, Recall, Run, Inv, Shaped
<1>2. Running /\ Running' /\ RunMemo(Run)
    BY <1>1 DEF Running, Run, Inv, ReminderInv
<1>3. Run'.today = Run.today /\ Run'.risk = Run.risk /\ Run'.left = left /\ Run.today \in Nat /\ Run.risk \subseteq Ids
    <2> HIDE DEF left, dead
    <2> QED BY <1>1, <1>2, RunFields DEF Run
<1>4. notified'.sent = notified.sent \union new /\ notified'.failed = notified.failed
      /\ \E S, F : notified' = [sent |-> S, failed |-> F]
    <2>1. PICK S, F : notified = [sent |-> S, failed |-> F]
        BY DEF SentInv
    <2> HIDE DEF new
    <2> QED BY <1>1, <2>1
<1>5. \A a \in new : a.user \in Run.risk /\ a.day = Run.today /\ a.run = runs
    BY <1>2 DEF RunInv, Sent, Run
<1>6. \A i : Past(i) => Past(i)'
    BY <1>1 DEF Past
<1>7. \A a \in notified.sent : OnRecord(a) => OnRecord(a)'
    BY <1>1, <1>2, <1>3 DEF OnRecord
<1>8. runs \in Nat /\ \A a \in notified.sent : a.run \in 0 .. runs
    BY DEF SentInv
<1> HIDE DEF new, left, dead
<1>9. ReminderHolds'
    BY <1>1 DEF ReminderHolds
<1>10. RunInv'
    <2>1. left \subseteq Run.left
        BY DEF left
    <2>2. Run'.today <= clock' /\ \A i \in Run'.risk : i \in Ids /\ Past(i)'
        BY <1>1, <1>2, <1>3, <1>6 DEF RunInv
    <2>3. pc[Reminder]' = "send" => \A d \in Run'.left : d.user \in Run'.risk
        BY <1>2, <1>3, <2>1 DEF RunInv
    <2>4. ASSUME NEW a \in notified'.sent
          PROVE  /\ a.run = runs => a.user \in Run.risk /\ a.day = Run.today
                 /\ a.run < runs /\ a.day = Run.today /\ a.user \in Run.risk =>
                        a.run \in notified.failed \/ ~Live(db, User(a.user))
        BY <1>2, <1>4, <1>5, <1>8 DEF RunInv
    <2>5. \A i : Live(db, User(i))' = Live(db, User(i))
        BY <1>1 DEF Live
    <2> QED BY <1>1, <1>3, <1>4, <2>2, <2>3, <2>4, <2>5 DEF RunInv
<1>11. SentInv'
    <2>1. \A i \in Run.risk : i \in Ids /\ Past(i)
        BY <1>2 DEF RunInv
    <2>2. ASSUME NEW a \in new
          PROVE  a.user \in Ids /\ Past(a.user)' /\ a.run \in 0 .. runs /\ a.day \in Nat /\ a.run = runs
        BY <1>3, <1>5, <1>6, <1>8, <2>1
    <2>3. ASSUME NEW a \in notified.sent
          PROVE  /\ a.user \in Ids /\ Past(a.user)' /\ a.run \in 0 .. runs /\ a.day \in Nat
                 /\ \/ a.run = runs
                    \/ a.run \in notified.failed
                    \/ ~Live(db', User(a.user))
                    \/ OnRecord(a)'
        BY <1>1, <1>6, <1>7 DEF SentInv
    <2> QED BY <1>1, <1>2, <1>4, <1>8, <2>2, <2>3 DEF SentInv
<1>12. RemindedOnce'
    <2> SUFFICES ASSUME NEW a \in notified'.sent, NEW b \in notified'.sent,
                        a.user = b.user, a.day = b.day, a.run < b.run
                 PROVE  a.run \in notified.failed \/ ~Live(db, User(a.user))
        BY <1>1, <1>4 DEF RemindedOnce
    <2>1. CASE a \in new
        BY <1>4, <1>5, <1>8, <2>1
    <2>2. CASE a \in notified.sent /\ b \in new
        BY <1>2, <1>5, <2>2 DEF RunInv
    <2>3. CASE a \in notified.sent /\ b \in notified.sent
        BY <2>3 DEF RemindedOnce
    <2> QED BY <1>4, <2>1, <2>2, <2>3
<1> QED BY <1>9, <1>10, <1>11, <1>12

\* The two statements of a run.
LEMMA RunWrites ==
    ASSUME Inv, Schema, ReminderSafe, NEW next, Statement(Reminder, next),
           <<pc[Reminder], next>> \in JobEdges
    PROVE  /\ Wrote(Reminder) /\ pc'[Reminder] = next
           /\ ReminderHolds' => ReminderSafe'
<1> USE DEF ReminderSafe
<1>j. /\ Reminder \in Transactions /\ Shaped
      /\ \A q \in Requests : q \in Transactions \ {Reminder}
      /\ pc[Reminder] \in {"unregister_many", "mark_reminded"} /\ next \in {"mark_reminded", "commit"}
    BY JobsApart DEF Transactions, Inv, JobEdges
<1>0. ~Refused(Reminder, WritesOf(Reminder))
    BY <1>j, ReminderNotRefused
<1>1. Wrote(Reminder) /\ pc'[Reminder] = next
    <2> DEFINE w == WritesOf(Reminder)
    <2>1. /\ Blockers(Reminder, w) = {} /\ UNCHANGED <<db, beside, memo, request>> /\ Goto(Reminder, next)
          /\ pending' = [pending EXCEPT ![Reminder] = Over(w, pending[Reminder])]
        BY <1>0 DEF Statement, world
    <2> HIDE DEF w
    <2>2. /\ pending'[Reminder] = Over(w, pending[Reminder]) /\ pc'[Reminder] = next
          /\ \A q \in Transactions \ {Reminder} : Untouched(q)
        BY <1>j, <2>1 DEF Shaped, Untouched, Goto, request
    <2> QED BY <1>0, <2>1, <2>2 DEF Wrote, request, w
<1>2. UNCHANGED <<db, clock, runs, notified>> /\ Run' = Run /\ Running /\ Running'
      /\ \A q \in Requests : pc'[q] = pc[q]
    BY <1>1, <1>j DEF Statement, world, reminders, Wrote, Untouched, Run, Running
<1>3. \A i : Past(i) => Past(i)'
    BY <1>2 DEF Past
<1>4. RunInv'
    BY <1>1, <1>2, <1>3, <1>j DEF RunInv
<1>5. SentInv'
    <2>1. \A a \in notified.sent : OnRecord(a) => OnRecord(a)'
        BY <1>2 DEF OnRecord
    <2> QED BY <1>2, <1>3, <2>1 DEF SentInv
<1>6. RemindedOnce'
    BY <1>2 DEF RemindedOnce
<1> QED BY <1>1, <1>4, <1>5, <1>6

LEMMA UnregisterSafe == ASSUME Inv, Schema, ReminderSafe, UnregisterDead PROVE ReminderSafe'
<1>1. pc[Reminder] = "unregister_many" /\ Statement(Reminder, "mark_reminded")
    BY DEF UnregisterDead
<1>2. Wrote(Reminder) /\ pc'[Reminder] = "mark_reminded" /\ (ReminderHolds' => ReminderSafe')
    BY <1>1, RunWrites DEF JobEdges
<1> DEFINE w == WritesOf(Reminder)
<1>3. \A r \in DOMAIN w : r[1] = "device"
    BY <1>1, UnregisterWrites
<1>4. /\ DOMAIN pending'[Reminder] = DOMAIN pending[Reminder] \union DOMAIN w
      /\ \A r \in DOMAIN w : pending'[Reminder][r] = w[r]
      /\ \A r \in DOMAIN pending[Reminder] : r \notin DOMAIN w => pending'[Reminder][r] = pending[Reminder][r]
    BY <1>2, Written DEF Wrote
<1>5. DOMAIN pending[Reminder] = {}
    BY <1>1 DEF ReminderSafe, ReminderHolds
<1> HIDE DEF w
<1>6. ReminderHolds'
    BY <1>2, <1>3, <1>4, <1>5 DEF ReminderHolds
<1> QED BY <1>2, <1>6

LEMMA MarkSafe == ASSUME Inv, Schema, ReminderSafe, MarkSent PROVE ReminderSafe'
<1>1. pc[Reminder] = "mark_reminded" /\ Statement(Reminder, "commit")
    BY DEF MarkSent
<1>2. Wrote(Reminder) /\ pc'[Reminder] = "commit" /\ (ReminderHolds' => ReminderSafe')
    BY <1>1, RunWrites DEF JobEdges
<1> DEFINE w == WritesOf(Reminder)
           t == View(Reminder)
<1>3. /\ \A r \in DOMAIN w : /\ r \in Rows /\ r[1] = "user" /\ t[r] # Absent
                            /\ w[r].live = t[r].live /\ w[r].reminded = Run.today
      /\ \A i \in Run.risk : Exists(t, User(i)) => User(i) \in DOMAIN w
    BY <1>1, MarkWrites
<1>4. /\ DOMAIN pending'[Reminder] = DOMAIN pending[Reminder] \union DOMAIN w
      /\ \A r \in DOMAIN w : pending'[Reminder][r] = w[r]
      /\ \A r \in DOMAIN pending[Reminder] : r \notin DOMAIN w => pending'[Reminder][r] = pending[Reminder][r]
    BY <1>2, Written DEF Wrote
<1>5. \A r \in DOMAIN pending[Reminder] : r[1] = "device"
    BY <1>1 DEF ReminderSafe, ReminderHolds
<1>6. \A r \in Rows : r[1] = "user" => t[r] = db[r]
    BY <1>5, Seen, JobsApart
<1>7. db' = db /\ Run' = Run
    BY <1>2 DEF Wrote, Run
<1>8. \A i \in Run.risk : User(i) \in Rows /\ User(i)[1] = "user"
    <2>1. \A i \in Run.risk : i \in Ids
        BY <1>1 DEF ReminderSafe, RunInv, Running
    <2> QED BY <2>1, Kinds DEF User
<1> HIDE DEF w, t
<1>9. ReminderHolds'
    <2>1. \A r \in DOMAIN w : t[r] = db[r] /\ Exists(db, r)
        BY <1>3, <1>6 DEF Exists
    <2>2. \A i \in Run.risk : Exists(db, User(i)) => User(i) \in DOMAIN w
        BY <1>3, <1>6, <1>8 DEF Exists
    <2>3. \A r \in DOMAIN pending'[Reminder] :
              \/ r[1] = "device"
              \/ /\ r[1] = "user" /\ Exists(db, r)
                 /\ pending'[Reminder][r].live = db[r].live /\ pending'[Reminder][r].reminded = Run.today
        BY <1>3, <1>4, <1>5, <2>1
    <2> QED BY <1>2, <1>4, <1>7, <2>2, <2>3 DEF ReminderHolds, Exists
<1> QED BY <1>2, <1>9

LEMMA RunCommits ==
    ASSUME Inv, ReminderSafe, Commit(Reminder), [Next]_vars
    PROVE  ReminderSafe'
<1> USE DEF ReminderSafe
<1> DEFINE w == pending[Reminder]
<1>1. /\ pc[Reminder] = "commit" /\ Ends(Reminder) /\ Reminder \in Transactions
      /\ \A r \in Rows : db'[r] = IF r \in DOMAIN w THEN w[r] ELSE db[r]
      /\ UNCHANGED <<clock, runs, notified>>
    BY Committed, JobsApart DEF Commit, reminders
<1>2. /\ pc'[Reminder] = "idle" /\ pending'[Reminder] = Nothing
      /\ \A q \in Requests : pc'[q] = pc[q]
    <2>1. \A q \in Requests : q \in Transactions \ {Reminder}
        BY JobsApart DEF Transactions
    <2> QED BY <1>1, <2>1, EndsFrame, JobsApart DEF Inv, Untouched
<1>3. ~Running' /\ Running /\ clock \in Int /\ Run.today \in Int /\ Run.today <= clock /\ Run.risk \subseteq Ids
    BY <1>1, <1>2, RunFields DEF Running, Run, RunInv, Inv, Shaped, ReminderInv
<1>4. ReminderHolds'
    BY <1>2, EmptyOverlay DEF ReminderHolds
<1>5. RunInv'
    BY <1>3 DEF RunInv
<1>p. \A i : Past(i) => Past(i)'
    BY <1>2 DEF Past
<1>6. ASSUME NEW i \in Ids, Past(i)
      PROVE  /\ ~Live(db, User(i)) => ~Live(db', User(i))
             /\ User(i) \in DOMAIN w => db'[User(i)].reminded = Run.today
             /\ User(i) \notin DOMAIN w => db'[User(i)] = db[User(i)]
             /\ i \in Run.risk => User(i) \in DOMAIN w \/ ~Live(db, User(i))
    <2>1. User(i) \in Rows /\ User(i)[1] # "device"
        BY Kinds DEF User
    <2> QED BY <1>1, <1>6, <2>1, GoneStaysGone DEF ReminderHolds, Live, Exists
<1>7. ASSUME NEW a \in notified.sent
      PROVE  /\ a.user \in Ids /\ Past(a.user)' /\ a.run \in 0 .. runs /\ a.day \in Nat
             /\ \/ a.run \in notified.failed
                \/ ~Live(db', User(a.user))
                \/ OnRecord(a)'
    <2>1. a.user \in Ids /\ Past(a.user) /\ a.run \in 0 .. runs /\ a.day \in Nat
        BY DEF SentInv
    <2>2. CASE a.run = runs
        <3>1. a.user \in Run.risk /\ a.day = Run.today
            BY <1>3, <2>2 DEF RunInv
        <3>2. User(a.user) \in DOMAIN w => OnRecord(a)'
            BY <1>1, <1>3, <1>6, <2>1, <3>1 DEF OnRecord
        <3> QED BY <1>6, <1>p, <2>1, <3>1, <3>2
    <2>3. CASE OnRecord(a) /\ Live(db, User(a.user))
        <3> DEFINE mark == db[User(a.user)].reminded
        <3>1. mark \in Int /\ a.day <= mark /\ mark <= Run.today
            BY <1>3, <2>1, <2>3, MarksAreDays DEF OnRecord
        <3> DEFINE mark2 == db'[User(a.user)].reminded
        <3>2. mark2 = Run.today \/ mark2 = mark
            BY <1>6, <2>1
        <3> HIDE DEF mark, mark2
        <3>3. a.day <= mark2 /\ mark2 <= clock
            BY <1>3, <2>1, <3>1, <3>2
        <3> QED BY <1>1, <1>3, <1>p, <2>1, <3>3 DEF OnRecord, mark2
    <2>4. a.run = runs \/ a.run \in notified.failed \/ ~Live(db, User(a.user)) \/ OnRecord(a)
        BY DEF SentInv
    <2> QED BY <1>6, <1>p, <2>1, <2>2, <2>3, <2>4
<1>8. SentInv'
    BY <1>1, <1>7 DEF SentInv
<1>9. RemindedOnce'
    BY <1>1, <1>6 DEF RemindedOnce, SentInv
<1> QED BY <1>4, <1>5, <1>8, <1>9

LEMMA InitReminder == Init => ReminderSafe /\ KeepsMark
<1> SUFFICES ASSUME Init PROVE ReminderSafe /\ KeepsMark
    OBVIOUS
<1>1. /\ pc[Reminder] = "idle" /\ runs = 0 /\ notified = [sent |-> {}, failed |-> {}]
      /\ \A p \in Transactions : DOMAIN pending[p] = {}
    BY JobsApart, EmptyOverlay DEF Init
<1> QED BY <1>1, JobsApart DEF ReminderSafe, ReminderHolds, RunInv, SentInv, RemindedOnce, KeepsMark, Running, Transactions

LEMMA ReminderKeepsSafe ==
    Inv /\ Schema /\ KeepsMark /\ ReminderSafe /\ [Next]_vars => ReminderSafe'
<1> SUFFICES ASSUME Inv, Schema, KeepsMark, ReminderSafe, [Next]_vars PROVE ReminderSafe'
    OBVIOUS
<1>1. CASE Aside
    BY <1>1, AsideKeeps
<1>2. CASE RemindBegins \/ RunFails
    BY <1>2, RunBegins, RunFailing
<1>3. CASE (\E practised \in SUBSET Ids : AtRisk(practised)) \/ GetTokens
    BY <1>3, AtRiskSafe, GetTokensSafe
<1>4. CASE SendSome
    <2>1. PICK chunk \in NextChunk(memo[Reminder].left) : \E gone \in SUBSET chunk : Send(chunk, gone)
        BY <1>4 DEF SendSome
    <2>2. PICK gone \in SUBSET chunk : Send(chunk, gone)
        BY <2>1
    <2>3. chunk \subseteq Run.left /\ pc[Reminder] = "send"
        BY <1>4, <2>1 DEF NextChunk, Run, SendSome
    <2> QED BY <2>2, <2>3, SendSafe
<1>5. CASE UnregisterDead \/ MarkSent \/ Commit(Reminder)
    BY <1>5, UnregisterSafe, MarkSafe, RunCommits
<1> QED BY <1>1, <1>2, <1>3, <1>4, <1>5, ReminderCases

-----------------------------------------------------------------------------
LEMMA SchemaHolds == Spec => [](Inv /\ Schema)
<1>1. Inv /\ Schema /\ [Next]_vars => (Inv /\ Schema)'
    BY NextKeeps, SchemaKeeps
<1>2. Init => Inv /\ Schema
    BY InitInv, InitSchema
<1> QED BY <1>1, <1>2, PTL DEF Spec

LEMMA RemindersHold == Spec => [](KeepsMark /\ ReminderSafe)
<1>1. Init => KeepsMark /\ ReminderSafe
    BY InitReminder
<1>2. Inv /\ Schema /\ KeepsMark /\ ReminderSafe /\ [Next]_vars => (KeepsMark /\ ReminderSafe)'
    BY KeepsMarkKeeps, ReminderKeepsSafe
<1> QED BY <1>1, <1>2, SchemaHolds, PTL DEF Spec

\* A student is reminded twice on one day only when the first run failed or the account
\* is no longer live, whatever requests and purges run beside the job.
THEOREM RemindedOnceHolds == Spec => []RemindedOnce
<1>1. ReminderSafe => RemindedOnce
    BY DEF ReminderSafe
<1> QED BY <1>1, RemindersHold, PTL

-----------------------------------------------------------------------------
(* What a request sees, and what an open request holds. *)

\* What happens to an open request: it is over, it reads, it writes, or it waits while
\* somebody else commits or not.
Apace(p) == Untouched(p) /\ (UNCHANGED <<db, beside>> \/ \E q \in Transactions \ {p} : Commit(q))
LEMMA RequestCases ==
    ASSUME Inv, [Next]_vars, NEW p \in Requests
    PROVE  \/ Ends(p) \/ Look(p) \/ Apace(p)
           \/ Wrote(p) /\ <<pc[p], pc'[p]>> \in Edges
<1>p. p \in Transactions /\ p # Purger /\ p # Reminder
    BY JobsApart DEF Transactions
<1>1. ASSUME NEW q \in Transactions, q # p, Stop(q) \/ Look(q) \/ Commit(q) \/ Wrote(q) PROVE Apace(p)
    BY <1>1, <1>p, EndsFrame DEF Apace, Stop, Look, Commit, Wrote, Inv
<1>2. CASE \E i \in Ids : Purged(i)
    BY <1>2, <1>p DEF Purged, Apace
<1>3. CASE Rest
    BY <1>3 DEF Rest, Apace, Untouched
<1>4. ASSUME NEW q \in Transactions, Stop(q) \/ Look(q) \/ Commit(q) PROVE Ends(p) \/ Look(p) \/ Apace(p)
    BY <1>1, <1>4 DEF Stop, Commit
<1>5. ASSUME NEW q \in Requests, Wrote(q), <<pc[q], pc'[q]>> \in Edges
      PROVE  Apace(p) \/ (Wrote(p) /\ <<pc[p], pc'[p]>> \in Edges)
    BY <1>1, <1>5 DEF Transactions
<1>6. CASE Wrote(Reminder)
    BY <1>1, <1>6, <1>p, JobsApart
<1> QED BY <1>2, <1>3, <1>4, <1>5, <1>6, Moves

\* A deletion that has marked its user, and the credentials it has retired.
Deletes(p) == pc[p] \in {"retire_identities", "retire_devices", "commit"} /\ cmd[p].kind = "delete"
Tables(s) ==
    CASE s = "retire_devices" -> {"identity"}
      [] s = "commit" -> {"identity", "device"}
      [] OTHER -> {}

\* What a request holds: an account is written dead by its deletion only, which then
\* retires what works of it; what it misses arrived beside it.
UsersHeld(p) ==
    /\ pc[p] \notin Holding => DOMAIN pending[p] = {}
    /\ pc[p] = "add_identity" => DOMAIN pending[p] \subseteq {User(p)}
    /\ \A r \in DOMAIN pending[p] :
           r[1] = "user" => pending[p][r].live \/ (Deletes(p) /\ r = User(cmd[p].user))
DeletionHeld(p) ==
    LET w == pending[p]
        u == cmd[p].user IN
    Deletes(p) =>
        /\ User(u) \in DOMAIN w /\ ~w[User(u)].live
        /\ \A r \in DOMAIN w :
            \/ r = User(u)
            \/ r[1] \in Tables(pc[p]) /\ Exists(db, r) /\ db[r].user = u /\ ~w[r].live
        /\ \A r \in Rows \ DOMAIN w :
            r[1] \in Tables(pc[p]) /\ Live(db, r) /\ db[r].user = u => r \in beside
Late == OnlyLateArrivals /\ \A p \in Requests : UsersHeld(p) /\ DeletionHeld(p)

LEMMA Retirement ==
    ASSUME NEW r \in Rows, Child(r), NEW row \in RowsOf(r)
    PROVE  LET new == [row EXCEPT !.live = FALSE] IN ~new.live /\ new.user = row.user
<1>1. row \in Identities \/ row \in Devices \/ row \in Targets
    BY Named DEF RowsOf, Child
<1> QED BY <1>1 DEF Identities, Devices, Targets

\* What the statements of a deletion write.
LEMMA RetireWrites ==
    ASSUME Inv, NEW p \in Requests, pc[p] \in {"retire_identities", "retire_devices"},
           NEW table, table = IF pc[p] = "retire_identities" THEN "identity" ELSE "device",
           \A r \in DOMAIN pending[p] : r[1] # table
    PROVE  /\ \A r \in DOMAIN WritesOf(p) :
                  /\ r \in Rows /\ r[1] = table /\ Live(db, r) /\ db[r].user = cmd[p].user
                  /\ ~WritesOf(p)[r].live /\ WritesOf(p)[r].user = cmd[p].user
           /\ \A r \in Rows : r[1] = table /\ Live(db, r) /\ db[r].user = cmd[p].user => r \in DOMAIN WritesOf(p)
<1> DEFINE gone == {r \in Rows : r[1] = table /\ Live(View(p), r) /\ View(p)[r].user = cmd[p].user}
<1>1. WritesOf(p) = Retire(View(p), gone)
    BY DEF WritesOf, RetireIdentities, RetireDevices
<1>2. DOMAIN WritesOf(p) = gone /\ \A r \in gone : WritesOf(p)[r] = [View(p)[r] EXCEPT !.live = FALSE]
    <2> HIDE DEF gone
    <2> QED BY <1>1 DEF Retire
<1>3. \A r \in Rows : r[1] = table => View(p)[r] = db[r]
    BY Seen DEF Transactions
<1>4. ASSUME NEW r \in gone PROVE ~WritesOf(p)[r].live /\ WritesOf(p)[r].user = View(p)[r].user
    <2> DEFINE row == View(p)[r]
    <2>1. r \in Rows /\ Child(r) /\ row \in RowsOf(r)
        BY InHand DEF Child, Live
    <2>2. ~[row EXCEPT !.live = FALSE].live /\ [row EXCEPT !.live = FALSE].user = row.user
        <3> HIDE DEF row
        <3> QED BY <2>1, Retirement
    <2> QED BY <1>2, <2>2
<1> QED BY <1>2, <1>3, <1>4 DEF Live

\* The kind of a request's command, from the statement it is at.
LEMMA KindOf ==
    ASSUME Inv, NEW p \in Requests
    PROVE  /\ pc[p] \notin {"idle", "done"} => cmd[p] \in Asks /\ pc[p] \in StepsOf(cmd[p].kind)
           /\ pc[p] \in {"soft_delete", "retire_identities", "retire_devices"} =>
                  cmd[p].kind = "delete" /\ cmd[p].user \in Ids
           /\ pc[p] \in {"find_active", "clear_active", "set_active"} => cmd[p].kind = "activate"
           /\ pc[p] = "add_target" => cmd[p].kind = "add"
           /\ pc[p] = "remove_target" => cmd[p].kind = "remove"
           /\ pc[p] = "rename" => cmd[p].kind = "rename" /\ cmd[p].user \in Ids
           /\ pc[p] \in {"register_device", "unregister_device"} =>
                  cmd[p].kind \in {"register_device", "unregister_device"}
           /\ pc[p] \in {"create_user", "add_identity"} => cmd[p].kind \in {"register", "google"}
           /\ pc[p] = "commit" /\ cmd[p].kind = "delete" => cmd[p].user \in Ids
           /\ pc[p] \notin {"idle", "done"} /\ cmd[p].kind \in {"remove", "activate"} =>
                  cmd[p].user \in Ids /\ cmd[p].target \in Ids
           /\ pc[p] \notin {"idle", "done"} /\ cmd[p].kind = "add" => cmd[p].user \in Ids
<1>1. pc[p] \notin {"idle", "done"} => cmd[p] \in Asks /\ pc[p] \in StepsOf(cmd[p].kind)
    BY DEF Inv, Request, OnPath
<1> QED BY <1>1 DEF Asks, StepsOf

LEMMA UsersHeldWrites ==
    ASSUME Inv, Inv', NEW p \in Requests, UsersHeld(p), DeletionHeld(p),
           Wrote(p), <<pc[p], pc'[p]>> \in Edges
    PROVE  UsersHeld(p)'
<1> DEFINE w == WritesOf(p)
<1>1. /\ DOMAIN pending'[p] = DOMAIN pending[p] \union DOMAIN w
      /\ \A r \in DOMAIN w : pending'[p][r] = w[r]
      /\ \A r \in DOMAIN pending[p] : r \notin DOMAIN w => pending'[p][r] = pending[p][r]
      /\ pc'[p] \in Holding /\ cmd'[p] = cmd[p]
    BY Written DEF Wrote, Edges, Holding
<1>2. pc'[p] = "add_identity" => DOMAIN pending'[p] \subseteq {User(p)}
    <2> SUFFICES ASSUME pc'[p] = "add_identity" PROVE DOMAIN pending'[p] \subseteq {User(p)}
        OBVIOUS
    <2>1. pc[p] = "create_user"
        BY DEF Edges
    <2>2. DOMAIN pending[p] = {} /\ DOMAIN w = {User(p)}
        BY <2>1, PutIs DEF UsersHeld, Holding, WritesOf, CreateUser
    <2> QED BY <1>1, <2>2
<1>3. ASSUME NEW r \in DOMAIN pending'[p], r[1] = "user", ~pending'[p][r].live
      PROVE  Deletes(p)' /\ r = User(cmd[p].user)
    <2>1. PICK i \in Ids : r = User(i)
        <3>1. r \in Rows
            BY SeenNext DEF Transactions
        <3> QED BY <1>3, <3>1, Named DEF Identity, Device, Target
    <2>2. CASE r \notin DOMAIN w
        <3>1. Deletes(p) /\ r = User(cmd[p].user)
            BY <1>1, <1>3, <2>2 DEF UsersHeld
        <3> QED BY <1>1, <3>1 DEF Deletes, Edges
    <2>3. CASE r \in DOMAIN w
        <3>1. CASE pc[p] = "create_user" /\ i = p
            <4>1. w[r].live
                BY <2>1, <3>1 DEF WritesOf, CreateUser, Put
            <4> QED BY <1>1, <1>3, <2>3, <4>1
        <3>2. CASE pc[p] = "rename"
            <4>1. w[r].live
                BY <2>1, <2>3, <3>2, UserStatements DEF Live
            <4> QED BY <1>1, <1>3, <2>3, <4>1
        <3>3. CASE pc[p] = "soft_delete"
            <4>1. i = cmd[p].user /\ pc'[p] = "retire_identities" /\ cmd[p].kind = "delete"
                BY <2>1, <2>3, <3>3, UserStatements, KindOf DEF Edges
            <4> QED BY <1>1, <2>1, <4>1 DEF Deletes
        <3> QED BY <2>1, <2>3, <3>1, <3>2, <3>3, UserStatements
    <2> QED BY <2>2, <2>3
<1> QED BY <1>1, <1>2, <1>3 DEF UsersHeld

LEMMA DeletionHeldWrites ==
    ASSUME Inv, Inv', NEW p \in Requests, UsersHeld(p), DeletionHeld(p),
           Wrote(p), <<pc[p], pc'[p]>> \in Edges
    PROVE  DeletionHeld(p)'
<1> SUFFICES ASSUME Deletes(p)' PROVE DeletionHeld(p)'
    BY DEF DeletionHeld
<1> DEFINE w == WritesOf(p)
           u == cmd[p].user
<1>1. /\ DOMAIN pending'[p] = DOMAIN pending[p] \union DOMAIN w
      /\ \A r \in DOMAIN w : pending'[p][r] = w[r]
      /\ \A r \in DOMAIN pending[p] : r \notin DOMAIN w => pending'[p][r] = pending[p][r]
      /\ cmd'[p] = cmd[p] /\ UNCHANGED <<db, beside>> /\ cmd[p].kind = "delete"
    BY Written DEF Wrote, Deletes
<1>2. CASE pc'[p] = "retire_identities"
    <2>1. pc[p] = "soft_delete"
        BY <1>2 DEF Edges
    <2>2. DOMAIN pending[p] = {} /\ DOMAIN w \subseteq {User(u)}
        BY <2>1, PutIs, EmptyOverlay DEF UsersHeld, Holding, WritesOf, SoftDelete
    <2>3. User(u) \in DOMAIN pending'[p] /\ ~pending'[p][User(u)].live
        BY <1>1, <1>2 DEF Inv, Request, Remembers, Leaves
    <2> QED BY <1>1, <1>2, <2>2, <2>3 DEF DeletionHeld, Tables
<1>3. CASE pc'[p] \in {"retire_devices", "commit"}
    <2>1. \/ pc[p] = "retire_identities" /\ pc'[p] = "retire_devices"
          \/ pc[p] = "retire_devices" /\ pc'[p] = "commit"
        BY <1>1, <1>3, KindOf DEF Edges
    <2> DEFINE table == IF pc[p] = "retire_identities" THEN "identity" ELSE "device"
    <2>2. table \notin Tables(pc[p]) /\ Tables(pc'[p]) = Tables(pc[p]) \union {table} /\ table # "user"
        BY <2>1 DEF Tables
    <2>3. /\ User(u) \in DOMAIN pending[p] /\ ~pending[p][User(u)].live
          /\ \A r \in DOMAIN pending[p] :
              \/ r = User(u)
              \/ r[1] \in Tables(pc[p]) /\ Exists(db, r) /\ db[r].user = u /\ ~pending[p][r].live
          /\ \A r \in Rows \ DOMAIN pending[p] :
              r[1] \in Tables(pc[p]) /\ Live(db, r) /\ db[r].user = u => r \in beside
        BY <1>1, <2>1 DEF DeletionHeld, Deletes
    <2>4. User(u)[1] = "user"
        BY DEF User
    <2>5. \A r \in DOMAIN pending[p] : r[1] # table
        BY <2>2, <2>3, <2>4
    <2>6. /\ \A r \in DOMAIN w : r \in Rows /\ r[1] = table /\ Live(db, r) /\ db[r].user = u /\ ~w[r].live
          /\ \A r \in Rows : r[1] = table /\ Live(db, r) /\ db[r].user = u => r \in DOMAIN w
        BY <2>1, <2>5, RetireWrites
    <2> HIDE DEF w, u, table
    <2>7. User(u) \in DOMAIN pending'[p] /\ ~pending'[p][User(u)].live
        BY <1>1, <2>2, <2>3, <2>4, <2>6
    <2>8. \A r \in DOMAIN pending'[p] :
              r = User(u) \/ (r[1] \in Tables(pc'[p]) /\ Exists(db, r) /\ db[r].user = u /\ ~pending'[p][r].live)
        BY <1>1, <2>2, <2>3, <2>6 DEF Exists, Live
    <2>9. \A r \in Rows \ DOMAIN pending'[p] :
              r[1] \in Tables(pc'[p]) /\ Live(db, r) /\ db[r].user = u => r \in beside
        BY <1>1, <2>2, <2>3, <2>6
    <2> QED BY <1>1, <2>7, <2>8, <2>9 DEF DeletionHeld, Exists, Live, u
<1> QED BY <1>2, <1>3 DEF Deletes

\* The others' commits: what arrives beside a deletion is remembered.
LEMMA DeletionWaits ==
    ASSUME Inv, NEW p \in Requests, UsersHeld(p), DeletionHeld(p), Apace(p)
    PROVE  UsersHeld(p)' /\ DeletionHeld(p)'
<1>p. p \in Transactions
    BY DEF Transactions
<1> DEFINE w == pending[p]
           u == cmd[p].user
<1>1. pending'[p] = w /\ pc'[p] = pc[p] /\ cmd'[p] = cmd[p] /\ (Deletes(p)' <=> Deletes(p))
    BY DEF Apace, Untouched, Deletes
<1>2. UsersHeld(p)'
    BY <1>1 DEF UsersHeld
<1>3. \A r \in DOMAIN w : db'[r] = db[r]
    BY <1>p, Committed DEF Apace
<1>4. ASSUME Deletes(p), NEW r \in Rows \ DOMAIN w, r[1] \in Tables(pc[p]), Live(db', r), db'[r].user = u
      PROVE  r \in beside'
    <2>0. /\ User(u) \in DOMAIN w /\ ~w[User(u)].live /\ w[User(u)] # Absent
          /\ r[1] \in {"identity", "device"}
          /\ \A s \in Rows \ DOMAIN w : r[1] = s[1] /\ Live(db, s) /\ db[s].user = u => s \in beside
        BY <1>4, <1>p, JobsApart, Seen DEF DeletionHeld, Tables
    <2>1. CASE UNCHANGED <<db, beside>>
        BY <1>4, <2>0, <2>1 DEF Live
    <2>2. ASSUME NEW q \in Transactions \ {p}, Commit(q) PROVE r \in beside'
        <3>1. /\ db' = View(q)
              /\ beside' = (beside \ DOMAIN pending[q]) \union
                     {s \in DOMAIN pending[q] : /\ s[1] \in {"identity", "device"}
                                                 /\ Live(View(q), s) /\ Leaving(q, View(q)[s].user)}
            BY <2>2 DEF Commit
        <3>2. CASE r \in DOMAIN pending[q]
            <4>1. Leaving(q, u)
                BY <1>p, <2>0 DEF Leaving
            <4> QED BY <1>4, <2>0, <3>1, <3>2, <4>1
        <3>3. CASE r \notin DOMAIN pending[q]
            <4>1. db'[r] = db[r]
                BY <2>2, <3>3, Committed
            <4> QED BY <1>4, <2>0, <3>1, <3>3, <4>1 DEF Live
        <3> QED BY <3>2, <3>3
    <2> QED BY <2>1, <2>2 DEF Apace
<1>5. DeletionHeld(p)'
    <2> HIDE DEF w, u
    <2>1. SUFFICES ASSUME Deletes(p) PROVE DeletionHeld(p)'
        BY <1>1 DEF DeletionHeld
    <2>2. /\ User(u) \in DOMAIN w /\ ~w[User(u)].live
          /\ \A r \in DOMAIN w :
              \/ r = User(u)
              \/ r[1] \in Tables(pc[p]) /\ Exists(db, r) /\ db[r].user = u /\ ~w[r].live
        BY <2>1 DEF DeletionHeld, w, u
    <2>3. \A r \in DOMAIN w :
              \/ r = User(u)
              \/ r[1] \in Tables(pc[p]) /\ Exists(db', r) /\ db'[r].user = u /\ ~w[r].live
        BY <1>3, <2>2 DEF Exists
    <2>4. \A r \in Rows \ DOMAIN w :
              r[1] \in Tables(pc[p]) /\ Live(db', r) /\ db'[r].user = u => r \in beside'
        BY <1>4, <2>1
    <2> QED BY <1>1, <2>2, <2>3, <2>4 DEF DeletionHeld, u
<1> QED BY <1>2, <1>5

LEMMA HeldKeeps ==
    ASSUME Inv, Inv', [Next]_vars, NEW p \in Requests, UsersHeld(p), DeletionHeld(p)
    PROVE  UsersHeld(p)' /\ DeletionHeld(p)'
<1>p. p \in Transactions
    BY DEF Transactions
<1>1. CASE Ends(p)
    <2>1. DOMAIN pending'[p] = {} /\ pc'[p] = "done"
        BY <1>1, <1>p, EndsFrame, EmptyOverlay DEF Inv
    <2> QED BY <2>1 DEF UsersHeld, DeletionHeld, Deletes
<1>2. CASE Look(p)
    <2>1. DOMAIN pending'[p] = {} /\ pc'[p] \notin (Holding \ {"add_identity"})
        BY <1>2 DEF Look, UsersHeld
    <2> QED BY <2>1 DEF UsersHeld, DeletionHeld, Deletes, Holding
<1>3. CASE Apace(p)
    BY <1>3, DeletionWaits
<1>4. CASE Wrote(p) /\ <<pc[p], pc'[p]>> \in Edges
    BY <1>4, UsersHeldWrites, DeletionHeldWrites
<1> QED BY <1>1, <1>2, <1>3, <1>4, RequestCases

\* Who commits a live account dead has retired its credentials and its devices.
LEMMA LateKeeps == Inv /\ Inv' /\ Schema /\ ReminderSafe /\ Late /\ [Next]_vars => Late'
<1> SUFFICES ASSUME Inv, Inv', Schema, ReminderSafe, Late, [Next]_vars PROVE Late'
    OBVIOUS
<1>1. \A p \in Requests : UsersHeld(p)' /\ DeletionHeld(p)'
    BY HeldKeeps DEF Late
<1>2. ASSUME UNCHANGED <<db, beside>> PROVE OnlyLateArrivals'
    BY <1>2 DEF Late, OnlyLateArrivals, Live
<1>3. ASSUME NEW p \in Transactions, Commit(p) PROVE OnlyLateArrivals'
    <2> SUFFICES ASSUME NEW r \in Rows, r[1] \in {"identity", "device"}, Live(db', r),
                        ~Live(db', User(db'[r].user)), r \notin beside'
                 PROVE  FALSE
        BY DEF OnlyLateArrivals
    <2> DEFINE u == db'[r].user
    <2>1. /\ pc[p] = "commit" /\ db' = View(p)
          /\ beside' = (beside \ DOMAIN pending[p]) \union
                 {s \in DOMAIN pending[p] : /\ s[1] \in {"identity", "device"}
                                             /\ Live(View(p), s) /\ Leaving(p, View(p)[s].user)}
          /\ \A s \in Rows : db'[s] = IF s \in DOMAIN pending[p] THEN pending[p][s] ELSE db[s]
        BY <1>3, Committed DEF Commit
    <2>2. Child(r) /\ u \in Ids /\ User(u) \in Rows /\ Exists(View(p), User(u))
        BY <2>1, Seen, Parents, Kinds DEF Schema, Owned, Child, Typed, Live, Exists
    <2>3. r \notin DOMAIN pending[p]
        BY <2>1, <2>2 DEF Leaving, Live, Exists
    <2>4. Live(db, r) /\ db[r].user = u /\ r \notin beside
        BY <2>1, <2>3 DEF Live
    <2>5. Live(db, User(u))
        BY <2>4 DEF Late, OnlyLateArrivals
    <2>6. User(u) \in DOMAIN pending[p] /\ pending[p][User(u)] # Absent /\ ~pending[p][User(u)].live
        BY <2>1, <2>2, <2>5 DEF Live, Exists
    <2>7. p # Purger /\ p # Reminder
        BY <2>1, <2>5, <2>6, Seen, JobsApart DEF ReminderSafe, ReminderHolds, Live, User
    <2>8. p \in Requests /\ UsersHeld(p) /\ DeletionHeld(p)
        BY <2>7 DEF Late, Transactions, Jobs
    <2>9. Deletes(p) /\ u = cmd[p].user
        BY <2>6, <2>8 DEF UsersHeld, User
    <2> QED BY <2>1, <2>3, <2>4, <2>8, <2>9 DEF DeletionHeld, Tables
<1>4. OnlyLateArrivals'
    <2>1. CASE Rest \/ \E p \in Transactions : Stop(p) \/ Look(p)
        BY <1>2, <2>1 DEF Rest, Stop, Look
    <2>2. CASE (\E p \in Transactions : Wrote(p)) \/ \E i \in Ids : Purged(i)
        BY <1>2, <2>2 DEF Wrote, Purged
    <2> QED BY <1>3, <2>1, <2>2, Moves, JobsApart DEF Transactions
<1> QED BY <1>1, <1>4 DEF Late

LEMMA InitLate == Init => Late
<1> SUFFICES ASSUME Init PROVE Late
    OBVIOUS
<1>1. \A p \in Requests : DOMAIN pending[p] = {} /\ pc[p] = "idle"
    BY EmptyOverlay DEF Init, Transactions
<1>2. OnlyLateArrivals
    BY StartAssumption DEF Init, OnlyLateArrivals
<1> QED BY <1>1, <1>2 DEF Late, UsersHeld, DeletionHeld, Deletes

\* What still works of a deleted account was written by a transaction that ran beside
\* its deletion.
THEOREM OnlyLateArrivalsHolds == Spec => []OnlyLateArrivals
<1>1. Inv /\ Inv' /\ Schema /\ ReminderSafe /\ Late /\ [Next]_vars => Late'
    BY LateKeeps
<1>2. Late => OnlyLateArrivals
    BY DEF Late
<1> QED BY <1>1, <1>2, InitLate, SchemaHolds, RemindersHold, PTL DEF Spec

-----------------------------------------------------------------------------
(* Exam targets. *)

\* The purge deletes an account together with its dependents.
PurgesWhole ==
    \A r \in DOMAIN pending[Purger] : Exists(db, r) /\ (Child(r) => User(db[r].user) \in DOMAIN pending[Purger])

LEMMA PurgesKeep == Inv /\ Inv' /\ Schema /\ PurgesWhole /\ [Next]_vars => PurgesWhole'
<1> SUFFICES ASSUME Inv, Inv', Schema, PurgesWhole, [Next]_vars PROVE PurgesWhole'
    OBVIOUS
<1>p. Purger \in Transactions /\ Purger \notin Requests /\ Purger # Reminder
    BY JobsApart
<1>1. ASSUME pending'[Purger] = pending[Purger], \A r \in DOMAIN pending[Purger] : db'[r] = db[r]
      PROVE  PurgesWhole'
    BY <1>1 DEF PurgesWhole, Exists
<1>2. CASE Rest \/ \E q \in Transactions : Look(q)
    BY <1>1, <1>2 DEF Rest, Look
<1>3. ASSUME NEW q \in Transactions \ {Purger}, Stop(q) \/ Commit(q) \/ Wrote(q) PROVE PurgesWhole'
    BY <1>1, <1>3, <1>p, EndsFrame, Committed DEF Inv, Stop, Wrote, Untouched
<1>4. CASE Stop(Purger) \/ Commit(Purger)
    <2>1. DOMAIN pending'[Purger] = {}
        BY <1>4, <1>p, EndsFrame, EmptyOverlay DEF Inv, Stop, Commit
    <2> QED BY <2>1 DEF PurgesWhole
<1>5. ASSUME NEW i \in Ids, Purged(i) PROVE PurgesWhole'
    <2> DEFINE t == View(Purger)
               w == Purge(t, i)
    <2>1. /\ DOMAIN pending'[Purger] = DOMAIN pending[Purger] \union DOMAIN w
          /\ db' = db
        BY <1>5, Written DEF Purged
    <2>2. /\ \A r \in DOMAIN w : r \in Rows /\ Exists(t, r) /\ (r = User(i) \/ ChildOf(r, t[r], i))
          /\ \A r \in Rows : Exists(t, r) /\ r = User(i) => r \in DOMAIN w
        BY DEF Purge
    <2>3. \A r \in Rows : Exists(t, r) => t[r] = db[r] /\ r \notin DOMAIN pending[Purger]
        BY <1>p, Seen DEF Exists
    <2>4. Owned(t)
        BY <1>p DEF Schema
    <2> HIDE DEF t, w
    <2>5. ASSUME NEW r \in DOMAIN w
          PROVE  Exists(db, r) /\ (Child(r) => User(db[r].user) \in DOMAIN w)
        <3>1. t[r] = db[r] /\ Exists(t, r) /\ r \in Rows
            BY <2>2, <2>3
        <3>2. CASE Child(r)
            <4>1. ChildOf(r, t[r], i)
                BY <2>2, <3>2 DEF Child, User
            <4>2. Exists(t, User(i)) /\ User(i) \in Rows
                BY <2>4, <3>1, <3>2, <4>1, Kinds DEF Owned, ChildOf
            <4> QED BY <2>2, <3>1, <4>1, <4>2 DEF ChildOf, Exists
        <3> QED BY <3>1, <3>2 DEF Exists
    <2> QED BY <2>1, <2>5 DEF PurgesWhole, Exists
<1>6. ASSUME NEW q \in Requests \union {Reminder}, Wrote(q) PROVE PurgesWhole'
    BY <1>3, <1>6, <1>p, JobsApart DEF Transactions
<1> QED BY <1>2, <1>3, <1>4, <1>5, <1>6, Moves

IsTarget(t, r, u) == r[1] = "target" /\ ChildOf(r, t[r], u)
\* The student has had a target; targets leave with their student only.
Listed(u) == Exists(db, User(u)) => \E r \in Rows : IsTarget(db, r, u)

\* The targets a request holds are its student's; an activation has made its target the
\* lens, unless the target was removed.
TargetsHeld(p) ==
    LET w == pending[p]
        u == cmd[p].user
        kind == cmd[p].kind
        r0 == Target(cmd[p].target) IN
    /\ \A r \in DOMAIN w : r[1] = "target" =>
           /\ kind \in {"add", "remove", "activate"} /\ pc[p] \in {"set_active", "commit"} /\ w[r].user = u
           /\ kind = "add" => r = Target(p) /\ (w[r].is_active \/ Listed(u))
           /\ kind # "add" => r \in LiveTargets(db, u) /\ (w[r].live <=> kind = "activate")
    /\ pc[p] = "set_active" => \A r \in DOMAIN w : r[1] = "target" /\ db[r].is_active
    /\ pc[p] = "commit" /\ kind = "activate" => IF r0 \in DOMAIN w THEN w[r0].is_active ELSE ~Live(db, r0)

\* What a request knows of the targets: its own is new; the target it activates is its
\* student's, or has left with the student.
TargetKnown(p) ==
    LET u == cmd[p].user
        i == cmd[p].target IN
    /\ pc[p] # "done" => ~Exists(db, Target(p))
    /\ pc[p] \notin {"idle", "done"} /\ cmd[p].kind \in {"add", "remove", "activate"} => u \in Ids /\ Past(u)
    /\ pc[p] = "add_target" => memo[p] \/ Listed(u)
    /\ cmd[p].kind = "activate" /\ pc[p] \in {"find_active", "clear_active", "set_active", "commit"} =>
           i \in Ids /\ Past(i) /\ IF Exists(db, Target(i)) THEN db[Target(i)].user = u ELSE ~Exists(db, User(u))
TargetsInv == PurgesWhole /\ \A p \in Requests : TargetsHeld(p) /\ TargetKnown(p)

LEMMA TargetWrites ==
    ASSUME Inv, ReminderSafe, Late, TargetsInv, NEW q \in Transactions, q # Purger,
           NEW r \in DOMAIN pending[q], r[1] = "target"
    PROVE  /\ q \in Requests /\ pending[q][r].user = cmd[q].user /\ pc[q] \notin {"idle", "done"}
           /\ (r = Target(q) /\ ~Exists(db, r)) \/ r \in LiveTargets(db, cmd[q].user)
<1>1. q \in Requests
    BY DEF Transactions, Jobs, ReminderSafe, ReminderHolds
<1>2. pc[q] \notin {"idle", "done"}
    BY <1>1 DEF Late, UsersHeld, Holding
<1> QED BY <1>1, <1>2 DEF TargetsInv, TargetsHeld, TargetKnown

\* What a step does to a target: it keeps its student, stays removed, and leaves with
\* its student; it is created by the request it is named after.
LEMMA TargetsStay ==
    ASSUME Inv, ReminderSafe, Late, TargetsInv, [Next]_vars, NEW i \in Ids
    PROVE  LET r == Target(i) IN
           /\ Exists(db, r) /\ Exists(db', r) =>
                  db'[r].user = db[r].user /\ (Live(db', r) => Live(db, r))
           /\ Exists(db, r) /\ ~Exists(db', r) => ~Exists(db', User(db[r].user))
           /\ ~Exists(db, r) /\ Exists(db', r) => i \in Requests /\ pc[i] # "done" /\ pc'[i] = "done"
<1> DEFINE r == Target(i)
<1>0. r \in Rows /\ r[1] = "target" /\ \A j : Target(j) = r => j = i
    BY Kinds DEF Target
<1>1. CASE UNCHANGED db
    BY <1>1 DEF Exists, Live
<1>2. ASSUME NEW q \in Transactions, Commit(q), r \notin DOMAIN pending[q] PROVE db'[r] = db[r]
    BY <1>0, <1>2, Committed
<1>3. ASSUME Commit(Purger), r \in DOMAIN pending[Purger]
      PROVE  Exists(db, r) /\ ~Exists(db', r) /\ ~Exists(db', User(db[r].user))
    <2>1. Exists(db, r) /\ User(db[r].user) \in DOMAIN pending[Purger]
        BY <1>0, <1>3 DEF TargetsInv, PurgesWhole, Child
    <2>2. \A s \in DOMAIN pending[Purger] : s \in Rows /\ pending[Purger][s] = Absent
        BY JobsApart, Seen
    <2> QED BY <1>3, <2>1, <2>2, JobsApart, Committed DEF Exists
<1>4. ASSUME NEW q \in Transactions, q # Purger, Commit(q), r \in DOMAIN pending[q]
      PROVE  /\ Exists(db', r)
             /\ Exists(db, r) => db'[r].user = db[r].user /\ Live(db, r)
             /\ ~Exists(db, r) => i \in Requests /\ pc[i] # "done" /\ pc'[i] = "done"
    <2>1. db'[r] = pending[q][r] /\ db'[r] # Absent
        BY <1>0, <1>4, Committed, Seen
    <2>2. /\ q \in Requests /\ pending[q][r].user = cmd[q].user /\ pc[q] \notin {"idle", "done"}
          /\ (r = Target(q) /\ ~Exists(db, r)) \/ r \in LiveTargets(db, cmd[q].user)
        BY <1>0, <1>4, TargetWrites
    <2>3. pc'[q] = "done"
        BY <1>4, <2>2, EndsFrame DEF Commit, Inv
    <2>4. r \in LiveTargets(db, cmd[q].user) => Exists(db, r) /\ Live(db, r) /\ db[r].user = cmd[q].user
        BY DEF LiveTargets, Live, Exists
    <2> HIDE DEF r
    <2> QED BY <1>0, <2>1, <2>2, <2>3, <2>4 DEF Exists
<1>5. ASSUME db'[r] = db[r]
      PROVE  (Exists(db', r) <=> Exists(db, r)) /\ (Live(db', r) <=> Live(db, r))
    BY <1>5 DEF Exists, Live
<1> HIDE DEF r
<1>6. ASSUME NEW q \in Transactions, Commit(q)
      PROVE  /\ Exists(db, r) /\ Exists(db', r) => db'[r].user = db[r].user /\ (Live(db', r) => Live(db, r))
             /\ Exists(db, r) /\ ~Exists(db', r) => ~Exists(db', User(db[r].user))
             /\ ~Exists(db, r) /\ Exists(db', r) => i \in Requests /\ pc[i] # "done" /\ pc'[i] = "done"
    <2>1. CASE r \notin DOMAIN pending[q]
        BY <1>2, <1>5, <1>6, <2>1
    <2>2. CASE r \in DOMAIN pending[q] /\ q = Purger
        BY <1>3, <1>6, <2>2
    <2>3. CASE r \in DOMAIN pending[q] /\ q # Purger
        BY <1>4, <1>6, <2>3
    <2> QED BY <2>1, <2>2, <2>3
<1> QED BY <1>1, <1>6, OnlyCommits DEF r

LEMMA ListedStays ==
    ASSUME Inv, ReminderSafe, Late, TargetsInv, [Next]_vars, NEW u \in Ids, Past(u), Listed(u)
    PROVE  Listed(u)'
<1> SUFFICES ASSUME Exists(db', User(u)) PROVE \E r \in Rows : IsTarget(db', r, u)
    BY DEF Listed, IsTarget, ChildOf, Child, Exists
<1>1. Exists(db, User(u))
    BY GoneStaysGone
<1>2. PICK r \in Rows : IsTarget(db, r, u)
    BY <1>1 DEF Listed
<1>3. PICK i \in Ids : r = Target(i)
    BY <1>2, Named DEF IsTarget, User, Identity, Device
<1>4. Exists(db, r) /\ db[r].user = u /\ r[1] = "target"
    BY <1>2 DEF IsTarget, ChildOf, Exists
<1>5. Exists(db', r) /\ db'[r].user = u
    BY <1>3, <1>4, TargetsStay
<1> QED BY <1>4, <1>5 DEF IsTarget, ChildOf, Exists, Child

LEMMA TargetKnownKeeps ==
    ASSUME Inv, Inv', ReminderSafe, Late, TargetsInv, [Next]_vars, NEW p \in Requests
    PROVE  TargetKnown(p)'
<1>0. PICK u, i : u = cmd[p].user /\ i = cmd[p].target
    OBVIOUS
<1>p. p \in Ids /\ p \in Transactions /\ TargetKnown(p)
    BY DEF Ids, Transactions, TargetsInv
<1>1. pc'[p] # "done" => ~Exists(db', Target(p))
    BY <1>p, DoneStaysDone, TargetsStay DEF TargetKnown, Past
<1>2. CASE Ends(p)
    <2>1. pc'[p] = "done"
        BY <1>2, <1>p, EndsFrame DEF Inv
    <2> QED BY <2>1 DEF TargetKnown
<1>3. ASSUME NEW j \in Ids, Past(j), u \in Ids, Past(u),
             IF Exists(db, Target(j)) THEN db[Target(j)].user = u ELSE ~Exists(db, User(u))
      PROVE  /\ Past(j)'
             /\ IF Exists(db', Target(j)) THEN db'[Target(j)].user = u ELSE ~Exists(db', User(u))
    <2>1. Past(j)' /\ (~Exists(db, User(u)) => ~Exists(db', User(u)))
        BY <1>3, DoneStaysDone, GoneStaysGone
    <2>2. CASE Exists(db, Target(j))
        BY <1>3, <2>1, <2>2, TargetsStay
    <2>3. CASE ~Exists(db, Target(j))
        <3>1. ~Exists(db', Target(j))
            BY <1>3, <2>3, TargetsStay DEF Past
        <3> QED BY <1>3, <2>1, <2>3, <3>1
    <2> QED BY <2>2, <2>3
<1>4. ASSUME cmd'[p] = cmd[p], pc[p] \notin {"idle", "done"}, cmd[p].kind \in {"add", "remove", "activate"}
      PROVE  u \in Ids /\ Past(u) /\ Past(u)'
    BY <1>0, <1>4, <1>p, DoneStaysDone DEF TargetKnown
<1>5. ASSUME cmd'[p] = cmd[p], cmd[p].kind = "activate", pc[p] \in {"find_active", "clear_active", "set_active", "commit"}
      PROVE  i \in Ids /\ Past(i)' /\ IF Exists(db', Target(i)) THEN db'[Target(i)].user = u ELSE ~Exists(db', User(u))
    <2>1. i \in Ids /\ Past(i) /\ IF Exists(db, Target(i)) THEN db[Target(i)].user = u ELSE ~Exists(db, User(u))
        BY <1>0, <1>5, <1>p DEF TargetKnown
    <2>2. u \in Ids /\ Past(u)
        BY <1>4, <1>5
    <2> QED BY <1>3, <2>1, <2>2
<1>6. CASE Apace(p)
    <2>1. pc'[p] = pc[p] /\ memo'[p] = memo[p] /\ cmd'[p] = cmd[p]
        BY <1>6 DEF Apace, Untouched
    <2>2. pc[p] = "add_target" => memo[p] \/ Listed(u)'
        BY <1>0, <1>4, <1>p, <2>1, KindOf, ListedStays DEF TargetKnown
    <2> QED BY <1>0, <1>1, <1>4, <1>5, <2>1, <2>2 DEF TargetKnown, Listed
<1>7. CASE Wrote(p) /\ <<pc[p], pc'[p]>> \in Edges
    <2>1. cmd'[p] = cmd[p] /\ pc[p] \notin {"idle", "done"} /\ pc'[p] # "add_target"
        BY <1>7 DEF Wrote, Edges
    <2>2. cmd[p].kind = "activate" /\ pc'[p] \in {"find_active", "clear_active", "set_active", "commit"} =>
              pc[p] \in {"clear_active", "set_active"}
        BY <1>7, KindOf DEF Edges
    <2> QED BY <1>0, <1>1, <1>4, <1>5, <2>1, <2>2 DEF TargetKnown
<1>8. CASE Look(p)
    <2>1. Sees(p) /\ db' = db /\ pc[p] # "done" /\ pc'[p] \notin {"idle", "done", "set_active", "commit"}
        BY <1>8 DEF Look, Holding
    <2>2. ASSUME NEW j \in Ids, Exists(db, User(j)) \/ Exists(db, Target(j)) PROVE Past(j)
        BY <2>2 DEF Past, Inv, Request, Fresh, TargetsInv, TargetKnown
    <2>3. CASE pc[p] = "idle"
        <3>1. cmd'[p] \in Asks
            BY <2>1 DEF Inv, Request, OnPath
        <3>2. PICK c : c = cmd'[p]
            OBVIOUS
        <3>3. c.kind \in {"add", "remove", "activate"} => c.user \in Ids /\ InSession(c)
            BY <3>1, <3>2 DEF Asks, InSession
        <3>4. c.kind \in {"add", "remove", "activate"} => Exists(db, User(c.user))
            BY <2>1, <2>3, <3>2, <3>3 DEF Sees, Live, Exists
        <3>5. c.kind \in {"add", "remove", "activate"} => Past(c.user)'
            BY <2>2, <3>3, <3>4, DoneStaysDone
        <3> QED BY <1>1, <2>1, <2>3, <3>2, <3>3, <3>5 DEF TargetKnown, Sees
    <2>4. CASE pc[p] # "idle"
        <3>1. cmd'[p] = cmd[p]
            BY <1>8, <2>4 DEF Look
        <3>2. pc'[p] = "add_target" => memo'[p] \/ Listed(u)'
            <4> SUFFICES ASSUME pc'[p] = "add_target", LiveTargets(db, u) # {} PROVE Listed(u)'
                BY <1>0, <2>1 DEF Sees
            <4>1. PICK r \in LiveTargets(db, u) : TRUE
                OBVIOUS
            <4>2. r \in Rows /\ IsTarget(db, r, u)
                BY <4>1 DEF LiveTargets, Live, IsTarget, ChildOf, Child
            <4> QED BY <2>1, <4>2 DEF Listed
        <3>3. pc'[p] = "find_active" /\ cmd[p].kind = "activate" =>
                  i \in Ids /\ Past(i)' /\ Exists(db, Target(i)) /\ db[Target(i)].user = u
            <4> SUFFICES ASSUME pc'[p] = "find_active", cmd[p].kind = "activate"
                         PROVE  i \in Ids /\ Past(i)' /\ Exists(db, Target(i)) /\ db[Target(i)].user = u
                OBVIOUS
            <4>1. i \in Ids
                BY <1>0, <2>1, <2>4, KindOf
            <4>2. Exists(db, Target(i)) /\ db[Target(i)].user = u
                BY <1>0, <2>1 DEF Sees, LiveTargets, Live, Exists
            <4> QED BY <2>2, <4>1, <4>2, DoneStaysDone
        <3>4. pc'[p] = "clear_active" => pc[p] = "find_active"
            BY <2>1 DEF Sees
        <3>5. pc'[p] = "find_active" /\ cmd[p].kind = "activate" =>
                  i \in Ids /\ Past(i)' /\ Exists(db', Target(i)) /\ db'[Target(i)].user = u
            BY <2>1, <3>3 DEF Exists
        <3> QED BY <1>0, <1>1, <1>4, <1>5, <2>1, <2>4, <3>1, <3>2, <3>4, <3>5 DEF TargetKnown, Listed
    <2> QED BY <2>3, <2>4
<1> QED BY <1>2, <1>6, <1>7, <1>8, RequestCases

LEMMA TargetEdits ==
    ASSUME NEW row \in Targets, NEW active \in BOOLEAN
    PROVE  /\ [row EXCEPT !.is_active = active].live = row.live
           /\ [row EXCEPT !.is_active = active].user = row.user
           /\ [row EXCEPT !.is_active = active].is_active = active
           /\ ~[row EXCEPT !.live = FALSE, !.is_active = FALSE].live
           /\ [row EXCEPT !.live = FALSE, !.is_active = FALSE].user = row.user
BY DEF Targets

LEMMA NoTargetWritten ==
    ASSUME Inv, NEW p \in Requests, NEW next, <<pc[p], next>> \in Edges,
           pc[p] \notin {"add_target", "remove_target", "clear_active", "set_active"}
    PROVE  \A r \in DOMAIN WritesOf(p) : r[1] # "target"
<1>0. \A i : User(i)[1] # "target" /\ Identity(i)[1] # "target" /\ Device(i)[1] # "target"
    BY DEF User, Identity, Device
<1>1. CASE pc[p] \in {"create_user", "add_identity"}
    <2>1. DOMAIN WritesOf(p) \subseteq {User(p), Identity(p)}
        BY <1>1 DEF WritesOf, CreateUser, AddIdentity, Put
    <2> QED BY <1>0, <2>1
<1>2. CASE pc[p] \in {"rename", "soft_delete"}
    <2>1. DOMAIN WritesOf(p) \subseteq {User(cmd[p].user)}
        BY <1>2, PutIs, EmptyOverlay DEF WritesOf, UpdateNickname, SoftDelete
    <2> QED BY <1>0, <2>1
<1>3. CASE pc[p] \in {"retire_identities", "retire_devices"}
    BY <1>3 DEF WritesOf, RetireIdentities, RetireDevices, Retire
<1>4. CASE pc[p] \in {"register_device", "unregister_device"}
    <2>1. \A r \in DOMAIN WritesOf(p) : r = Device(p) \/ r[1] = "device"
        BY <1>4 DEF WritesOf, RegisterDevice, UnregisterDevice, HasToken, Retire, Put
    <2> QED BY <1>0, <2>1
<1> QED BY <1>1, <1>2, <1>3, <1>4 DEF Edges

\* What the statements on targets write, and what the last one leaves.
LEMMA AddWrites ==
    ASSUME NEW p, pc[p] = "add_target"
    PROVE  LET w == WritesOf(p) IN
           /\ DOMAIN w = {Target(p)}
           /\ w[Target(p)].user = cmd[p].user /\ w[Target(p)].is_active = memo[p]
<1> DEFINE row == [user |-> cmd[p].user, exam |-> cmd[p].exam, is_active |-> memo[p], live |-> TRUE]
<1>1. WritesOf(p) = Put(Target(p), row)
    BY DEF WritesOf, AddTarget
<1>2. row.user = cmd[p].user /\ row.is_active = memo[p]
    OBVIOUS
<1> HIDE DEF row
<1>3. DOMAIN Put(Target(p), row) = {Target(p)} /\ Put(Target(p), row)[Target(p)] = row
    BY PutIs
<1> QED BY <1>1, <1>2, <1>3

LEMMA RemoveWrites ==
    ASSUME Inv, NEW p \in Requests, pc[p] = "remove_target", DOMAIN pending[p] = {}
    PROVE  \A r \in DOMAIN WritesOf(p) :
               /\ r \in LiveTargets(db, cmd[p].user)
               /\ ~WritesOf(p)[r].live /\ WritesOf(p)[r].user = cmd[p].user
<1> DEFINE t == View(p)
           w == WritesOf(p)
           r0 == Target(cmd[p].target)
<1> SUFFICES ASSUME NEW r \in DOMAIN w
             PROVE  r \in LiveTargets(db, cmd[p].user) /\ ~w[r].live /\ w[r].user = cmd[p].user
    OBVIOUS
<1>1. r = r0 /\ r0 \in LiveTargets(t, cmd[p].user) /\ w[r] = [t[r0] EXCEPT !.live = FALSE, !.is_active = FALSE]
    BY EmptyOverlay DEF WritesOf, RemoveTarget, Put
<1>2. t[r] \in Targets /\ r \in Rows
    BY <1>1, TargetsOfView
<1>3. t[r] = db[r]
    BY <1>2, Seen DEF Transactions
<1> DEFINE row == t[r]
<1>4. ~[row EXCEPT !.live = FALSE, !.is_active = FALSE].live
      /\ [row EXCEPT !.live = FALSE, !.is_active = FALSE].user = row.user
    <2> HIDE DEF row
    <2> QED BY <1>2, TargetEdits DEF row
<1> QED BY <1>1, <1>3, <1>4 DEF LiveTargets, Live

LEMMA ClearWrites ==
    ASSUME Inv, NEW p \in Requests, pc[p] = "clear_active", DOMAIN pending[p] = {}
    PROVE  \A r \in DOMAIN WritesOf(p) :
               /\ r \in LiveTargets(db, cmd[p].user) /\ db[r].is_active
               /\ WritesOf(p)[r].live /\ WritesOf(p)[r].user = cmd[p].user
<1> DEFINE t == View(p)
           w == WritesOf(p)
<1> SUFFICES ASSUME NEW r \in DOMAIN w
             PROVE  /\ r \in LiveTargets(db, cmd[p].user) /\ db[r].is_active
                    /\ w[r].live /\ w[r].user = cmd[p].user
    OBVIOUS
<1>1. r \in LiveTargets(t, cmd[p].user) /\ t[r].is_active /\ w[r] = [t[r] EXCEPT !.is_active = FALSE]
    BY DEF WritesOf, ClearActive
<1>2. t[r] \in Targets /\ r \in Rows
    BY <1>1, TargetsOfView
<1>3. t[r] = db[r]
    BY <1>2, Seen DEF Transactions
<1> DEFINE row == t[r]
<1>4. [row EXCEPT !.is_active = FALSE].live = row.live /\ [row EXCEPT !.is_active = FALSE].user = row.user
    <2> HIDE DEF row
    <2> QED BY <1>2, TargetEdits DEF row
<1> QED BY <1>1, <1>3, <1>4 DEF LiveTargets, Live

LEMMA SetWrites ==
    ASSUME Inv, NEW p \in Requests, pc[p] = "set_active"
    PROVE  LET w == WritesOf(p)
               r0 == Target(cmd[p].target) IN
           /\ DOMAIN w = IF r0 \in LiveTargets(View(p), cmd[p].user) THEN {r0} ELSE {}
           /\ \A r \in DOMAIN w : w[r].live /\ w[r].user = cmd[p].user /\ w[r].is_active
                                  /\ w[r].exam = View(p)[r].exam
<1> DEFINE t == View(p)
           w == WritesOf(p)
           r0 == Target(cmd[p].target)
<1>1. /\ DOMAIN w = IF r0 \in LiveTargets(t, cmd[p].user) THEN {r0} ELSE {}
      /\ r0 \in LiveTargets(t, cmd[p].user) => w[r0] = [t[r0] EXCEPT !.is_active = TRUE]
    BY PutIs, EmptyOverlay DEF WritesOf, SetActive
<1>2. ASSUME r0 \in LiveTargets(t, cmd[p].user)
      PROVE  w[r0].live /\ w[r0].user = cmd[p].user /\ w[r0].is_active /\ w[r0].exam = t[r0].exam
    <2>1. t[r0] \in Targets /\ t[r0].live /\ t[r0].user = cmd[p].user
        BY <1>2, TargetsOfView DEF LiveTargets, Live
    <2> DEFINE row == t[r0]
    <2>2. LET new == [row EXCEPT !.is_active = TRUE] IN
          new.live = row.live /\ new.user = row.user /\ new.is_active = TRUE /\ new.exam = row.exam
        <3> HIDE DEF row
        <3> QED BY <2>1 DEF Targets, row
    <2> QED BY <1>1, <1>2, <2>1, <2>2
<1> QED BY <1>1, <1>2

LEMMA TargetsHeldWrites ==
    ASSUME Inv, Inv', NEW p \in Requests, UsersHeld(p), TargetsHeld(p), TargetKnown(p),
           Wrote(p), <<pc[p], pc'[p]>> \in Edges
    PROVE  TargetsHeld(p)'
<1>0. PICK u, r0, kind : u = cmd[p].user /\ r0 = Target(cmd[p].target) /\ kind = cmd[p].kind
    OBVIOUS
<1> DEFINE w == WritesOf(p)
           h == pending[p]
<1>1. /\ DOMAIN pending'[p] = DOMAIN h \union DOMAIN w
      /\ \A r \in DOMAIN w : pending'[p][r] = w[r]
      /\ \A r \in DOMAIN h : r \notin DOMAIN w => pending'[p][r] = h[r]
      /\ cmd'[p] = cmd[p] /\ db' = db
    BY Written DEF Wrote
<1>2. pc[p] \notin {"set_active", "commit"} => \A r \in DOMAIN h : r[1] # "target"
    BY DEF TargetsHeld
<1>3. pc[p] \notin Holding => DOMAIN h = {}
    BY DEF UsersHeld
<1>4. CASE pc[p] \notin {"add_target", "remove_target", "clear_active", "set_active"}
    <2>1. \A r \in DOMAIN pending'[p] : r[1] # "target"
        BY <1>1, <1>2, <1>4, NoTargetWritten DEF Edges
    <2>2. pc'[p] # "set_active" /\ (pc'[p] = "commit" => kind # "activate")
        BY <1>0, <1>4, KindOf DEF Edges
    <2> QED BY <1>0, <1>1, <2>1, <2>2 DEF TargetsHeld
<1>5. CASE pc[p] = "add_target"
    <2>1. /\ DOMAIN w = {Target(p)} /\ w[Target(p)].user = u /\ w[Target(p)].is_active = memo[p]
          /\ DOMAIN h = {} /\ kind = "add" /\ pc'[p] = "commit"
        BY <1>0, <1>3, <1>5, AddWrites, KindOf DEF Holding, Edges
    <2>2. memo[p] \/ Listed(u)
        BY <1>0, <1>5 DEF TargetKnown
    <2>3. Listed(u)' = Listed(u)
        BY <1>1 DEF Listed
    <2> HIDE DEF w, h
    <2> QED BY <1>0, <1>1, <2>1, <2>2, <2>3 DEF TargetsHeld
<1>6. CASE pc[p] = "remove_target"
    <2>1. /\ DOMAIN h = {} /\ kind = "remove" /\ pc'[p] = "commit"
        BY <1>0, <1>3, <1>6, KindOf DEF Holding, Edges
    <2>2. \A r \in DOMAIN w : r \in LiveTargets(db, u) /\ ~w[r].live /\ w[r].user = u
        BY <1>0, <1>6, <2>1, RemoveWrites
    <2> HIDE DEF w, h
    <2> QED BY <1>0, <1>1, <2>1, <2>2 DEF TargetsHeld
<1>7. CASE pc[p] = "clear_active"
    <2>1. /\ DOMAIN h = {} /\ kind = "activate" /\ pc'[p] = "set_active"
        BY <1>0, <1>3, <1>7, KindOf DEF Holding, Edges
    <2>2. \A r \in DOMAIN w : /\ r \in LiveTargets(db, u) /\ r[1] = "target" /\ db[r].is_active
                             /\ w[r].live /\ w[r].user = u
        BY <1>0, <1>7, <2>1, ClearWrites DEF LiveTargets
    <2> HIDE DEF w, h
    <2> QED BY <1>0, <1>1, <2>1, <2>2 DEF TargetsHeld
<1>8. CASE pc[p] = "set_active"
    <2>1. kind = "activate" /\ pc'[p] = "commit"
        BY <1>0, <1>8, KindOf DEF Edges
    <2>2. /\ DOMAIN w = IF r0 \in LiveTargets(View(p), u) THEN {r0} ELSE {}
          /\ \A r \in DOMAIN w : w[r].live /\ w[r].user = u /\ w[r].is_active
        BY <1>0, <1>8, SetWrites
    <2>3. \A r \in DOMAIN h : r \in LiveTargets(db, u) /\ h[r].live /\ h[r].user = u /\ r[1] = "target" /\ h[r] # Absent
        BY <1>0, <1>8, <2>1, Seen, JobsApart DEF TargetsHeld, Transactions
    <2>4. r0 \in Rows /\ r0[1] = "target" /\ Exists(db, r0) => db[r0].user = u
        BY <1>0, <1>8, <2>1 DEF TargetKnown
    <2>5. r0 \in Rows /\ r0[1] = "target"
        BY <1>0, <1>8, <2>1, KindOf, Kinds DEF Target
    <2>6. View(p)[r0] = IF r0 \in DOMAIN h THEN h[r0] ELSE db[r0]
        BY <2>5, Seen DEF Transactions
    <2> HIDE DEF w, h
    <2>7. r0 \in DOMAIN h => r0 \in DOMAIN w
        BY <2>2, <2>3, <2>5, <2>6 DEF LiveTargets, Live
    <2>8. r0 \notin DOMAIN h => (r0 \in DOMAIN w <=> r0 \in LiveTargets(db, u))
        BY <2>2, <2>6 DEF LiveTargets, Live
    <2>9. r0 \notin DOMAIN h \union DOMAIN w => ~Live(db, r0)
        BY <2>4, <2>5, <2>8 DEF LiveTargets, Live, Exists
    <2>10. \A r \in DOMAIN h \union DOMAIN w : r \in LiveTargets(db, u)
        BY <2>2, <2>3, <2>7, <2>8
    <2>11. \A r \in DOMAIN pending'[p] : pending'[p][r].live /\ pending'[p][r].user = u
        BY <1>1, <2>2, <2>3
    <2>12. IF r0 \in DOMAIN pending'[p] THEN pending'[p][r0].is_active ELSE ~Live(db', r0)
        BY <1>1, <2>2, <2>7, <2>9 DEF Live
    <2> QED BY <1>0, <1>1, <2>1, <2>10, <2>11, <2>12 DEF TargetsHeld
<1> QED BY <1>4, <1>5, <1>6, <1>7, <1>8

LEMMA TargetsWait ==
    ASSUME Inv, ReminderSafe, Late, TargetsInv, [Next]_vars, NEW p \in Requests, Apace(p)
    PROVE  TargetsHeld(p)'
<1>0. PICK u, i, kind : u = cmd[p].user /\ i = cmd[p].target /\ kind = cmd[p].kind
    OBVIOUS
<1> DEFINE w == pending[p]
<1>1. pending'[p] = w /\ pc'[p] = pc[p] /\ cmd'[p] = cmd[p]
    BY DEF Apace, Untouched
<1>2. \A r \in DOMAIN w : db'[r] = db[r]
    BY Committed DEF Apace, Transactions
<1>3. TargetsHeld(p) /\ TargetKnown(p) /\ UsersHeld(p)
    BY DEF TargetsInv, Late
<1>4. \A r \in DOMAIN w : r \in LiveTargets(db, u) => r \in LiveTargets(db', u)
    BY <1>2 DEF LiveTargets, Live
<1>5. kind = "add" /\ DOMAIN w # {} /\ Listed(u) => Listed(u)'
    <2>1. kind = "add" /\ DOMAIN w # {} => u \in Ids /\ Past(u)
        BY <1>0, <1>3 DEF TargetKnown, UsersHeld, Holding
    <2> QED BY <2>1, ListedStays
<1>6. pc[p] = "commit" /\ kind = "activate" /\ ~Live(db, Target(i)) => ~Live(db', Target(i))
    <2> SUFFICES ASSUME pc[p] = "commit", kind = "activate", ~Live(db, Target(i)), Live(db', Target(i))
                 PROVE  FALSE
        OBVIOUS
    <2>1. i \in Ids /\ Past(i)
        BY <1>0, <1>3 DEF TargetKnown
    <2> QED BY <2>1, TargetsStay DEF Past, Live, Exists
<1> HIDE DEF w
<1>7. \A r \in DOMAIN w : r[1] = "target" =>
          /\ kind \in {"add", "remove", "activate"} /\ pc[p] \in {"set_active", "commit"} /\ w[r].user = u
          /\ kind = "add" => r = Target(p) /\ (w[r].is_active \/ Listed(u))
          /\ kind # "add" => r \in LiveTargets(db, u) /\ (w[r].live <=> kind = "activate")
    BY <1>0, <1>3 DEF TargetsHeld, w
<1>8. /\ pc[p] = "set_active" => \A r \in DOMAIN w : r[1] = "target" /\ db[r].is_active
      /\ pc[p] = "commit" /\ kind = "activate" => IF Target(i) \in DOMAIN w THEN w[Target(i)].is_active ELSE ~Live(db, Target(i))
    BY <1>0, <1>3 DEF TargetsHeld, w
<1>9. \A r \in DOMAIN w : r[1] = "target" =>
          /\ kind \in {"add", "remove", "activate"} /\ pc[p] \in {"set_active", "commit"} /\ w[r].user = u
          /\ kind = "add" => r = Target(p) /\ (w[r].is_active \/ Listed(u)')
          /\ kind # "add" => r \in LiveTargets(db', u) /\ (w[r].live <=> kind = "activate")
    BY <1>4, <1>5, <1>7
<1>10. /\ pc[p] = "set_active" => \A r \in DOMAIN w : r[1] = "target" /\ db'[r].is_active
       /\ pc[p] = "commit" /\ kind = "activate" => IF Target(i) \in DOMAIN w THEN w[Target(i)].is_active ELSE ~Live(db', Target(i))
    BY <1>2, <1>6, <1>8
<1> QED BY <1>0, <1>1, <1>9, <1>10 DEF TargetsHeld

LEMMA TargetsKeep ==
    Inv /\ Inv' /\ Schema /\ ReminderSafe /\ Late /\ TargetsInv /\ [Next]_vars => TargetsInv'
<1> SUFFICES ASSUME Inv, Inv', Schema, ReminderSafe, Late, TargetsInv, [Next]_vars PROVE TargetsInv'
    OBVIOUS
<1>1. PurgesWhole'
    BY PurgesKeep DEF TargetsInv
<1>2. ASSUME NEW p \in Requests PROVE TargetsHeld(p)'
    <2>1. CASE Ends(p)
        <3>1. DOMAIN pending'[p] = {} /\ pc'[p] = "done"
            BY <2>1, EndsFrame, EmptyOverlay DEF Inv, Transactions
        <3> QED BY <3>1 DEF TargetsHeld
    <2>2. CASE Look(p)
        <3>1. DOMAIN pending'[p] = {} /\ pc'[p] \notin {"set_active", "commit"}
            BY <2>2 DEF Look, Late, UsersHeld, Holding
        <3> QED BY <3>1 DEF TargetsHeld
    <2>3. CASE Apace(p)
        BY <2>3, TargetsWait
    <2>4. CASE Wrote(p) /\ <<pc[p], pc'[p]>> \in Edges
        BY <2>4, TargetsHeldWrites DEF TargetsInv, Late
    <2> QED BY <2>1, <2>2, <2>3, <2>4, RequestCases
<1>3. \A p \in Requests : TargetKnown(p)'
    BY TargetKnownKeeps
<1> QED BY <1>1, <1>2, <1>3 DEF TargetsInv

LEMMA InitTargets == Init => TargetsInv
<1> SUFFICES ASSUME Init PROVE TargetsInv
    OBVIOUS
<1>1. DOMAIN pending[Purger] = {} /\ \A p \in Requests : DOMAIN pending[p] = {} /\ pc[p] = "idle"
    BY JobsApart, EmptyOverlay DEF Init, Transactions
<1>2. ASSUME NEW p \in Requests PROVE ~Exists(db, Target(p))
    <2>1. Target(p) \in Rows /\ Target(p)[2] = p
        BY Kinds DEF Ids, Target
    <2>2. Target(p) \notin DOMAIN plan.rows
        BY <2>1, ScenariosAssumption, BoundsAssumption DEF Init
    <2> QED BY <2>1, <2>2 DEF Init, Start, Exists
<1> QED BY <1>1, <1>2 DEF TargetsInv, PurgesWhole, TargetsHeld, TargetKnown

LEMMA AccountsHold == Spec => [](Late /\ TargetsInv)
<1>1. Init => Late /\ TargetsInv
    BY InitLate, InitTargets
<1>2. Inv /\ Inv' /\ Schema /\ ReminderSafe /\ Late /\ TargetsInv /\ [Next]_vars => (Late /\ TargetsInv)'
    BY LateKeeps, TargetsKeep
<1> QED BY <1>1, <1>2, SchemaHolds, RemindersHold, PTL DEF Spec

\* An activation that is reported as done made its target the lens, unless the target
\* was removed while the request ran.
THEOREM ActivationHolds == Spec => ActivationLands
<1>1. ASSUME Inv, TargetsInv, NEW p \in Requests, cmd[p].kind = "activate", Commit(p),
             Live(db', Target(cmd[p].target))
      PROVE  db'[Target(cmd[p].target)].is_active
    <2> DEFINE r == Target(cmd[p].target)
    <2>1. pc[p] = "commit" /\ \A s \in Rows : db'[s] = IF s \in DOMAIN pending[p] THEN pending[p][s] ELSE db[s]
        BY <1>1, Committed DEF Transactions
    <2>2. IF r \in DOMAIN pending[p] THEN pending[p][r].is_active ELSE ~Live(db, r)
        BY <1>1, <2>1 DEF TargetsInv, TargetsHeld
    <2>3. r \in Rows
        BY <1>1, <2>1, KindOf, Kinds
    <2> QED BY <1>1, <2>1, <2>2, <2>3 DEF Live
<1>2. Inv /\ TargetsInv /\ [Next]_vars =>
          [\A p \in Requests :
              cmd[p] # Absent /\ cmd[p].kind = "activate" /\ Commit(p) =>
                  LET r == Target(cmd[p].target) IN Live(db', r) => db'[r].is_active]_vars
    BY <1>1
<1> QED BY <1>2, AccountsHold, InvHolds, PTL DEF Spec, ActivationLands

-----------------------------------------------------------------------------
(* The lens of a student. *)

\* Of a student's targets one is the lens or was removed.
Lens(t) ==
    \A r \in Rows : r[1] = "target" /\ Exists(t, r) =>
        \E q \in Rows : q[1] = "target" /\ Exists(t, q) /\ t[q].user = t[r].user /\ (~t[q].live \/ t[q].is_active)

\* What a request commits leaves its own student with a lens or a removed target.
LEMMA LensOfCommit ==
    ASSUME Inv, Schema, ReminderSafe, Late, TargetsInv, Lens(db), NEW p \in Requests, Commit(p),
           NEW r \in DOMAIN pending[p], r[1] = "target"
    PROVE  \E q \in Rows : /\ q[1] = "target" /\ Exists(db', q) /\ db'[q].user = db'[r].user
                           /\ ~db'[q].live \/ db'[q].is_active
<1> DEFINE w == pending[p]
<1>0. PICK u, i, kind : u = cmd[p].user /\ i = cmd[p].target /\ kind = cmd[p].kind
    OBVIOUS
<1>p. p \in Transactions /\ p # Purger
    BY JobsApart DEF Transactions
<1>1. /\ pc[p] = "commit"
      /\ \A s \in Rows : db'[s] = IF s \in DOMAIN w THEN w[s] ELSE db[s]
      /\ \A s \in DOMAIN w : s \in Rows /\ w[s] # Absent
    BY <1>p, Committed, Seen
<1>2. /\ kind \in {"add", "remove", "activate"} /\ w[r].user = u
      /\ kind = "add" => r = Target(p) /\ (w[r].is_active \/ Listed(u))
      /\ kind # "add" => r \in LiveTargets(db, u) /\ (w[r].live <=> kind = "activate")
      /\ kind = "activate" => IF Target(i) \in DOMAIN w THEN w[Target(i)].is_active ELSE ~Live(db, Target(i))
    BY <1>0, <1>1 DEF TargetsInv, TargetsHeld
<1>3. db'[r] = w[r] /\ Exists(db', r) /\ r \in Rows
    BY <1>1 DEF Exists
<1>4. CASE kind = "remove"
    BY <1>2, <1>3, <1>4
<1>5. CASE kind = "activate"
    <2>1. i \in Ids /\ IF Exists(db, Target(i)) THEN db[Target(i)].user = u ELSE ~Exists(db, User(u))
        BY <1>0, <1>1, <1>5 DEF TargetsInv, TargetKnown
    <2>2. Exists(db, User(u))
        BY <1>2, <1>5 DEF Schema, Owned, LiveTargets, Live, Exists, Child
    <2>3. Target(i) \in Rows /\ Target(i)[1] = "target" /\ Exists(db, Target(i)) /\ db[Target(i)].user = u
        BY <2>1, <2>2, Kinds DEF Target
    <2>4. CASE Target(i) \in DOMAIN w
        <3>1. w[Target(i)].user = u /\ w[Target(i)].is_active
            BY <1>0, <1>2, <1>5, <2>3, <2>4 DEF TargetsInv, TargetsHeld
        <3> QED BY <1>1, <1>2, <1>3, <2>3, <2>4, <3>1 DEF Exists
    <2>5. CASE Target(i) \notin DOMAIN w
        BY <1>1, <1>2, <1>3, <1>5, <2>3, <2>5 DEF Exists, Live
    <2> QED BY <2>4, <2>5
<1>6. CASE kind = "add"
    <2>1. CASE w[r].is_active
        BY <1>2, <1>3, <2>1
    <2>2. CASE Listed(u)
        <3>1. Exists(View(p), User(u))
            BY <1>1, <1>2, <1>3, <1>p DEF Commit, Schema, Owned, Child
        <3>2. ~Exists(db, User(p))
            BY <1>1 DEF Inv, Request, Fresh
        <3>3. u \in Ids /\ User(u) \in Rows /\ Past(u)
            BY <1>0, <1>1, <1>6, Kinds DEF TargetsInv, TargetKnown
        <3>4. Exists(db, User(u))
            <4>1. u # p
                BY <1>1, <3>3 DEF Past
            <4>2. User(u) \in DOMAIN w => Exists(db, User(u))
                BY <1>p, <3>3, <4>1 DEF Inv, Data, OwnRows
            <4> QED BY <1>p, <3>1, <3>3, <4>2, Seen DEF Exists
        <3>5. PICK s \in Rows : IsTarget(db, s, u)
            BY <2>2, <3>4 DEF Listed
        <3>6. PICK q \in Rows : q[1] = "target" /\ Exists(db, q) /\ db[q].user = u /\ (~db[q].live \/ db[q].is_active)
            BY <3>5 DEF Lens, IsTarget, ChildOf, Exists
        <3>7. q \notin DOMAIN w
            <4>1. ~Exists(db, Target(p))
                BY <1>1 DEF TargetsInv, TargetKnown
            <4>2. q \in DOMAIN w => q = Target(p)
                BY <1>0, <1>6, <3>6 DEF TargetsInv, TargetsHeld
            <4> QED BY <3>6, <4>1, <4>2
        <3> QED BY <1>1, <1>2, <1>3, <3>6, <3>7 DEF Exists
    <2> QED BY <1>2, <1>6, <2>1, <2>2
<1> QED BY <1>2, <1>4, <1>5, <1>6

LEMMA LensKeeps ==
    Inv /\ Inv' /\ Schema /\ ReminderSafe /\ Late /\ TargetsInv /\ Lens(db) /\ [Next]_vars => Lens(db)'
<1> SUFFICES ASSUME Inv, Inv', Schema, ReminderSafe, Late, TargetsInv, Lens(db), [Next]_vars,
                    NEW r \in Rows, r[1] = "target", Exists(db', r)
             PROVE  \E q \in Rows : /\ q[1] = "target" /\ Exists(db', q) /\ db'[q].user = db'[r].user
                                    /\ ~db'[q].live \/ db'[q].is_active
    BY DEF Lens, Exists
<1>1. CASE UNCHANGED db
    BY <1>1 DEF Lens, Exists
<1>2. ASSUME NEW p \in Requests, Commit(p), r \in DOMAIN pending[p]
      PROVE  \E q \in Rows : /\ q[1] = "target" /\ Exists(db', q) /\ db'[q].user = db'[r].user
                             /\ ~db'[q].live \/ db'[q].is_active
    BY <1>2, LensOfCommit
<1>3. ASSUME NEW p \in Transactions, Commit(p), r \notin DOMAIN pending[p]
      PROVE  \E q \in Rows : /\ q[1] = "target" /\ Exists(db', q) /\ db'[q].user = db'[r].user
                             /\ ~db'[q].live \/ db'[q].is_active
    <2>1. \A s \in Rows : db'[s] = IF s \in DOMAIN pending[p] THEN pending[p][s] ELSE db[s]
        BY <1>3, Committed
    <2>2. db'[r] = db[r] /\ Exists(db, r)
        BY <1>3, <2>1 DEF Exists
    <2>3. PICK s \in Rows : /\ s[1] = "target" /\ Exists(db, s) /\ db[s].user = db[r].user
                            /\ ~db[s].live \/ db[s].is_active
        BY <2>2 DEF Lens
    <2>4. CASE s \notin DOMAIN pending[p]
        BY <2>1, <2>2, <2>3, <2>4 DEF Exists
    <2>5. CASE s \in DOMAIN pending[p] /\ p = Purger
        <3>1. User(db[s].user) \in DOMAIN pending[p]
            BY <2>3, <2>5 DEF TargetsInv, PurgesWhole, Child
        <3>2. \A q \in DOMAIN pending[p] : q \in Rows /\ pending[p][q] = Absent
            BY <2>5, Seen
        <3>3. ~Exists(db', User(db[r].user))
            BY <2>1, <2>3, <3>1, <3>2 DEF Exists
        <3>4. Owned(db')
            BY <1>3 DEF Commit, Schema
        <3> QED BY <2>2, <3>3, <3>4 DEF Owned, Child
    <2>6. CASE s \in DOMAIN pending[p] /\ p # Purger
        <3>1. p \in Requests /\ pending[p][s].user = cmd[p].user /\ s \in LiveTargets(db, cmd[p].user)
            BY <2>3, <2>6, TargetWrites
        <3>2. db'[s].user = db'[r].user
            BY <2>1, <2>2, <2>3, <2>6, <3>1 DEF LiveTargets
        <3>3. \E q \in Rows : /\ q[1] = "target" /\ Exists(db', q) /\ db'[q].user = db'[s].user
                              /\ ~db'[q].live \/ db'[q].is_active
            BY <1>3, <2>3, <2>6, <3>1, LensOfCommit
        <3> QED BY <3>2, <3>3
    <2> QED BY <2>4, <2>5, <2>6
<1>4. ASSUME NEW p \in Transactions, Commit(p), r \in DOMAIN pending[p] PROVE p \in Requests
    <2>1. p # Purger
        BY <1>4, Committed, Seen DEF Exists
    <2> QED BY <1>4, <2>1, TargetWrites
<1> QED BY <1>1, <1>2, <1>3, <1>4, OnlyCommits

\* While no target of a student was removed, exactly one of them is the lens, also when
\* first targets or activations race.
THEOREM ExactlyOneLensHolds == Spec => []ExactlyOneLens
<1>1. Unique(db) /\ Lens(db) => ExactlyOneLens
    <2> SUFFICES ASSUME Unique(db), Lens(db), NEW i \in Ids, NEW all,
                        all = {r \in Rows : r[1] = "target" /\ ChildOf(r, db[r], i)},
                        all # {}, all = LiveTargets(db, i)
                 PROVE  Cardinality({r \in all : db[r].is_active}) = 1
        BY DEF ExactlyOneLens
    <2>1. PICK r \in all : TRUE
        OBVIOUS
    <2>2. \A s \in all : s \in Rows /\ s[1] = "target" /\ Live(db, s) /\ db[s].user = i
        BY DEF LiveTargets
    <2>3. PICK q \in Rows : q[1] = "target" /\ Exists(db, q) /\ db[q].user = i /\ (~db[q].live \/ db[q].is_active)
        BY <2>1, <2>2 DEF Lens, Live, Exists
    <2>4. q \in all
        BY <2>3 DEF ChildOf, Child, Exists
    <2>5. q \in all /\ db[q].is_active
        BY <2>2, <2>3, <2>4 DEF Live
    <2>6. ASSUME NEW s \in all, db[s].is_active PROVE s = q
        <3>1. <<"lens", i>> \in Keys(s, db[s]) /\ <<"lens", i>> \in Keys(q, db[q])
            BY <2>2, <2>5, <2>6 DEF Keys, TargetKeys, Live
        <3> QED BY <2>2, <2>5, <3>1 DEF Unique
    <2>7. {s \in all : db[s].is_active} = {q}
        BY <2>5, <2>6
    <2> QED BY <2>7, FS_Singleton
<1>2. Init => Lens(db)
    BY StartAssumption DEF Init, Lens
<1>3. Schema => Unique(db)
    BY DEF Schema
<1> QED BY <1>1, <1>2, <1>3, LensKeeps, SchemaHolds, RemindersHold, AccountsHold, PTL DEF Spec

-----------------------------------------------------------------------------
(* Deadlocks: of the transactions that hold rows and wait, a deletion      *)
(* waits for none, an activation for deletions only, the purge for those   *)
(* two, and a registration for those three.                                *)

\* Where the purger can be.
AtPurge == pc[Purger] \in {"idle", "purge", "commit"}

LEMMA AtPurgeKeeps == Inv /\ AtPurge /\ [Next]_vars => AtPurge'
<1> SUFFICES ASSUME Inv, AtPurge, [Next]_vars PROVE AtPurge'
    OBVIOUS
<1>p. Purger \in Transactions /\ Purger \notin Requests /\ Purger # Reminder
    BY JobsApart
<1>1. ASSUME NEW q \in Transactions, Stop(q) \/ Commit(q) PROVE AtPurge'
    BY <1>1, <1>p, EndsFrame DEF Inv, Stop, Commit, AtPurge, Untouched
<1>2. ASSUME NEW q \in Transactions, Look(q) PROVE AtPurge'
    BY <1>2, <1>p DEF Look, AtPurge, Untouched
<1>3. ASSUME NEW q \in Requests \union {Reminder}, Wrote(q) PROVE AtPurge'
    BY <1>3, <1>p DEF Wrote, AtPurge, Untouched
<1>4. CASE Rest \/ \E i \in Ids : Purged(i)
    BY <1>4 DEF Rest, Purged, AtPurge
<1> QED BY <1>1, <1>2, <1>3, <1>4, Moves

\* The keys of two tables are never equal; a key of a target names its student.
LEMMA KeyTags ==
    ASSUME NEW r \in Rows, NEW row, NEW k \in Keys(r, row)
    PROVE  /\ row # Absent /\ row.live
           /\ r[1] = "user" => k[1] = "email"
           /\ r[1] = "identity" => k[1] \in {"provider", "subject"}
           /\ r[1] = "device" => k[1] = "token"
           /\ r[1] = "target" => k[1] \in {"exam", "lens"} /\ k[2] = row.user
<1>1. row # Absent /\ row.live
    BY NoKeys
<1>2. CASE r[1] = "user"
    BY <1>1, <1>2 DEF Keys, UserKeys
<1>3. CASE r[1] = "identity"
    BY <1>1, <1>3 DEF Keys, IdentityKeys
<1>4. CASE r[1] = "device"
    BY <1>1, <1>4 DEF Keys, DeviceKeys
<1>5. CASE r[1] = "target"
    BY <1>1, <1>5 DEF Keys, TargetKeys
<1> QED BY <1>1, <1>2, <1>3, <1>4, <1>5, Named

\* A transaction that waits and holds rows, and is not the reminder job.
Entangled(p) == p \in Transactions \ {Reminder} /\ Waits(p) # {} /\ DOMAIN pending[p] # {}

LEMMA EntangledAt ==
    ASSUME Inv, Late, AtPurge, NEW p, Entangled(p)
    PROVE  \/ p = Purger /\ pc[p] = "purge"
           \/ /\ p \in Requests /\ p # Purger /\ Waits(p) = Blockers(p, WritesOf(p))
              /\ pc[p] \in {"add_identity", "retire_identities", "retire_devices", "set_active"}
<1>1. CASE p = Purger
    <2>1. pc[p] # "purge" => WritesOf(p) = Nothing /\ Waits(p) = Blockers(p, WritesOf(p))
        BY <1>1 DEF AtPurge, WritesOf, Waits
    <2>2. Blockers(p, Nothing) = {}
        BY EmptyOverlay DEF Blockers
    <2> QED BY <1>1, <2>1, <2>2 DEF Entangled
<1>2. CASE p # Purger
    <2>1. p \in Requests
        BY <1>2 DEF Entangled, Transactions, Jobs
    <2>2. pc[p] \in Holding
        BY <2>1 DEF Late, UsersHeld, Entangled
    <2>3. Waits(p) = Blockers(p, WritesOf(p))
        BY <2>2 DEF Waits, Holding
    <2>4. pc[p] # "commit"
        <3>1. Blockers(p, Nothing) = {}
            BY EmptyOverlay DEF Blockers
        <3> QED BY <2>3, <3>1 DEF WritesOf, Entangled
    <2> QED BY <1>2, <2>1, <2>2, <2>3, <2>4 DEF Holding
<1> QED BY <1>1, <1>2

LEMMA HeldRows ==
    ASSUME Inv, Late, TargetsInv, AtPurge, NEW q, Entangled(q), NEW s \in DOMAIN pending[q]
    PROVE  /\ s \in Rows
           /\ q = Purger =>
                  /\ pending[q][s] = Absent /\ Exists(db, s)
                  /\ Child(s) => User(db[s].user) \in DOMAIN pending[q]
           /\ q # Purger => pending[q][s] # Absent
           /\ q # Purger /\ pc[q] = "add_identity" => s = User(q) /\ ~Exists(db, s)
           /\ q # Purger /\ pc[q] \in {"retire_identities", "retire_devices"} =>
                  /\ User(cmd[q].user) \in DOMAIN pending[q]
                  /\ s[1] = "user" \/ (s[1] = "identity" /\ db[s].user = cmd[q].user)
           /\ q # Purger /\ pc[q] = "set_active" =>
                  /\ s[1] = "target" /\ Live(db, s) /\ db[s].is_active /\ db[s].user = cmd[q].user
                  /\ pending[q][s].user = cmd[q].user
<1>1. q \in Transactions /\ (q # Purger => q \in Requests)
    BY EntangledAt DEF Entangled
<1>2. s \in Rows /\ (q # Purger => pending[q][s] # Absent)
    BY <1>1, Seen
<1>3. CASE q = Purger
    BY <1>1, <1>2, <1>3, Seen DEF TargetsInv, PurgesWhole
<1>4. CASE q # Purger /\ pc[q] = "add_identity"
    BY <1>1, <1>2, <1>4 DEF Late, UsersHeld, Inv, Request, Fresh
<1>5. CASE q # Purger /\ pc[q] \in {"retire_identities", "retire_devices"}
    <2>1. Deletes(q) /\ Tables(pc[q]) \subseteq {"identity"}
        BY <1>1, <1>5, KindOf DEF Deletes, Tables
    <2> QED BY <1>1, <1>2, <1>5, <2>1 DEF Late, DeletionHeld, User
<1>6. CASE q # Purger /\ pc[q] = "set_active"
    <2>1. cmd[q].kind = "activate"
        BY <1>1, <1>6, KindOf
    <2> QED BY <1>1, <1>2, <1>6, <2>1 DEF TargetsInv, TargetsHeld, LiveTargets
<1> QED BY <1>1, <1>2, <1>3, <1>4, <1>5, <1>6, EntangledAt

\* A deletion waits for nobody who is entangled.
LEMMA DeletionFree ==
    ASSUME Inv, Late, TargetsInv, AtPurge, NEW p, NEW q, Entangled(p), Entangled(q), p # Purger, q # p,
           pc[p] \in {"retire_identities", "retire_devices"}, q \in Waits(p)
    PROVE  FALSE
<1> DEFINE w == WritesOf(p)
           u == cmd[p].user
           table == IF pc[p] = "retire_identities" THEN "identity" ELSE "device"
<1>1. p \in Requests /\ q \in Transactions /\ p \in Transactions /\ q \in Blockers(p, w)
    BY EntangledAt DEF Entangled
<1>2. PICK r \in DOMAIN w, s \in DOMAIN pending[q] :
          \/ r = s
          \/ Keys(r, w[r]) \intersect (Keys(s, pending[q][s]) \union Keys(s, db[s])) # {}
          \/ r[1] = "user" /\ w[r] = Absent /\ ChildOf(s, pending[q][s], r[2])
          \/ s[1] = "user" /\ pending[q][s] = Absent /\ ChildOf(r, w[r], s[2])
    <2> HIDE DEF w
    <2> QED BY <1>1 DEF Blockers
<1>3. /\ User(u) \in DOMAIN pending[p]
      /\ \A x \in DOMAIN pending[p] : x[1] # table
    <2>1. Deletes(p) /\ table \notin Tables(pc[p]) /\ table # "user"
        BY <1>1, KindOf DEF Deletes, Tables
    <2> QED BY <1>1, <2>1 DEF Late, DeletionHeld, User
<1>4. r \in Rows /\ r[1] = table /\ db[r].user = u /\ ~w[r].live /\ w[r].user = u
    BY <1>1, <1>3, RetireWrites
<1>5. User(u) \notin DOMAIN pending[q]
    BY <1>1, <1>3 DEF Inv, Data, Exclusive
<1> HIDE DEF w, u
<1>6. table \in {"identity", "device"} /\ Child(r)
    BY <1>4 DEF Child
<1>7. r = s \/ (s[1] = "user" /\ pending[q][s] = Absent /\ w[r].user = s[2])
    BY <1>2, <1>4, <1>6, NoKeys DEF ChildOf
<1>8. s = User(s[2]) \/ s[1] # "user"
    BY HeldRows, Named
<1>9. CASE q = Purger
    BY <1>4, <1>5, <1>6, <1>7, <1>8, <1>9, HeldRows
<1>10. CASE q # Purger
    <2>1. r = s
        BY <1>7, <1>10, HeldRows
    <2>2. s[1] \in {"identity", "device"}
        BY <1>4, <1>6, <2>1
    <2>3. pc[q] \in {"retire_identities", "retire_devices"}
        <3>1. pc[q] # "add_identity"
            <4>1. \A i : User(i)[1] = "user"
                BY DEF User
            <4> QED BY <1>10, <2>2, <4>1, HeldRows
        <3>2. pc[q] # "set_active"
            BY <1>10, <2>2, HeldRows
        <3> QED BY <1>10, <3>1, <3>2, EntangledAt
    <2>4. User(cmd[q].user) \in DOMAIN pending[q] /\ db[s].user = cmd[q].user
        BY <1>10, <2>2, <2>3, HeldRows
    <2> QED BY <1>4, <1>5, <2>1, <2>4
<1> QED BY <1>9, <1>10

LEMMA KeysMeet ==
    ASSUME NEW r \in Rows, NEW s \in Rows, NEW x, NEW y, Keys(r, x) \intersect Keys(s, y) # {}
    PROVE  r[1] = s[1] /\ (r[1] = "target" => x.user = y.user)
<1>1. PICK k : k \in Keys(r, x) /\ k \in Keys(s, y)
    OBVIOUS
<1>2. /\ r[1] = "user" => k[1] = "email"
      /\ r[1] = "identity" => k[1] \in {"provider", "subject"}
      /\ r[1] = "device" => k[1] = "token"
      /\ r[1] = "target" => k[1] \in {"exam", "lens"} /\ k[2] = x.user
    BY <1>1, KeyTags
<1>3. /\ s[1] = "user" => k[1] = "email"
      /\ s[1] = "identity" => k[1] \in {"provider", "subject"}
      /\ s[1] = "device" => k[1] = "token"
      /\ s[1] = "target" => k[1] \in {"exam", "lens"} /\ k[2] = y.user
    BY <1>1, KeyTags
<1> QED BY <1>2, <1>3, Named

\* An activation that has cleared the student's lens waits for none of the others.
LEMMA ActivationFree ==
    ASSUME Inv, Schema, Late, TargetsInv, AtPurge, NEW p, NEW q, Entangled(p), Entangled(q), p # Purger, q # p,
           pc[p] = "set_active", q = Purger \/ pc[q] \in {"add_identity", "set_active"}, q \in Waits(p)
    PROVE  FALSE
<1> DEFINE w == WritesOf(p)
           u == cmd[p].user
<1>1. p \in Requests /\ q \in Transactions /\ p \in Transactions /\ q \in Blockers(p, w)
    BY EntangledAt DEF Entangled
<1>2. PICK r \in DOMAIN w, s \in DOMAIN pending[q] :
          \/ r = s
          \/ Keys(r, w[r]) \intersect (Keys(s, pending[q][s]) \union Keys(s, db[s])) # {}
          \/ r[1] = "user" /\ w[r] = Absent /\ ChildOf(s, pending[q][s], r[2])
          \/ s[1] = "user" /\ pending[q][s] = Absent /\ ChildOf(r, w[r], s[2])
    <2> HIDE DEF w
    <2> QED BY <1>1 DEF Blockers
<1>3. r \in Rows /\ r[1] = "target" /\ Child(r) /\ w[r].user = u /\ View(p)[r].user = u
    <2>1. r \in LiveTargets(View(p), u) /\ w[r].user = u
        BY <1>1, SetWrites
    <2> HIDE DEF w, u
    <2> QED BY <2>1 DEF LiveTargets, Child
<1>4. PICK a \in DOMAIN pending[p] : TRUE
    BY DEF Entangled
<1>5. /\ a \in Rows /\ a[1] = "target" /\ Child(a) /\ Live(db, a) /\ db[a].is_active /\ db[a].user = u
      /\ pending[p][a] # Absent /\ pending[p][a].user = u
    BY HeldRows DEF Child
<1>6. s \in Rows /\ s \notin DOMAIN pending[p] /\ a \notin DOMAIN pending[q]
    <2>1. s \in Rows
        BY HeldRows
    <2>2. DOMAIN pending[p] \intersect DOMAIN pending[q] = {}
        BY <1>1 DEF Inv, Data, Exclusive
    <2> QED BY <2>1, <2>2
<1> HIDE DEF w, u
<1>7. r = s => db[s].user = u
    BY <1>1, <1>3, <1>6, Seen
<1>8. \/ s[1] = "target" /\ (db[s].user = u \/ (pending[q][s].user = u /\ Keys(s, pending[q][s]) # {}))
      \/ s[1] = "user" /\ pending[q][s] = Absent /\ s[2] = u
    <2>1. CASE Keys(r, w[r]) \intersect Keys(s, pending[q][s]) # {}
        BY <1>3, <1>6, <2>1, KeysMeet
    <2>2. CASE Keys(r, w[r]) \intersect Keys(s, db[s]) # {}
        <3>1. \A x, y : Keys(r, x) \intersect Keys(s, y) # {} =>
                            r[1] = s[1] /\ (r[1] = "target" => x.user = y.user)
            BY <1>3, <1>6, KeysMeet
        <3>2. r[1] = s[1] /\ (r[1] = "target" => w[r].user = db[s].user)
            BY <2>2, <3>1
        <3> QED BY <1>3, <3>2
    <2>3. CASE r = s
        <3>1. s[1] = "target"
            BY <1>3, <2>3
        <3> QED BY <1>7, <2>3, <3>1
    <2>4. CASE s[1] = "user" /\ pending[q][s] = Absent /\ ChildOf(r, w[r], s[2])
        BY <1>3, <2>4 DEF ChildOf
    <2>5. Keys(r, w[r]) \intersect (Keys(s, pending[q][s]) \union Keys(s, db[s])) # {}
              => \/ Keys(r, w[r]) \intersect Keys(s, pending[q][s]) # {}
                 \/ Keys(r, w[r]) \intersect Keys(s, db[s]) # {}
        OBVIOUS
    <2>6. r[1] # "user"
        BY <1>3
    <2> QED BY <1>2, <2>1, <2>2, <2>3, <2>4, <2>5, <2>6
<1>9. CASE q = Purger
    <2>1. pending[q][s] = Absent
        BY <1>9, HeldRows
    <2>2. Keys(s, pending[q][s]) = {}
        BY <2>1, NoKeys
    <2>3. User(u) \in DOMAIN pending[q] /\ pending[q][User(u)] = Absent
        <3>1. CASE s[1] = "user"
            BY <1>6, <1>8, <2>1, <3>1, Named
        <3>2. CASE s[1] # "user"
            <4>1. db[s].user = u /\ Child(s)
                BY <1>8, <2>2, <3>2 DEF Child
            <4>2. User(db[s].user) \in DOMAIN pending[q]
                BY <1>9, <4>1, HeldRows
            <4> QED BY <1>9, <4>1, <4>2, HeldRows
        <3> QED BY <3>1, <3>2
    <2>4. User(u)[1] = "user" /\ User(u)[2] = u
        BY DEF User
    <2>5. ~ChildOf(a, pending[p][a], User(u)[2])
        BY <1>1, <2>3, <2>4 DEF Schema, Apart
    <2> QED BY <1>5, <2>4, <2>5 DEF ChildOf
<1>10. CASE q # Purger /\ pc[q] = "add_identity"
    <2>1. \A i : User(i)[1] = "user"
        BY DEF User
    <2>2. s[1] = "user" /\ pending[q][s] # Absent
        BY <1>10, <2>1, HeldRows
    <2> QED BY <1>8, <2>2
<1>11. CASE q # Purger /\ pc[q] = "set_active"
    <2>1. /\ s[1] = "target" /\ Live(db, s) /\ db[s].is_active /\ db[s].user = cmd[q].user
          /\ pending[q][s].user = cmd[q].user
        BY <1>11, HeldRows
    <2>2. db[s].user = u
        BY <1>8, <2>1
    <2>3. <<"lens", u>> \in Keys(s, db[s]) /\ <<"lens", u>> \in Keys(a, db[a])
        BY <1>5, <2>1, <2>2 DEF Keys, TargetKeys, Live
    <2>4. a = s
        BY <1>5, <1>6, <2>3 DEF Schema, Unique
    <2> QED BY <1>6, <2>4
<1> QED BY <1>9, <1>10, <1>11

\* The purge does not wait for a request that has inserted its account.
LEMMA PurgeFree ==
    ASSUME Inv, Late, TargetsInv, AtPurge, NEW q, Entangled(Purger), Entangled(q), q # Purger,
           pc[q] = "add_identity", q \in Waits(Purger)
    PROVE  FALSE
<1>1. pc[Purger] = "purge"
    BY EntangledAt
<1>2. PICK i \in memo[Purger] : q \in Blockers(Purger, Purge(View(Purger), i))
    BY <1>1 DEF Waits
<1> DEFINE w == Purge(View(Purger), i)
<1>3. \A r \in DOMAIN w : r \in Rows /\ w[r] = Absent /\ Exists(db, r)
    BY PurgeDeletes DEF DeletesAccount, Exists
<1>4. PICK r \in DOMAIN w, s \in DOMAIN pending[q] :
          \/ r = s
          \/ Keys(r, w[r]) \intersect (Keys(s, pending[q][s]) \union Keys(s, db[s])) # {}
          \/ r[1] = "user" /\ w[r] = Absent /\ ChildOf(s, pending[q][s], r[2])
          \/ s[1] = "user" /\ pending[q][s] = Absent /\ ChildOf(r, w[r], s[2])
    <2> HIDE DEF w
    <2> QED BY <1>2 DEF Blockers, w
<1>5. s = User(q) /\ ~Exists(db, s) /\ pending[q][s] # Absent
    BY HeldRows
<1>6. s[1] = "user" /\ ~Child(s)
    BY <1>5 DEF User, Child
<1>7. Keys(r, w[r]) = {}
    BY <1>3, NoKeys
<1> HIDE DEF w
<1> QED BY <1>3, <1>4, <1>5, <1>6, <1>7 DEF ChildOf

\* Two requests that have inserted their accounts do not wait for each other.
LEMMA CreationFree ==
    ASSUME Inv, Late, TargetsInv, AtPurge, NEW p, NEW q, Entangled(p), Entangled(q), p # Purger, q # Purger,
           pc[p] = "add_identity", pc[q] = "add_identity", q \in Waits(p)
    PROVE  FALSE
<1> DEFINE w == WritesOf(p)
<1>1. p \in Requests /\ q \in Blockers(p, w)
    BY EntangledAt
<1>2. DOMAIN w = {Identity(p)}
    BY DEF WritesOf, AddIdentity, Put
<1>3. PICK r \in DOMAIN w, s \in DOMAIN pending[q] :
          \/ r = s
          \/ Keys(r, w[r]) \intersect (Keys(s, pending[q][s]) \union Keys(s, db[s])) # {}
          \/ r[1] = "user" /\ w[r] = Absent /\ ChildOf(s, pending[q][s], r[2])
          \/ s[1] = "user" /\ pending[q][s] = Absent /\ ChildOf(r, w[r], s[2])
    <2> HIDE DEF w
    <2> QED BY <1>1 DEF Blockers
<1>4. s = User(q) /\ pending[q][s] # Absent /\ s \in Rows
    BY HeldRows
<1>5. s[1] = "user" /\ r[1] = "identity" /\ r \in Rows
    <2>1. p \in Ids
        BY <1>1 DEF Ids
    <2>2. Identity(p) \in Rows /\ Identity(p)[1] = "identity" /\ User(q)[1] = "user"
        BY <2>1, Kinds DEF User, Identity
    <2> QED BY <1>2, <1>4, <2>2
<1>6. r # s
    BY <1>5
<1> HIDE DEF w
<1>7. /\ Keys(r, w[r]) \intersect Keys(s, pending[q][s]) = {}
      /\ Keys(r, w[r]) \intersect Keys(s, db[s]) = {}
    BY <1>4, <1>5, KeysMeet
<1> QED BY <1>3, <1>4, <1>5, <1>6, <1>7

\* Who waits for whom among those that hold rows: each kind for the kinds after it only.
LEMMA NoCycle == Inv /\ Schema /\ Late /\ TargetsInv /\ AtPurge => DeadlocksNeedTheReminder
<1> SUFFICES ASSUME Inv, Schema, Late, TargetsInv, AtPurge,
                    NEW S \in SUBSET {p \in Transactions \ {Reminder} : Waits(p) # {}},
                    Deadlocked(S)
             PROVE  FALSE
    BY DEF DeadlocksNeedTheReminder
<1>1. \A p \in S : \E q \in S : q \in Waits(p) /\ q # p /\ Entangled(q)
    <2> SUFFICES ASSUME NEW p \in S PROVE \E q \in S : q \in Waits(p) /\ q # p /\ Entangled(q)
        OBVIOUS
    <2>1. PICK q \in S : q \in Waits(p)
        BY DEF Deadlocked
    <2>2. q # p /\ DOMAIN pending[q] # {}
        <3>1. CASE pc[p] # "purge"
            BY <2>1, <3>1 DEF Waits, Blockers
        <3>2. CASE pc[p] = "purge"
            <4>1. PICK i \in memo[p] : q \in Blockers(p, Purge(View(p), i))
                BY <2>1, <3>2 DEF Waits
            <4> QED BY <4>1 DEF Blockers
        <3> QED BY <3>1, <3>2
    <2> QED BY <2>1, <2>2 DEF Entangled
<1>2. \A p \in S : Entangled(p) => p = Purger \/ pc[p] \in {"add_identity", "set_active"}
    BY <1>1, DeletionFree, EntangledAt
<1>3. \A p \in S : Entangled(p) => p = Purger \/ pc[p] = "add_identity"
    BY <1>1, <1>2, ActivationFree
<1>4. \A p \in S : Entangled(p) => p # Purger /\ pc[p] = "add_identity"
    BY <1>1, <1>3, PurgeFree
<1>5. \A p \in S : ~Entangled(p)
    BY <1>1, <1>4, CreationFree
<1> QED BY <1>1, <1>5 DEF Deadlocked

\* Requests and the purge never deadlock: a wait cycle needs the reminder job, which
\* locks devices before users where the deletion locks users before devices.
THEOREM DeadlocksHold == Spec => []DeadlocksNeedTheReminder
<1>1. Init => AtPurge
    BY JobsApart DEF Init, AtPurge
<1> QED BY <1>1, AtPurgeKeeps, NoCycle, SchemaHolds, AccountsHold, InvHolds, PTL DEF Spec
=============================================================================
