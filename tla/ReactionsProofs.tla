-------------------------- MODULE ReactionsProofs --------------------------
(***************************************************************************)
(* For any number of requests, workers and submissions, any prices and any *)
(* budget: every line shown is the line stored, a stored line stays, the   *)
(* tokens of a lost race are kept, and nobody calls the engine once the    *)
(* budget was spent.  The argument: only the request that holds the key of *)
(* a beat commits a line for it, and what it holds was computed from the   *)
(* row that is still there; so the two sums of a check, read apart, are    *)
(* together at least what the month had spent when the first was read.     *)
(***************************************************************************)
EXTENDS Reactions, Sums

Steps == {"idle", "check", "sum", "call", "store", "commit", "failed"}
Call  == [line : Lines \cup {None}, tokens : Nat]

\* The types of what the lines need; the budget's are in BudgetInv.
Typed ==
    /\ month \in 0..LastMonth
    /\ reactions \in [Submissions -> Reaction \cup {None}]
    /\ step \in [Callees -> Steps]
    /\ asked \in [Callees -> Submissions \cup {None}]
    /\ since \in [Callees -> 0..LastMonth]
    /\ made \in [Callees -> Call]
    /\ held \in [Callees -> Reaction \cup {None}]
    /\ answers \subseteq [submission : Submissions, line : Lines]
    /\ billed \in [Submissions -> Nat]

Ready(p) ==
    /\ step[p] \in {"store", "commit"} => made[p].line \in Lines
    /\ p \in Callers /\ step[p] \notin {"idle", "failed"} => asked[p] \in Submissions
    /\ step[p] = "commit" <=> held[p] # None

\* The row a request brings to the upsert.
Brought(c) == [line |-> made[c].line, tokens |-> made[c].tokens, month |-> since[c]]

OneHolder ==
    \A c, d \in Callers :
        held[c] # None /\ held[d] # None /\ asked[c] = asked[d] => c = d

HeldFollows ==
    \A c \in Callers : held[c] # None => held[c] = Upserted(reactions[asked[c]], Brought(c))

\* The inductive invariant.
RInv ==
    /\ Typed
    /\ \A p \in Callees : Ready(p)
    /\ OneHolder
    /\ HeldFollows
    /\ AnswersAreStored
    /\ TokensOfBeat

-----------------------------------------------------------------------------
LEMMA InitR == Init => RInv
<1> SUFFICES ASSUME Init PROVE RInv
    OBVIOUS
<1>1. Typed
    BY BoundsAssumption DEF Init, Typed, Steps, Call, NoCall
<1>2. \A p \in Callees : Ready(p)
    BY DEF Init, Ready
<1>3. OneHolder /\ HeldFollows
    BY DEF Init, OneHolder, HeldFollows, Callees
<1>4. AnswersAreStored /\ TokensOfBeat
    BY DEF Init, AnswersAreStored, TokensOfBeat
<1> QED BY <1>1, <1>2, <1>3, <1>4 DEF RInv

\* A row brought or held is a reaction, and a reaction is not None.
LEMMA UpsertedRow ==
    ASSUME NEW old \in Reaction \cup {None}, NEW new \in Reaction
    PROVE  /\ Upserted(old, new) \in Reaction
           /\ Upserted(old, new) # None
           /\ old # None => /\ Upserted(old, new).line = old.line
                            /\ Upserted(old, new).month = old.month
           /\ Upserted(old, new).tokens
                  = (IF old = None THEN 0 ELSE old.tokens) + new.tokens
<1>1. None \notin Reaction
    BY NamesAssumption DEF Reaction
<1>2. CASE old = None
    BY <1>1, <1>2 DEF Upserted, Reaction
<1>3. CASE old # None
    BY <1>1, <1>3 DEF Upserted, Reaction
<1> QED BY <1>2, <1>3

-----------------------------------------------------------------------------
(* A step of one process that writes no row and shows nothing: it holds    *)
(* nothing when the step is done.                                          *)
LEMMA QuietStep ==
    ASSUME RInv, NEW p \in Callees,
           UNCHANGED <<month, reactions, answers, billed>>,
           NEW w \in Steps \ {"commit"}, step' = [step EXCEPT ![p] = w],
           NEW s \in Submissions \cup {None}, asked' = [asked EXCEPT ![p] = s],
           NEW m \in 0..LastMonth, since' = [since EXCEPT ![p] = m],
           NEW k \in Call, made' = [made EXCEPT ![p] = k],
           held' = [held EXCEPT ![p] = None],
           w = "store" => k.line \in Lines,
           p \in Callers /\ w \notin {"idle", "failed"} => s \in Submissions
    PROVE  RInv'
<1>1. Typed'
    BY DEF RInv, Typed
<1>2. ASSUME NEW q \in Callees PROVE Ready(q)'
    <2>1. CASE q = p
        BY <2>1 DEF RInv, Typed, Ready, Steps
    <2>2. CASE q # p
        BY <2>2 DEF RInv, Typed, Ready
    <2> QED BY <2>1, <2>2
<1>3. \A c \in Callers : held'[c] # None => c # p /\ held'[c] = held[c]
                                            /\ asked'[c] = asked[c]
    BY DEF RInv, Typed, Callees
<1>4. OneHolder'
    BY <1>3 DEF RInv, OneHolder
<1>5. HeldFollows'
    <2> SUFFICES ASSUME NEW c \in Callers, held'[c] # None
                 PROVE  held'[c] = Upserted(reactions'[asked'[c]], Brought(c)')
        BY DEF HeldFollows
    <2>1. c # p /\ made'[c] = made[c] /\ since'[c] = since[c]
        BY <1>3 DEF RInv, Typed, Callees
    <2> QED BY <1>3, <2>1 DEF RInv, HeldFollows, Brought
<1>6. AnswersAreStored' /\ TokensOfBeat'
    BY DEF RInv, AnswersAreStored, TokensOfBeat
<1> QED BY <1>1, <1>2, <1>4, <1>5, <1>6 DEF RInv

\* What a process that is not committing holds.
LEMMA HoldsNothing ==
    ASSUME RInv, NEW p \in Callees, step[p] # "commit"
    PROVE  held = [held EXCEPT ![p] = None] /\ held[p] = None
BY DEF RInv, Typed, Ready

\* Unchanged functions, in the form QuietStep asks for.
LEMMA Kept ==
    ASSUME RInv, NEW p \in Callees
    PROVE  /\ asked = [asked EXCEPT ![p] = asked[p]] /\ asked[p] \in Submissions \cup {None}
           /\ since = [since EXCEPT ![p] = since[p]] /\ since[p] \in 0..LastMonth
           /\ made = [made EXCEPT ![p] = made[p]] /\ made[p] \in Call
           /\ month \in 0..LastMonth
BY DEF RInv, Typed

LEMMA EndsStep ==
    ASSUME RInv, NEW p \in Callees, NEW how \in {"idle", "failed"}, Ends(p, how),
           UNCHANGED <<month, reactions, answers, billed>>
    PROVE  RInv'
<1>1. NoCall \in Call /\ 0 \in 0..LastMonth
    BY BoundsAssumption DEF NoCall, Call
<1>2. how \in Steps \ {"commit"}
    BY DEF Steps
<1>3. /\ step' = [step EXCEPT ![p] = how]
      /\ asked' = [asked EXCEPT ![p] = None]
      /\ since' = [since EXCEPT ![p] = 0]
      /\ made' = [made EXCEPT ![p] = NoCall]
      /\ held' = [held EXCEPT ![p] = None]
    BY DEF Ends
<1> QED BY <1>1, <1>2, <1>3, QuietStep

-----------------------------------------------------------------------------
LEMMA AskStoredStep ==
    ASSUME RInv, NEW c \in Callers, NEW s \in Submissions, AskStored(c, s)
    PROVE  RInv'
<1> USE DEF AskStored, rows, local
<1>1. reactions[s].line \in Lines
    BY DEF RInv, Typed, Reaction
<1>2. Typed'
    BY <1>1 DEF RInv, Typed
<1>3. (\A p \in Callees : Ready(p))' /\ OneHolder' /\ HeldFollows' /\ TokensOfBeat'
    BY DEF RInv, Ready, OneHolder, HeldFollows, Brought, TokensOfBeat
<1>4. AnswersAreStored'
    BY DEF RInv, AnswersAreStored
<1> QED BY <1>2, <1>3, <1>4 DEF RInv

LEMMA AskMissingStep ==
    ASSUME RInv, NEW c \in Callers, NEW s \in Submissions, AskMissing(c, s)
    PROVE  RInv'
<1>1. c \in Callees
    BY DEF Callees
<1>2. held' = [held EXCEPT ![c] = None] /\ made' = [made EXCEPT ![c] = made[c]]
    BY <1>1, HoldsNothing, Kept DEF AskMissing
<1>3. "check" \in Steps \ {"commit"}
    BY DEF Steps
<1>4. /\ step' = [step EXCEPT ![c] = "check"]
      /\ asked' = [asked EXCEPT ![c] = s]
      /\ since' = [since EXCEPT ![c] = month]
      /\ UNCHANGED <<month, reactions, answers, billed>>
    BY DEF AskMissing, rows, ghost
<1>5. month \in 0..LastMonth /\ made[c] \in Call /\ asked[c] \in Submissions \cup {None}
    BY <1>1, Kept
<1> QED BY <1>1, <1>2, <1>3, <1>4, <1>5, QuietStep

LEMMA BeginEvaluationStep ==
    ASSUME RInv, NEW s \in Submissions, BeginEvaluation(s)
    PROVE  RInv'
<1>1. s \in Callees /\ s \notin Callers
    BY NamesAssumption DEF Callees
<1>2. /\ held' = [held EXCEPT ![s] = None]
      /\ made' = [made EXCEPT ![s] = made[s]]
      /\ asked' = [asked EXCEPT ![s] = asked[s]]
    BY <1>1, HoldsNothing, Kept DEF BeginEvaluation
<1>3. "check" \in Steps \ {"commit"}
    BY DEF Steps
<1>4. /\ step' = [step EXCEPT ![s] = "check"]
      /\ since' = [since EXCEPT ![s] = month]
      /\ UNCHANGED <<month, reactions, answers, billed>>
    BY DEF BeginEvaluation, rows, ghost
<1>5. month \in 0..LastMonth /\ made[s] \in Call /\ asked[s] \in Submissions \cup {None}
    BY <1>1, Kept
<1> QED BY <1>1, <1>2, <1>3, <1>4, <1>5, QuietStep

\* The steps of the check, up to the call.
LEMMA CheckStep ==
    ASSUME RInv, NEW p \in Callees,
           SumEvaluations(p) \/ WithinBudget(p)
    PROVE  RInv'
<1>1. PICK w \in {"sum", "call"} : step' = [step EXCEPT ![p] = w]
    BY DEF SumEvaluations, WithinBudget
<1>2. w \in Steps \ {"commit"} /\ w # "store"
    BY DEF Steps
<1>3. UNCHANGED <<month, reactions, answers, billed, asked, since, made, held>>
    BY DEF SumEvaluations, WithinBudget, rows, local, ghost
<1>4. step[p] \in {"check", "sum"}
    BY DEF SumEvaluations, WithinBudget
<1>5. p \in Callers => asked[p] \in Submissions
    BY <1>4 DEF RInv, Ready
<1>6. /\ held' = [held EXCEPT ![p] = None]
      /\ asked' = [asked EXCEPT ![p] = asked[p]]
      /\ since' = [since EXCEPT ![p] = since[p]]
      /\ made' = [made EXCEPT ![p] = made[p]]
    BY <1>3, <1>4, HoldsNothing, Kept
<1> QED BY <1>1, <1>2, <1>3, <1>5, <1>6, Kept, QuietStep

LEMMA GenerateStep ==
    ASSUME RInv, NEW c \in Callers, Generate(c)
    PROVE  RInv'
<1>1. c \in Callees
    BY DEF Callees
<1>2. PICK line \in Lines, tokens \in Costs :
          made' = [made EXCEPT ![c] = [line |-> line, tokens |-> tokens]]
    BY DEF Generate
<1>3. [line |-> line, tokens |-> tokens] \in Call
    BY CostsAssumption DEF Call
<1>4. asked[c] \in Submissions
    BY <1>1 DEF RInv, Ready, Generate
<1>5. /\ held' = [held EXCEPT ![c] = None]
      /\ asked' = [asked EXCEPT ![c] = asked[c]]
      /\ since' = [since EXCEPT ![c] = since[c]]
    BY <1>1, HoldsNothing, Kept DEF Generate
<1>6. "store" \in Steps \ {"commit"}
    BY DEF Steps
<1>7. UNCHANGED <<month, reactions, answers, billed>> /\ step' = [step EXCEPT ![c] = "store"]
    BY DEF Generate, rows
<1>8. [line |-> line, tokens |-> tokens].line \in Lines
    OBVIOUS
<1> QED BY <1>1, <1>2, <1>3, <1>4, <1>5, <1>6, <1>7, <1>8, Kept, QuietStep

LEMMA FallsBackStep ==
    ASSUME RInv, NEW p \in Callees, OverBudget(p) \/ EngineFails(p) \/ Dies(p)
    PROVE  RInv'
<1>1. \E how \in {"idle", "failed"} : Ends(p, how)
    BY DEF OverBudget, EngineFails, Dies, FallsBack
<1>2. UNCHANGED <<month, reactions, answers, billed>>
    BY DEF OverBudget, EngineFails, Dies, rows
<1> QED BY <1>1, <1>2, EndsStep

LEMMA EvaluateStep ==
    ASSUME RInv, NEW s \in Submissions, Evaluate(s)
    PROVE  RInv'
<1>1. s \in Callees
    BY DEF Callees
<1> QED BY <1>1, EndsStep DEF Evaluate

LEMMA NextMonthStep ==
    ASSUME RInv, NextMonth
    PROVE  RInv'
<1> USE DEF NextMonth, rows, local, ghost
<1>1. Typed'
    BY BoundsAssumption DEF RInv, Typed
<1>2. (\A p \in Callees : Ready(p))' /\ OneHolder' /\ HeldFollows'
    BY DEF RInv, Ready, OneHolder, HeldFollows, Brought
<1>3. AnswersAreStored' /\ TokensOfBeat'
    BY DEF RInv, AnswersAreStored, TokensOfBeat
<1> QED BY <1>1, <1>2, <1>3 DEF RInv

-----------------------------------------------------------------------------
LEMMA BroughtRow ==
    ASSUME RInv, NEW c \in Callers, step[c] \in {"store", "commit"}
    PROVE  /\ c \in Callees
           /\ asked[c] \in Submissions
           /\ reactions[asked[c]] \in Reaction \cup {None}
           /\ Brought(c) \in Reaction
<1>1. c \in Callees
    BY DEF Callees
<1>2. asked[c] \in Submissions /\ made[c].line \in Lines
    BY <1>1 DEF RInv, Ready
<1>3. made[c].tokens \in Nat /\ since[c] \in 0..LastMonth
    BY <1>1 DEF RInv, Typed, Call
<1>4. Brought(c) \in Reaction
    BY <1>2, <1>3 DEF Brought, Reaction
<1> QED BY <1>1, <1>2, <1>4 DEF RInv, Typed

LEMMA StoreOrGetStep ==
    ASSUME RInv, NEW c \in Callers, StoreOrGet(c)
    PROVE  RInv'
<1> DEFINE row == Upserted(reactions[asked[c]], Brought(c))
<1>1. /\ step[c] = "store"
      /\ KeyFree(asked[c])
      /\ held' = [held EXCEPT ![c] = row]
      /\ step' = [step EXCEPT ![c] = "commit"]
      /\ UNCHANGED <<month, reactions, asked, since, made, answers, billed>>
    BY DEF StoreOrGet, Brought, rows, ghost
<1>2. /\ c \in Callees
      /\ asked[c] \in Submissions
      /\ row \in Reaction
      /\ row # None
    BY <1>1, BroughtRow, UpsertedRow
<1>3. Typed'
    BY <1>1, <1>2 DEF RInv, Typed, Steps
<1>4. ASSUME NEW q \in Callees PROVE Ready(q)'
    <2>1. CASE q = c
        BY <1>1, <1>2, <2>1 DEF RInv, Typed, Ready
    <2>2. CASE q # c
        BY <1>1, <2>2 DEF RInv, Typed, Ready
    <2> QED BY <2>1, <2>2
<1>5. OneHolder'
    BY <1>1, <1>2 DEF RInv, Typed, OneHolder, KeyFree, Callees
<1>6. HeldFollows'
    <2> SUFFICES ASSUME NEW d \in Callers, held'[d] # None
                 PROVE  held'[d] = Upserted(reactions[asked[d]], Brought(d))
        BY <1>1 DEF HeldFollows, Brought
    <2>1. CASE d = c
        BY <1>1, <1>2, <2>1 DEF RInv, Typed
    <2>2. CASE d # c
        BY <1>1, <2>2 DEF RInv, Typed, HeldFollows, Callees
    <2> QED BY <2>1, <2>2
<1>7. AnswersAreStored' /\ TokensOfBeat'
    BY <1>1 DEF RInv, AnswersAreStored, TokensOfBeat
<1> QED BY <1>3, <1>4, <1>5, <1>6, <1>7 DEF RInv

\* What a commit makes of the row of its beat.
LEMMA CommittedRow ==
    ASSUME RInv, NEW c \in Callers, Commit(c)
    PROVE  /\ c \in Callees
           /\ asked[c] \in Submissions
           /\ held[c] \in Reaction
           /\ held[c] # None
           /\ made[c].tokens \in Nat
           /\ reactions' = [reactions EXCEPT ![asked[c]] = held[c]]
           /\ reactions[asked[c]] # None =>
                  /\ reactions[asked[c]] \in Reaction
                  /\ held[c].line = reactions[asked[c]].line
                  /\ held[c].month = reactions[asked[c]].month
           /\ held[c].tokens = (IF reactions[asked[c]] = None THEN 0
                                ELSE reactions[asked[c]].tokens) + made[c].tokens
<1>1. step[c] = "commit" /\ reactions' = [reactions EXCEPT ![asked[c]] = held[c]]
    BY DEF Commit
<1>2. /\ c \in Callees
      /\ asked[c] \in Submissions
      /\ reactions[asked[c]] \in Reaction \cup {None}
      /\ Brought(c) \in Reaction
    BY <1>1, BroughtRow
<1>3. held[c] # None /\ held[c] = Upserted(reactions[asked[c]], Brought(c))
    BY <1>1, <1>2 DEF RInv, Ready, HeldFollows
<1>4. Brought(c).tokens = made[c].tokens /\ made[c].tokens \in Nat
    BY <1>2 DEF Brought, RInv, Typed, Call
<1> QED BY <1>1, <1>2, <1>3, <1>4, UpsertedRow

LEMMA CommitStep ==
    ASSUME RInv, NEW c \in Callers, Commit(c)
    PROVE  RInv'
<1> DEFINE s == asked[c]
<1>1. /\ c \in Callees
      /\ s \in Submissions
      /\ held[c] \in Reaction
      /\ held[c] # None
      /\ held[c].line \in Lines
      /\ made[c].tokens \in Nat
      /\ reactions' = [reactions EXCEPT ![s] = held[c]]
      /\ reactions[s] # None => /\ reactions[s] \in Reaction
                                /\ held[c].line = reactions[s].line
      /\ held[c].tokens
             = (IF reactions[s] = None THEN 0 ELSE reactions[s].tokens) + made[c].tokens
    BY CommittedRow DEF Reaction
<1>2. /\ answers' = answers \cup {[submission |-> s, line |-> held[c].line]}
      /\ billed' = [billed EXCEPT ![s] = billed[s] + made[c].tokens]
      /\ month' = month
    BY DEF Commit, Shown
<1>3. /\ step' = [step EXCEPT ![c] = "idle"]
      /\ asked' = [asked EXCEPT ![c] = None]
      /\ since' = [since EXCEPT ![c] = 0]
      /\ made' = [made EXCEPT ![c] = NoCall]
      /\ held' = [held EXCEPT ![c] = None]
    BY DEF Commit, Ends
<1> HIDE DEF s
<1>4. Typed'
    <2>1. NoCall \in Call /\ 0 \in 0..LastMonth /\ "idle" \in Steps
        BY BoundsAssumption DEF NoCall, Call, Steps
    <2>2. /\ step' \in [Callees -> Steps]
          /\ asked' \in [Callees -> Submissions \cup {None}]
          /\ since' \in [Callees -> 0..LastMonth]
          /\ made' \in [Callees -> Call]
          /\ held' \in [Callees -> Reaction \cup {None}]
        BY <1>3, <2>1 DEF RInv, Typed
    <2>3. reactions' \in [Submissions -> Reaction \cup {None}]
        BY <1>1 DEF RInv, Typed
    <2>4. billed' \in [Submissions -> Nat]
        BY <1>1, <1>2 DEF RInv, Typed
    <2>5. answers' \subseteq [submission : Submissions, line : Lines]
        BY <1>1, <1>2 DEF RInv, Typed
    <2> QED BY <1>2, <2>2, <2>3, <2>4, <2>5 DEF RInv, Typed
<1>5. ASSUME NEW q \in Callees PROVE Ready(q)'
    <2>1. CASE q = c
        BY <1>1, <1>3, <2>1 DEF RInv, Typed, Ready
    <2>2. CASE q # c
        BY <1>3, <2>2 DEF RInv, Typed, Ready
    <2> QED BY <2>1, <2>2
<1>6. ASSUME NEW d \in Callers, held'[d] # None
      PROVE  /\ d # c
             /\ held'[d] = held[d] /\ asked'[d] = asked[d]
             /\ made'[d] = made[d] /\ since'[d] = since[d]
    BY <1>1, <1>3, <1>6 DEF RInv, Typed, Callees
<1>7. OneHolder'
    BY <1>6 DEF RInv, OneHolder
<1>8. HeldFollows'
    <2> SUFFICES ASSUME NEW d \in Callers, held'[d] # None
                 PROVE  held'[d] = Upserted(reactions'[asked'[d]], Brought(d)')
        BY DEF HeldFollows
    <2>1. asked[d] # s
        BY <1>1, <1>6 DEF RInv, OneHolder, s
    <2>2. reactions'[asked[d]] = reactions[asked[d]]
        <3>1. asked[d] \in Submissions
            BY <1>6 DEF RInv, Ready, Callees, Typed
        <3> QED BY <1>1, <2>1, <3>1 DEF RInv, Typed
    <2>3. held[d] = Upserted(reactions[asked[d]], Brought(d))
        BY <1>6 DEF RInv, HeldFollows
    <2> QED BY <1>6, <2>2, <2>3 DEF Brought
<1>9. AnswersAreStored'
    <2> SUFFICES ASSUME NEW a \in answers'
                 PROVE  /\ reactions'[a.submission] # None
                        /\ reactions'[a.submission].line = a.line
        BY DEF AnswersAreStored
    <2>1. CASE a = [submission |-> s, line |-> held[c].line]
        BY <1>1, <2>1 DEF RInv, Typed
    <2>2. CASE a \in answers
        <3>1. /\ reactions[a.submission] # None
              /\ reactions[a.submission].line = a.line
              /\ a.submission \in Submissions
            BY <2>2 DEF RInv, Typed, AnswersAreStored
        <3> QED BY <1>1, <3>1 DEF RInv, Typed
    <2> QED BY <1>2, <2>1, <2>2
<1>10. TokensOfBeat'
    <2> SUFFICES ASSUME NEW u \in Submissions
                 PROVE  billed'[u] = IF reactions'[u] = None THEN 0 ELSE reactions'[u].tokens
        BY DEF TokensOfBeat
    <2>1. billed[u] = IF reactions[u] = None THEN 0 ELSE reactions[u].tokens
        BY DEF RInv, TokensOfBeat
    <2>2. CASE u = s
        BY <1>1, <1>2, <2>1, <2>2 DEF RInv, Typed
    <2>3. CASE u # s
        BY <1>1, <1>2, <2>1, <2>3 DEF RInv, Typed
    <2> QED BY <2>2, <2>3
<1> QED BY <1>4, <1>5, <1>7, <1>8, <1>9, <1>10 DEF RInv

-----------------------------------------------------------------------------
LEMMA NextR == RInv /\ [Next]_vars => RInv'
<1> SUFFICES ASSUME RInv, [Next]_vars PROVE RInv'
    OBVIOUS
<1>1. ASSUME NEW c \in Callers, CallerStep(c) PROVE RInv'
    BY <1>1, AskStoredStep, AskMissingStep, GenerateStep, StoreOrGetStep, CommitStep
       DEF CallerStep
<1>2. ASSUME NEW s \in Submissions, BeginEvaluation(s) \/ Evaluate(s) PROVE RInv'
    BY <1>2, BeginEvaluationStep, EvaluateStep
<1>3. ASSUME NEW p \in Callees, BudgetStep(p) PROVE RInv'
    BY <1>3, CheckStep, FallsBackStep DEF BudgetStep
<1>4. CASE NextMonth
    BY <1>4, NextMonthStep
<1>5. CASE UNCHANGED vars
    <2> USE <1>5 DEF vars, rows, local, ghost
    <2>1. Typed'
        BY DEF RInv, Typed
    <2>2. (\A p \in Callees : Ready(p))' /\ OneHolder' /\ HeldFollows'
        BY DEF RInv, Ready, OneHolder, HeldFollows, Brought
    <2>3. AnswersAreStored' /\ TokensOfBeat'
        BY DEF RInv, AnswersAreStored, TokensOfBeat
    <2> QED BY <2>1, <2>2, <2>3 DEF RInv
<1> QED BY <1>1, <1>2, <1>3, <1>4, <1>5 DEF Next

THEOREM RInvariant == Spec => []RInv
<1>1. Init => RInv
    BY InitR
<1>2. RInv /\ [Next]_vars => RInv'
    BY NextR
<1> QED BY <1>1, <1>2, PTL DEF Spec

(* Two requests that race for a beat, and all who ask later, are shown the *)
(* line in the database.                                                   *)
THEOREM AnswersAreStoredHolds == Spec => []AnswersAreStored
<1>1. RInv => AnswersAreStored
    BY DEF RInv
<1> QED BY <1>1, RInvariant, PTL

(* No token of a committed call is missing from the row of its beat.       *)
THEOREM TokensOfBeatHolds == Spec => []TokensOfBeat
<1>1. RInv => TokensOfBeat
    BY DEF RInv
<1> QED BY <1>1, RInvariant, PTL

(* A line, once stored, stays: later commits only add tokens to it.        *)
THEOREM StoredLineStaysHolds == Spec => StoredLineStays
<1> DEFINE Kept_(s) == reactions[s] # None =>
                           /\ reactions'[s] # None
                           /\ reactions'[s].line = reactions[s].line
                           /\ reactions'[s].month = reactions[s].month
                           /\ reactions'[s].tokens >= reactions[s].tokens
<1>1. ASSUME RInv, Next, NEW s \in Submissions PROVE Kept_(s)
    <2>0. reactions[s] # None => reactions[s] \in Reaction /\ reactions[s].tokens \in Nat
        BY <1>1 DEF RInv, Typed, Reaction
    <2>1. CASE UNCHANGED reactions
        BY <2>0, <2>1
    <2>2. ASSUME NEW c \in Callers, Commit(c) PROVE Kept_(s)
        <3>1. CASE s = asked[c]
            BY <1>1, <2>0, <2>2, <3>1, CommittedRow DEF RInv, Typed
        <3>2. CASE s # asked[c]
            BY <1>1, <2>0, <2>2, <3>2, CommittedRow DEF RInv, Typed
        <3> QED BY <3>1, <3>2
    <2>3. UNCHANGED reactions \/ \E c \in Callers : Commit(c)
        <3>1. ASSUME NEW c \in Callers, CallerStep(c) PROVE UNCHANGED reactions \/ Commit(c)
            BY <3>1 DEF CallerStep, AskStored, AskMissing, Generate, StoreOrGet, rows
        <3>2. ASSUME NEW u \in Submissions, BeginEvaluation(u) \/ Evaluate(u)
              PROVE  UNCHANGED reactions
            BY <3>2 DEF BeginEvaluation, Evaluate, rows
        <3>3. ASSUME NEW p \in Callees, BudgetStep(p) PROVE UNCHANGED reactions
            BY <3>3 DEF BudgetStep, SumEvaluations, WithinBudget, OverBudget,
                        EngineFails, Dies, rows
        <3>4. NextMonth => UNCHANGED reactions
            BY DEF NextMonth, rows
        <3> QED BY <1>1, <3>1, <3>2, <3>3, <3>4 DEF Next
    <2> QED BY <2>1, <2>2, <2>3
<1>2. RInv /\ [Next]_vars => [\A s \in Submissions : Kept_(s)]_vars
    BY <1>1
<1> QED BY <1>2, RInvariant, PTL DEF Spec, StoredLineStays

-----------------------------------------------------------------------------
(* The budget: what the check adds up is never less than what the month    *)
(* had spent when it began, because rows stay and their tokens only grow.  *)

Row == [tokens : Nat, month : 0..LastMonth]
WithRow(table) == {s \in Submissions : table[s] # None}

\* The rows of a table, finitely many, each with its tokens and its month.
IsTable(table) ==
    /\ IsFiniteSet(WithRow(table))
    /\ \A s \in WithRow(table) : table[s].tokens \in Nat /\ table[s].month \in 0..LastMonth

\* Later rows of a table: none is gone, moved to another month, or cheaper.
Grows(old, new) ==
    \A s \in WithRow(old) :
        /\ new[s] # None
        /\ new[s].month = old[s].month
        /\ new[s].tokens >= old[s].tokens

LEMMA TokensNat ==
    ASSUME NEW table, IsTable(table), NEW start
    PROVE  TokensSince(table, start) \in Nat
<1> DEFINE f == [s \in {u \in Submissions : table[u] # None /\ table[u].month >= start}
                     |-> table[s].tokens]
<1>1. DOMAIN f \subseteq WithRow(table)
    BY DEF WithRow
<1>2. IsFiniteSet(DOMAIN f)
    BY <1>1, FS_Subset DEF IsTable
<1>3. \A x \in DOMAIN f : f[x] \in Nat
    BY <1>1 DEF IsTable
<1>4. SumFunction(f) \in Nat
    <2> HIDE DEF f
    <2> QED BY <1>2, <1>3, SumFunctionNat
<1> QED BY <1>4 DEF TokensSince

LEMMA TokensGrow ==
    ASSUME NEW old, NEW new, IsTable(old), IsTable(new), Grows(old, new), NEW start
    PROVE  TokensSince(old, start) <= TokensSince(new, start)
<1> DEFINE f == [s \in {u \in Submissions : old[u] # None /\ old[u].month >= start}
                     |-> old[s].tokens]
           g == [s \in {u \in Submissions : new[u] # None /\ new[u].month >= start}
                     |-> new[s].tokens]
<1>1. DOMAIN f \subseteq WithRow(old) /\ DOMAIN g \subseteq WithRow(new)
    BY DEF WithRow
<1>2. IsFiniteSet(DOMAIN f) /\ IsFiniteSet(DOMAIN g)
    BY <1>1, FS_Subset DEF IsTable
<1>3. DOMAIN f \subseteq DOMAIN g
    BY DEF Grows, WithRow
<1>4. \A x \in DOMAIN g : g[x] \in Nat
    BY <1>1 DEF IsTable
<1>5. \A x \in DOMAIN f : f[x] \in Nat /\ f[x] <= g[x]
    <2> SUFFICES ASSUME NEW x \in DOMAIN f PROVE f[x] \in Nat /\ f[x] <= g[x]
        OBVIOUS
    <2>1. x \in WithRow(old) /\ x \in DOMAIN g /\ f[x] = old[x].tokens /\ g[x] = new[x].tokens
        BY <1>1, <1>3
    <2>2. old[x].tokens \in Nat /\ g[x] \in Nat
        BY <1>4, <2>1 DEF IsTable
    <2>3. new[x].tokens >= old[x].tokens
        BY <2>1 DEF Grows
    <2> QED BY <2>1, <2>2, <2>3
<1>6. SumFunction(f) <= SumFunction(g)
    <2> HIDE DEF f, g
    <2> QED BY <1>2, <1>3, <1>4, <1>5, SumFunctionGrows
<1> QED BY <1>6 DEF TokensSince

Working(p) == step[p] \notin {"idle", "failed"}

\* What the check saw covers what was spent when it began.
SeenCovers(p) == step[p] = "sum" => spentAtCheck[p] <= SpentSeen(p)

\* The inductive invariant of the budget, beside RInv.
BudgetInv ==
    /\ evaluations \in [Submissions -> Evaluation \cup {None}]
    /\ calls \in 0..MaxCalls
    /\ seen \in [Callees -> [start : 0..LastMonth, tokens : Nat]]
    /\ spentAtCheck \in [Callees -> Nat]
    /\ IsTable(evaluations) /\ IsTable(reactions)
    /\ \A s \in Submissions : Working(s) => evaluations[s] = None
    /\ \A c \in Callers : Working(c) => Reacts(asked[c])
    /\ \A s \in Submissions : reactions[s] # None => Reacts(s)
    /\ \A p \in Callees : SeenCovers(p)
    /\ NoCallOnceSpent

\* What was spent is never taken back: the sums the check of q reads only grow.
LEMMA SeenCoversStays ==
    ASSUME BudgetInv, NEW q \in Callees,
           IsTable(reactions'), Grows(reactions, reactions'),
           seen'[q] = seen[q], spentAtCheck'[q] = spentAtCheck[q], step'[q] = step[q]
    PROVE  SeenCovers(q)'
<1> DEFINE start == seen[q].start
<1>1. TokensSince(reactions, start) <= TokensSince(reactions', start)
    BY TokensGrow DEF BudgetInv
<1>2. TokensSince(reactions, start) \in Nat /\ TokensSince(reactions', start) \in Nat
    BY TokensNat DEF BudgetInv
<1>3. seen[q].tokens \in Nat /\ spentAtCheck[q] \in Nat
    BY DEF BudgetInv
<1>4. step[q] = "sum" => spentAtCheck[q] <= seen[q].tokens + TokensSince(reactions, start)
    BY DEF BudgetInv, SeenCovers, SpentSeen
<1>5. step[q] = "sum" => spentAtCheck[q] <= seen[q].tokens + TokensSince(reactions', start)
    <2> HIDE DEF start
    <2> QED BY <1>1, <1>2, <1>3, <1>4
<1> QED BY <1>5 DEF SeenCovers, SpentSeen

\* A step of one process: the others know what they knew, and rows only grow.
LEMMA OneProcess ==
    ASSUME BudgetInv, RInv, NEW p \in Callees,
           evaluations' \in [Submissions -> Evaluation \cup {None}],
           IsTable(evaluations'),
           \A s \in Submissions : evaluations[s] # None \/ s # p =>
               evaluations'[s] = evaluations[s],
           IsTable(reactions'), Grows(reactions, reactions'),
           \A s \in Submissions : reactions'[s] # None => Reacts(s),
           calls' \in 0..MaxCalls,
           NEW w, step' = [step EXCEPT ![p] = w],
           NEW a, asked' = [asked EXCEPT ![p] = a],
           NEW v \in [start : 0..LastMonth, tokens : Nat], seen' = [seen EXCEPT ![p] = v],
           NEW n \in Nat, spentAtCheck' = [spentAtCheck EXCEPT ![p] = n],
           p \in Submissions /\ w \notin {"idle", "failed"} => evaluations'[p] = None,
           p \in Callers /\ w \notin {"idle", "failed"} => a \in Submissions /\ Reacts(a),
           SeenCovers(p)',
           Budget > 0 /\ w \in {"call", "store", "commit"} => n < Budget
    PROVE  BudgetInv'
<1> USE DEF BudgetInv
<1>1. /\ seen' \in [Callees -> [start : 0..LastMonth, tokens : Nat]]
      /\ spentAtCheck' \in [Callees -> Nat]
    OBVIOUS
<1>2. /\ step'[p] = w /\ asked'[p] = a /\ spentAtCheck'[p] = n
      /\ \A q \in Callees : q # p =>
             /\ step'[q] = step[q] /\ asked'[q] = asked[q]
             /\ seen'[q] = seen[q] /\ spentAtCheck'[q] = spentAtCheck[q]
    BY DEF RInv, Typed
<1>3. \A s \in Submissions : Reacts(s) => Reacts(s)'
    BY DEF Reacts
<1>4. \A s \in Submissions : Working(s)' => evaluations'[s] = None
    BY <1>2 DEF Working, Callees
<1>5. ASSUME NEW c \in Callers, Working(c)' PROVE Reacts(asked[c])'
    <2>1. CASE c = p
        BY <1>2, <1>3, <1>5, <2>1 DEF Working
    <2>2. CASE c # p
        <3>1. c \in Callees /\ step'[c] = step[c] /\ asked'[c] = asked[c]
            BY <1>2, <2>2 DEF Callees
        <3>2. Working(c) /\ asked[c] \in Submissions
            BY <1>5, <3>1 DEF Working, RInv, Ready
        <3>3. Reacts(asked[c])
            BY <3>2
        <3>4. \A s \in Submissions : s = asked[c] => (Reacts(s))'
            BY <1>3, <3>3
        <3> QED BY <3>1, <3>2, <3>4
    <2> QED BY <2>1, <2>2
<1>6. \A s \in Submissions : reactions'[s] # None => Reacts(s)'
    BY <1>3
<1>7. \A q \in Callees : SeenCovers(q)'
    BY <1>2, SeenCoversStays
<1>8. NoCallOnceSpent'
    BY <1>2 DEF NoCallOnceSpent
<1> QED BY <1>1, <1>4, <1>5, <1>6, <1>7, <1>8

\* The same of a step that writes no row.
LEMMA NoRowWritten ==
    ASSUME BudgetInv, RInv, NEW p \in Callees,
           UNCHANGED <<evaluations, reactions>>, calls' \in 0..MaxCalls,
           NEW w, step' = [step EXCEPT ![p] = w],
           NEW a, asked' = [asked EXCEPT ![p] = a],
           NEW v \in [start : 0..LastMonth, tokens : Nat], seen' = [seen EXCEPT ![p] = v],
           NEW n \in Nat, spentAtCheck' = [spentAtCheck EXCEPT ![p] = n],
           p \in Submissions /\ w \notin {"idle", "failed"} => evaluations[p] = None,
           p \in Callers /\ w \notin {"idle", "failed"} => a \in Submissions /\ Reacts(a),
           SeenCovers(p)',
           Budget > 0 /\ w \in {"call", "store", "commit"} => n < Budget
    PROVE  BudgetInv'
<1>1. Grows(reactions, reactions') /\ IsTable(reactions') /\ IsTable(evaluations')
    <2>1. \A s \in WithRow(reactions) : reactions[s].tokens \in Nat
        BY DEF BudgetInv, IsTable
    <2>2. Grows(reactions, reactions)
        BY <2>1 DEF Grows, WithRow
    <2> QED BY <2>2 DEF BudgetInv
<1>2. /\ evaluations' \in [Submissions -> Evaluation \cup {None}]
      /\ \A s \in Submissions : evaluations'[s] = evaluations[s]
      /\ \A s \in Submissions : reactions'[s] # None => Reacts(s)
    BY DEF BudgetInv
<1>3. p \in Submissions /\ w \notin {"idle", "failed"} => evaluations'[p] = None
    OBVIOUS
<1> QED BY <1>1, <1>2, <1>3, OneProcess

\* A step that does not end in "sum" leaves nothing to cover.
LEMMA NothingToCover ==
    ASSUME RInv, NEW p \in Callees, NEW w, w # "sum", step' = [step EXCEPT ![p] = w]
    PROVE  SeenCovers(p)'
BY DEF RInv, Typed, SeenCovers

\* Unchanged functions, in the form the lemmas above ask for.
LEMMA KeptSums ==
    ASSUME BudgetInv, NEW p \in Callees
    PROVE  /\ seen = [seen EXCEPT ![p] = seen[p]]
           /\ seen[p] \in [start : 0..LastMonth, tokens : Nat]
           /\ spentAtCheck = [spentAtCheck EXCEPT ![p] = spentAtCheck[p]]
           /\ spentAtCheck[p] \in Nat
           /\ calls \in 0..MaxCalls
BY DEF BudgetInv

LEMMA EndsKeepsBudget ==
    ASSUME BudgetInv, RInv, NEW p \in Callees, NEW how \in {"idle", "failed"}, Ends(p, how),
           UNCHANGED <<evaluations, reactions, calls>>
    PROVE  BudgetInv'
<1>1. NoSums \in [start : 0..LastMonth, tokens : Nat]
    BY BoundsAssumption DEF NoSums
<1>2. /\ step' = [step EXCEPT ![p] = how] /\ asked' = [asked EXCEPT ![p] = None]
      /\ seen' = [seen EXCEPT ![p] = NoSums] /\ spentAtCheck' = [spentAtCheck EXCEPT ![p] = 0]
    BY DEF Ends
<1>3. SeenCovers(p)'
    BY <1>2, NothingToCover
<1>4. calls' \in 0..MaxCalls
    BY KeptSums
<1> HIDE DEF NoSums
<1> QED BY <1>1, <1>2, <1>3, <1>4, NoRowWritten

LEMMA BeginsKeepBudget ==
    ASSUME BudgetInv, RInv, NEW p \in Callees,
           \/ p \in Callers /\ \E s \in Submissions : AskMissing(p, s)
           \/ p \in Submissions /\ BeginEvaluation(p)
    PROVE  BudgetInv'
<1>1. /\ step' = [step EXCEPT ![p] = "check"]
      /\ UNCHANGED <<evaluations, reactions, seen, spentAtCheck, calls>>
    BY DEF AskMissing, BeginEvaluation, rows, ghost
<1>2. SeenCovers(p)'
    BY <1>1, NothingToCover
<1>3. PICK a : /\ asked' = [asked EXCEPT ![p] = a]
               /\ p \in Callers => a \in Submissions /\ Reacts(a)
    <2>1. CASE p \in Callers
        <3>1. PICK s \in Submissions : AskMissing(p, s)
            BY <2>1, NamesAssumption
        <3> QED BY <3>1 DEF AskMissing
    <2>2. CASE p \notin Callers
        BY <2>2, Kept DEF BeginEvaluation
    <2> QED BY <2>1, <2>2
<1>4. p \in Submissions => evaluations[p] = None
    BY NamesAssumption DEF BeginEvaluation
<1>5. /\ calls' \in 0..MaxCalls
      /\ seen' = [seen EXCEPT ![p] = seen[p]] /\ seen[p] \in [start : 0..LastMonth, tokens : Nat]
      /\ spentAtCheck' = [spentAtCheck EXCEPT ![p] = spentAtCheck[p]] /\ spentAtCheck[p] \in Nat
    BY <1>1, KeptSums
<1>6. UNCHANGED <<evaluations, reactions>> /\ "check" \notin {"call", "store", "commit"}
    BY <1>1
<1> QED BY <1>1, <1>2, <1>3, <1>4, <1>5, <1>6, NoRowWritten

\* What a process past its first step is known to have.
LEMMA Begun ==
    ASSUME BudgetInv, RInv, NEW p \in Callees, Working(p)
    PROVE  /\ p \in Submissions => evaluations[p] = None
           /\ p \in Callers => asked[p] \in Submissions /\ Reacts(asked[p])
BY DEF BudgetInv, RInv, Ready, Working

\* Whoever calls the engine, or brings what it answered, passed the check.
LEMMA Checked ==
    ASSUME BudgetInv, NEW p \in Callees, step[p] \in {"call", "store", "commit"}
    PROVE  Working(p) /\ (Budget > 0 => spentAtCheck[p] < Budget)
BY DEF BudgetInv, NoCallOnceSpent, Working

LEMMA GoesOn ==
    ASSUME BudgetInv, RInv, NEW p \in Callees, Working(p),
           UNCHANGED <<evaluations, reactions, asked, seen, spentAtCheck>>, calls' \in 0..MaxCalls,
           NEW w, w # "sum", step' = [step EXCEPT ![p] = w],
           Budget > 0 /\ w \in {"call", "store", "commit"} => spentAtCheck[p] < Budget
    PROVE  BudgetInv'
<1>1. SeenCovers(p)'
    BY NothingToCover
<1>2. /\ p \in Submissions => evaluations[p] = None
      /\ p \in Callers => asked[p] \in Submissions /\ Reacts(asked[p])
    BY Begun
<1>3. /\ asked' = [asked EXCEPT ![p] = asked[p]]
      /\ seen' = [seen EXCEPT ![p] = seen[p]] /\ seen[p] \in [start : 0..LastMonth, tokens : Nat]
      /\ spentAtCheck' = [spentAtCheck EXCEPT ![p] = spentAtCheck[p]] /\ spentAtCheck[p] \in Nat
    BY Kept, KeptSums
<1> QED BY <1>1, <1>2, <1>3, NoRowWritten

LEMMA SumEvaluationsKeepsBudget ==
    ASSUME BudgetInv, RInv, NEW p \in Callees, SumEvaluations(p)
    PROVE  BudgetInv'
<1> DEFINE v == [start |-> month, tokens |-> TokensSince(evaluations, month)]
<1>1. /\ TokensSince(evaluations, month) \in Nat /\ TokensSince(reactions, month) \in Nat
      /\ month \in 0..LastMonth
    BY TokensNat DEF BudgetInv, RInv, Typed
<1>2. v \in [start : 0..LastMonth, tokens : Nat] /\ Spent \in Nat
    BY <1>1 DEF Spent
<1>3. /\ step' = [step EXCEPT ![p] = "sum"] /\ seen' = [seen EXCEPT ![p] = v]
      /\ spentAtCheck' = [spentAtCheck EXCEPT ![p] = Spent]
      /\ UNCHANGED <<evaluations, reactions, asked, calls>> /\ Working(p)
    BY DEF SumEvaluations, rows, Working
<1>4. SeenCovers(p)'
    <2>1. seen'[p] = v /\ spentAtCheck'[p] = Spent
        BY <1>3 DEF BudgetInv
    <2>2. seen'[p].tokens + TokensSince(reactions', seen'[p].start) = Spent
        BY <1>3, <2>1 DEF Spent
    <2> QED BY <1>2, <2>1, <2>2 DEF SeenCovers, SpentSeen
<1>5. /\ p \in Submissions => evaluations[p] = None
      /\ p \in Callers => asked[p] \in Submissions /\ Reacts(asked[p])
    BY <1>3, Begun
<1>6. asked' = [asked EXCEPT ![p] = asked[p]] /\ calls' \in 0..MaxCalls
    BY <1>3, Kept, KeptSums
<1>7. UNCHANGED <<evaluations, reactions>> /\ "sum" \notin {"call", "store", "commit"}
    BY <1>3
<1> HIDE DEF v
<1> QED BY <1>2, <1>3, <1>4, <1>5, <1>6, <1>7, NoRowWritten

LEMMA WithinBudgetKeeps ==
    ASSUME BudgetInv, RInv, NEW p \in Callees, WithinBudget(p)
    PROVE  BudgetInv'
<1>1. /\ step[p] = "sum" /\ step' = [step EXCEPT ![p] = "call"]
      /\ Budget = 0 \/ SpentSeen(p) < Budget
      /\ UNCHANGED <<evaluations, reactions, asked, seen, spentAtCheck, calls>>
    BY DEF WithinBudget, rows, local, ghost
<1>2. Budget > 0 => spentAtCheck[p] < Budget
    <2>1. spentAtCheck[p] <= SpentSeen(p)
        BY <1>1 DEF BudgetInv, SeenCovers
    <2>2. SpentSeen(p) \in Nat
        BY TokensNat DEF BudgetInv, SpentSeen
    <2> QED BY <1>1, <2>1, <2>2, KeptSums, BudgetAssumption
<1>3. Working(p) /\ calls' \in 0..MaxCalls
    BY <1>1, KeptSums DEF Working
<1> QED BY <1>1, <1>2, <1>3, GoesOn

LEMMA GenerateKeepsBudget ==
    ASSUME BudgetInv, RInv, NEW c \in Callers, Generate(c)
    PROVE  BudgetInv'
<1>1. /\ c \in Callees /\ step[c] = "call" /\ step' = [step EXCEPT ![c] = "store"]
      /\ UNCHANGED <<evaluations, reactions, asked, seen, spentAtCheck>>
    BY DEF Generate, rows, Callees
<1>2. calls' \in 0..MaxCalls
    BY BoundsAssumption DEF Generate, BudgetInv
<1> QED BY <1>1, <1>2, Checked, GoesOn

LEMMA StoreOrGetKeepsBudget ==
    ASSUME BudgetInv, RInv, NEW c \in Callers, StoreOrGet(c)
    PROVE  BudgetInv'
<1>1. /\ c \in Callees /\ step[c] = "store" /\ step' = [step EXCEPT ![c] = "commit"]
      /\ UNCHANGED <<evaluations, reactions, asked, seen, spentAtCheck, calls>>
    BY DEF StoreOrGet, rows, ghost, Callees
<1>2. calls' \in 0..MaxCalls
    BY <1>1, KeptSums
<1> QED BY <1>1, <1>2, Checked, GoesOn

\* A commit adds the tokens of its call to the row of its beat, or inserts it.
LEMMA CommitKeepsBudget ==
    ASSUME BudgetInv, RInv, NEW c \in Callers, Commit(c)
    PROVE  BudgetInv'
<1> DEFINE s == asked[c]
<1>1. /\ c \in Callees /\ s \in Submissions
      /\ held[c] \in Reaction /\ held[c] # None
      /\ made[c].tokens \in Nat
      /\ reactions' = [reactions EXCEPT ![s] = held[c]]
      /\ reactions[s] # None => reactions[s] \in Reaction /\ held[c].month = reactions[s].month
      /\ held[c].tokens = (IF reactions[s] = None THEN 0 ELSE reactions[s].tokens) + made[c].tokens
    BY CommittedRow
<1>2. /\ step[c] = "commit" /\ step' = [step EXCEPT ![c] = "idle"]
      /\ asked' = [asked EXCEPT ![c] = None]
      /\ seen' = [seen EXCEPT ![c] = NoSums] /\ spentAtCheck' = [spentAtCheck EXCEPT ![c] = 0]
      /\ UNCHANGED <<evaluations, calls>>
    BY DEF Commit, Ends
<1>3. Reacts(s)
    BY <1>1, <1>2, Checked, Begun
<1> HIDE DEF s
<1>4. \A u \in Submissions : reactions'[u] = IF u = s THEN held[c] ELSE reactions[u]
    BY <1>1 DEF RInv, Typed
<1>5. IsTable(reactions')
    <2>1. WithRow(reactions') = WithRow(reactions) \cup {s}
        BY <1>1, <1>4 DEF WithRow
    <2>2. IsFiniteSet(WithRow(reactions'))
        BY <2>1, FS_AddElement DEF BudgetInv, IsTable
    <2>3. held[c].tokens \in Nat /\ held[c].month \in 0..LastMonth
        BY <1>1 DEF Reaction
    <2>4. \A u \in WithRow(reactions') :
              reactions'[u].tokens \in Nat /\ reactions'[u].month \in 0..LastMonth
        BY <1>4, <2>3 DEF BudgetInv, IsTable, WithRow
    <2> QED BY <2>2, <2>4 DEF IsTable
<1>6. Grows(reactions, reactions')
    <2> SUFFICES ASSUME NEW u \in Submissions, reactions[u] # None
                 PROVE  /\ reactions'[u] # None
                        /\ reactions'[u].month = reactions[u].month
                        /\ reactions'[u].tokens >= reactions[u].tokens
        BY DEF Grows, WithRow
    <2>1. reactions[u].tokens \in Nat
        BY DEF BudgetInv, IsTable, WithRow
    <2>2. CASE u = s
        BY <1>1, <1>4, <2>1, <2>2
    <2>3. CASE u # s
        BY <1>4, <2>1, <2>3
    <2> QED BY <2>2, <2>3
<1>7. \A u \in Submissions : reactions'[u] # None => Reacts(u)
    BY <1>3, <1>4 DEF BudgetInv
<1>8. SeenCovers(c)'
    BY <1>1, <1>2, NothingToCover
<1>9. NoSums \in [start : 0..LastMonth, tokens : Nat]
    BY BoundsAssumption DEF NoSums
<1>10. /\ evaluations' \in [Submissions -> Evaluation \cup {None}] /\ IsTable(evaluations')
       /\ \A u \in Submissions : evaluations'[u] = evaluations[u]
       /\ calls' \in 0..MaxCalls
    BY <1>2 DEF BudgetInv
<1>11. c \notin Submissions
    BY NamesAssumption
<1> HIDE DEF NoSums
<1> QED BY <1>1, <1>2, <1>5, <1>6, <1>7, <1>8, <1>9, <1>10, <1>11, OneProcess

\* A worker inserts the row of its submission.
LEMMA EvaluateKeepsBudget ==
    ASSUME BudgetInv, RInv, NEW s \in Submissions, Evaluate(s)
    PROVE  BudgetInv'
<1>1. PICK verdict \in Verdict, tokens \in Costs :
          evaluations' = [evaluations EXCEPT ![s] =
              [verdict |-> verdict, tokens |-> tokens, month |-> since[s]]]
    BY DEF Evaluate
<1> DEFINE row == [verdict |-> verdict, tokens |-> tokens, month |-> since[s]]
<1>2. /\ s \in Callees /\ step[s] = "call" /\ step' = [step EXCEPT ![s] = "idle"]
      /\ asked' = [asked EXCEPT ![s] = None]
      /\ seen' = [seen EXCEPT ![s] = NoSums] /\ spentAtCheck' = [spentAtCheck EXCEPT ![s] = 0]
      /\ reactions' = reactions
    BY DEF Evaluate, Ends, Callees
<1>3. since[s] \in 0..LastMonth
    BY <1>2 DEF RInv, Typed
<1>4. row \in Evaluation /\ row.tokens \in Nat /\ row.month \in 0..LastMonth
    BY <1>1, <1>3, CostsAssumption DEF Evaluation
<1>5. evaluations[s] = None
    BY <1>2, Checked, Begun
<1>6. evaluations' = [evaluations EXCEPT ![s] = row]
    BY <1>1
<1> HIDE DEF row
<1>7. /\ evaluations' \in [Submissions -> Evaluation \cup {None}]
      /\ \A u \in Submissions : evaluations'[u] = IF u = s THEN row ELSE evaluations[u]
    BY <1>4, <1>6 DEF BudgetInv
<1>8. IsTable(evaluations')
    <2>1. WithRow(evaluations') \subseteq WithRow(evaluations) \cup {s}
        BY <1>7 DEF WithRow
    <2>2. IsFiniteSet(WithRow(evaluations) \cup {s})
        BY FS_AddElement DEF BudgetInv, IsTable
    <2>3. IsFiniteSet(WithRow(evaluations'))
        BY <2>1, <2>2, FS_Subset
    <2>4. \A u \in WithRow(evaluations') :
              evaluations'[u].tokens \in Nat /\ evaluations'[u].month \in 0..LastMonth
        BY <1>4, <1>7 DEF BudgetInv, IsTable, WithRow
    <2> QED BY <2>3, <2>4 DEF IsTable
<1>9. IsTable(reactions') /\ Grows(reactions, reactions')
    <2>1. \A u \in WithRow(reactions) : reactions[u].tokens \in Nat
        BY DEF BudgetInv, IsTable
    <2>2. Grows(reactions, reactions)
        BY <2>1 DEF Grows, WithRow
    <2> QED BY <1>2, <2>2 DEF BudgetInv
<1>10. /\ \A u \in Submissions : evaluations[u] # None \/ u # s => evaluations'[u] = evaluations[u]
       /\ \A u \in Submissions : reactions'[u] # None => Reacts(u)
    BY <1>2, <1>5, <1>7 DEF BudgetInv
<1>11. calls' \in 0..MaxCalls
    BY BoundsAssumption DEF Evaluate, BudgetInv
<1>12. SeenCovers(s)'
    BY <1>2, NothingToCover
<1>13. NoSums \in [start : 0..LastMonth, tokens : Nat]
    BY BoundsAssumption DEF NoSums
<1> HIDE DEF NoSums
<1> QED BY <1>2, <1>7, <1>8, <1>9, <1>10, <1>11, <1>12, <1>13, OneProcess

\* Nothing of the budget moves.
LEMMA StillBudget ==
    ASSUME BudgetInv, UNCHANGED <<rows, step, asked, seen, spentAtCheck, calls>>
    PROVE  BudgetInv'
<1> USE DEF BudgetInv, rows
<1>1. (\A s \in Submissions : Working(s) => evaluations[s] = None)'
    BY DEF Working
<1>2. (\A c \in Callers : Working(c) => Reacts(asked[c]))'
    BY DEF Working, Reacts
<1>3. (\A s \in Submissions : reactions[s] # None => Reacts(s))'
    BY DEF Reacts
<1>4. (\A p \in Callees : SeenCovers(p))' /\ NoCallOnceSpent'
    BY DEF SeenCovers, SpentSeen, NoCallOnceSpent
<1> QED BY <1>1, <1>2, <1>3, <1>4

LEMMA InitBudget == Init => BudgetInv
<1> SUFFICES ASSUME Init PROVE BudgetInv
    OBVIOUS
<1>1. WithRow(evaluations) = {} /\ WithRow(reactions) = {}
    BY DEF Init, WithRow
<1>2. IsTable(evaluations) /\ IsTable(reactions)
    BY <1>1, FS_EmptySet DEF IsTable
<1>3. /\ seen \in [Callees -> [start : 0..LastMonth, tokens : Nat]]
      /\ spentAtCheck \in [Callees -> Nat] /\ calls \in 0..MaxCalls
      /\ evaluations \in [Submissions -> Evaluation \cup {None}]
    BY BoundsAssumption DEF Init, NoSums
<1>4. \A p \in Callees : ~Working(p) /\ SeenCovers(p)
    BY DEF Init, Working, SeenCovers
<1>5. NoCallOnceSpent
    BY DEF Init, NoCallOnceSpent
<1>6. \A s \in Submissions : reactions[s] = None /\ evaluations[s] = None
    BY DEF Init
<1> QED BY <1>2, <1>3, <1>4, <1>5, <1>6 DEF BudgetInv, Callees

LEMMA NextBudget == BudgetInv /\ RInv /\ [Next]_vars => BudgetInv'
<1> SUFFICES ASSUME BudgetInv, RInv, [Next]_vars PROVE BudgetInv'
    OBVIOUS
<1>1. ASSUME NEW c \in Callers, CallerStep(c) PROVE BudgetInv'
    <2>0. c \in Callees
        BY DEF Callees
    <2>1. ASSUME NEW s \in Submissions, AskStored(c, s) PROVE BudgetInv'
        BY <2>1, StillBudget DEF AskStored, local
    <2>2. ASSUME NEW s \in Submissions, AskMissing(c, s) PROVE BudgetInv'
        BY <2>0, <2>2, BeginsKeepBudget
    <2> QED BY <1>1, <2>1, <2>2, GenerateKeepsBudget, StoreOrGetKeepsBudget, CommitKeepsBudget
            DEF CallerStep
<1>2. ASSUME NEW s \in Submissions, BeginEvaluation(s) PROVE BudgetInv'
    <2>1. s \in Callees
        BY DEF Callees
    <2> QED BY <1>2, <2>1, BeginsKeepBudget
<1>3. ASSUME NEW s \in Submissions, Evaluate(s) PROVE BudgetInv'
    BY <1>3, EvaluateKeepsBudget
<1>4. ASSUME NEW p \in Callees, BudgetStep(p) PROVE BudgetInv'
    <2>1. CASE OverBudget(p) \/ EngineFails(p) \/ Dies(p)
        <3>1. \E how \in {"idle", "failed"} : Ends(p, how)
            BY <2>1 DEF OverBudget, EngineFails, Dies, FallsBack
        <3>2. UNCHANGED <<evaluations, reactions, calls>>
            BY <2>1 DEF OverBudget, EngineFails, Dies, rows
        <3> QED BY <3>1, <3>2, EndsKeepsBudget
    <2>2. CASE SumEvaluations(p)
        BY <2>2, SumEvaluationsKeepsBudget
    <2>3. CASE WithinBudget(p)
        BY <2>3, WithinBudgetKeeps
    <2> QED BY <1>4, <2>1, <2>2, <2>3 DEF BudgetStep
<1>5. CASE NextMonth
    BY <1>5, StillBudget DEF NextMonth, local, ghost
<1>6. CASE UNCHANGED vars
    BY <1>6, StillBudget DEF vars, local, ghost
<1> QED BY <1>1, <1>2, <1>3, <1>4, <1>5, <1>6 DEF Next

THEOREM BudgetInvariant == Spec => []BudgetInv
BY InitBudget, NextBudget, RInvariant, PTL DEF Spec

(* Nobody calls the engine whose check began when the month had already     *)
(* spent the budget, whatever commits between the two sums it reads        *)
(* (llm_budget.py:26-50), for any number of requests, workers and prices.  *)
THEOREM NoCallOnceSpentHolds == Spec => []NoCallOnceSpent
<1>1. BudgetInv => NoCallOnceSpent
    BY DEF BudgetInv
<1> QED BY <1>1, BudgetInvariant, PTL

(* Rows and requests keep their types, and only a beat that reacts has a   *)
(* line (domain/reactions.py:13-20).                                       *)
THEOREM ReactionsTyped == Spec => []TypeOK
<1>1. RInv /\ BudgetInv => TypeOK
    <2> SUFFICES ASSUME RInv, BudgetInv PROVE TypeOK
        OBVIOUS
    <2>1. \A s \in Submissions : reactions[s] # None =>
              evaluations[s] # None /\ evaluations[s].verdict # "failed_technical"
        BY DEF BudgetInv, Reacts, reaction_beat_for
    <2>2. \A c \in Callers : /\ step[c] \in {"store", "commit"} => made[c].line \in Lines
                             /\ step[c] \notin {"idle", "failed"} => asked[c] \in Submissions
                             /\ step[c] = "commit" <=> held[c] # None
        BY DEF RInv, Ready, Callees
    <2>3. /\ seen \in [Callees -> [start : 0..LastMonth, tokens : Int]]
          /\ spentAtCheck \in [Callees -> Int]
        BY DEF BudgetInv
    <2> QED BY <2>1, <2>2, <2>3 DEF RInv, Typed, BudgetInv, TypeOK, Steps, Call
<1> QED BY <1>1, RInvariant, BudgetInvariant, PTL

=============================================================================
