----------------------------- MODULE MCAccounts -----------------------------
EXTENDS Accounts, TLC

CONSTANTS r1, r2, o1, o2, purger, reminder, e1, e2, e3, g1, t1, t2, x1, x2, x3

Account(i, email) ==
    User(i) :> [email |-> email, live |-> TRUE, deleted_at |-> 0, reminded |-> -1]
Password(i) == Identity(i) :> [user |-> i, provider |-> "email", subject |-> Absent, live |-> TRUE]
Google(i) == Identity(i) :> [user |-> i, provider |-> "google", subject |-> g1, live |-> TRUE]
Phone(i, token) == Device(i) :> [user |-> i, token |-> token, live |-> TRUE]
Lens(i, exam, active) == Target(i) :> [user |-> o1, exam |-> exam, is_active |-> active, live |-> TRUE]

\* Sign-up, sign-in and deletion, on an account with a password or with Google.
Credentials ==
    [rows: {Account(o1, e1) @@ Password(o1), Account(o1, e1) @@ Google(o1)},
     asks: {[kind: {"register", "login"}, email: {e1}]
                \union [kind: {"register"}, email: {e2}]
                \union [kind: {"google"}, email: {e1}, subject: {g1}]
                \union [kind: {"delete"}, user: {o1, r1}]},
     runs: {0}, ticks: {2}]
\* Devices that are registered, moved and retired while reminders are sent.
Phones ==
    [rows: {Account(o1, e1) @@ Password(o1) @@ Phone(o1, t1)},
     asks: {[kind: {"register_device"}, user: {o1}, token: {t2}]
                \union [kind: {"unregister_device"}, user: {o1}, token: {t1}]
                \union [kind: {"delete"}, user: {o1}]},
     runs: {2}, ticks: {1}]
\* Targets of a student with none, or with one that is the lens and one that is not.
Lenses ==
    [rows: {Account(o1, e1) @@ Password(o1),
            Account(o1, e1) @@ Password(o1) @@ Lens(o1, x1, TRUE) @@ Lens(o2, x2, FALSE)},
     asks: {[kind: {"add"}, user: {o1}, exam: {x2, x3}]
                \union [kind: {"remove", "activate"}, user: {o1}, target: {o1, o2, r1}]},
     runs: {0}, ticks: {1}]
\* A student with everything goes, beside the first uses of the account and another deletion.
Departures ==
    [rows: {Account(o1, e1) @@ Google(o1) @@ Phone(o1, t1) @@ Lens(o1, x1, TRUE) @@ Account(o2, e2) @@ Password(o2)},
     asks: {[kind: {"delete"}, user: {o1, o2}]
                \union [kind: {"rename"}, user: {o1}]
                \union [kind: {"add"}, user: {o1}, exam: {x2}]
                \union [kind: {"register_device"}, user: {o1, o2}, token: {t1, t2}]},
     runs: {0}, ticks: {2}]
MCScenarios == Credentials \union Phones \union Lenses \union Departures
=============================================================================
