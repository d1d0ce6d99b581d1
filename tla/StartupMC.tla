----------------------------- MODULE StartupMC -----------------------------
(* Startup for TLC: the admin and one public demo account. *)
EXTENDS Startup, TLC

CONSTANTS ana, p1

Roster == [u \in {Admin, ana} |-> IF u = Admin THEN "admin" ELSE "analyst"]

Row(role, pw, key, deleted) == [role |-> role, pw |-> pw, key |-> key, deleted |-> deleted]

Pairs(admins, others) ==
    {[u \in {Admin, ana} |-> IF u = Admin THEN a ELSE o] : a \in admins, o \in others}

\* One active admin and one that was deleted; ana as the only admin, with a real
\* password or a published one, beside an `admin` that is missing, demoted or
\* deleted; two admins; the admin of a demo and a demo account.
OlderTables ==
    Pairs({Row("admin", p1, 1, FALSE)},
          {Row("admin", p1, 0, TRUE), Row("admin", Public, 0, FALSE)})
    \cup Pairs({NoAccount, Row("analyst", p1, 0, FALSE), Row("admin", p1, 0, TRUE)},
               {Row("admin", Public, 1, FALSE), Row("admin", AdminDemo, 1, FALSE)})
    \cup Pairs({Row("admin", AdminDemo, 0, FALSE)}, {Row("analyst", Public, 0, FALSE)})

Symmetry == Permutations(Writers)

=============================================================================
