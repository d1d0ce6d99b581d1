-------------------------------- MODULE Rules --------------------------------
(***************************************************************************)
(* Detection rules: the admins' requests (routers/rules.py), the copy of    *)
(* the rules the event loop evaluates (store._rules), the rules table, and *)
(* the evaluation of live events (store.py), which writes match counts back *)
(* in tasks of its own.                                                    *)
(*                                                                         *)
(* A request stops at each await of its storage; the requests, the tasks    *)
(* and the events interleave there.  What a match causes elsewhere is an   *)
(* action of the module that keeps it: its incident is Detect of Cases, its *)
(* alert Create of Alerts, its blocked IP OthersBlock of IpPanel.           *)
(***************************************************************************)
EXTENDS Naturals, FiniteSets

CONSTANTS Ids,          \* rule ids; each is used once (uuid4)
          Requests,     \* requests that may be in progress at once
          Conds,        \* conditions, named by the events that meet them
          Malformed,    \* conditions that are not a list of objects
          MaxCount,     \* bound: matches of one rule
          MaxBumps,     \* bound: counts being written at once
          None

ASSUME BoundsAssumption == MaxCount \in Nat /\ MaxBumps \in Nat
ASSUME DataAssumption == Malformed \notin Conds

VARIABLES db,           \* is there a database
          memory,       \* _rules
          table,        \* the rules table
          req,          \* the requests in progress
          bumps,        \* the _bump tasks in progress
          stream,       \* is _stream_loop running
          deleted,      \* history: rules whose deletion was acknowledged
          failed,       \* history: rules left with a request half done
          overlapped    \* history: rules two requests were at once about

vars == <<db, memory, table, req, bumps, stream, deleted, failed, overlapped>>
history == <<deleted, failed, overlapped>>

Fields == [enabled : BOOLEAN, cond : Conds \cup {Malformed}]
Rule == [enabled : BOOLEAN, cond : Conds \cup {Malformed}, count : 0..MaxCount]

ASSUME NoneAssumption == None \notin Rule

\* The fields of RULE_FIELDS a PATCH names.
Patches == Fields \cup [enabled : BOOLEAN] \cup [cond : Conds \cup {Malformed}]

Idle == [op |-> "idle"]
InDb == {id \in Ids : table[id] # None}
InMemory == {id \in Ids : memory[id] # None}

Patched(rule, patch) ==
    [f \in DOMAIN rule |-> IF f \in DOMAIN patch THEN patch[f] ELSE rule[f]]

\* The columns an UPDATE writes: those that differ from the row that was read.
Dirty(loaded, patch) ==
    [f \in {g \in DOMAIN patch : patch[g] # loaded[g]} |-> patch[f]]

\* A client knows the ids in the list it was served.
Known(id) == id \in InDb \cup InMemory \cup deleted

Busy(id) == \E r \in Requests : IF req[r] = Idle THEN FALSE ELSE req[r].id = id

Notice(id) == overlapped' = IF Busy(id) THEN overlapped \cup {id} ELSE overlapped

Init ==
    /\ db \in BOOLEAN
    /\ memory = [id \in Ids |-> None] /\ table = memory
    /\ req = [r \in Requests |-> Idle]
    /\ bumps = {} /\ stream = "up" /\ deleted = {} /\ failed = {} /\ overlapped = {}

-----------------------------------------------------------------------------
\* The requests.

Step(r, stage) == req' = [req EXCEPT ![r].op = stage]
Done(r) == req' = [req EXCEPT ![r] = Idle]

\* POST: stored first, then evaluated.
Create(r, id, fields) ==
    LET rule == [enabled |-> fields.enabled, cond |-> fields.cond, count |-> 0]
    IN  /\ req[r] = Idle /\ ~Known(id) /\ ~Busy(id)
        /\ IF db THEN /\ req' = [req EXCEPT ![r] = [op |-> "insert", id |-> id, rule |-> rule]]
                      /\ UNCHANGED memory
                 ELSE memory' = [memory EXCEPT ![id] = rule] /\ UNCHANGED req
        /\ UNCHANGED <<db, table, bumps, stream, history>>

Insert(r) ==
    /\ req[r].op = "insert"
    /\ table' = [table EXCEPT ![req[r].id] = req[r].rule]
    /\ Step(r, "append")
    /\ UNCHANGED <<db, memory, bumps, stream, history>>

\* The row is read again before the copy gets it; it must still be there.
Append(r) ==
    /\ req[r].op = "append" /\ table[req[r].id] # None
    /\ memory' = [memory EXCEPT ![req[r].id] = table[req[r].id]]
    /\ Done(r)
    /\ UNCHANGED <<db, table, bumps, stream, history>>

\* PATCH.
Update(r, id, patch) ==
    /\ req[r] = Idle /\ Known(id) /\ Notice(id)
    /\ IF db THEN /\ req' = [req EXCEPT ![r] = [op |-> "select", id |-> id, patch |-> patch]]
                  /\ UNCHANGED memory
             ELSE /\ memory' = IF id \in InMemory
                               THEN [memory EXCEPT ![id] = Patched(@, patch)] ELSE memory
                  /\ UNCHANGED req
    /\ UNCHANGED <<db, table, bumps, stream, deleted, failed>>

Select(r) ==
    /\ req[r].op = "select"
    /\ IF table[req[r].id] = None THEN Done(r)
       ELSE req' = [req EXCEPT ![r] = [op |-> "commit", id |-> @.id, patch |-> @.patch,
                                       dirty |-> Dirty(table[@.id], @.patch)]]
    /\ UNCHANGED <<db, memory, table, bumps, stream, history>>

Commit(r) ==
    /\ req[r].op = "commit" /\ table[req[r].id] # None
    /\ table' = [table EXCEPT ![req[r].id] = Patched(@, req[r].dirty)]
    /\ Step(r, "apply")
    /\ UNCHANGED <<db, memory, bumps, stream, history>>

\* Mutant: the copy takes the row that was read back.
ApplyRow(r) ==
    /\ req[r].op = "apply" /\ table[req[r].id] # None
    /\ memory' = IF req[r].id \in InMemory
                 THEN [memory EXCEPT ![req[r].id] = table[req[r].id]] ELSE memory
    /\ Done(r)
    /\ UNCHANGED <<db, table, bumps, stream, history>>

\* The copy takes the fields of the request, if it still has the rule.
Apply(r) ==
    /\ req[r].op = "apply" /\ table[req[r].id] # None
    /\ memory' = IF req[r].id \in InMemory
                 THEN [memory EXCEPT ![req[r].id] = Patched(@, req[r].patch)] ELSE memory
    /\ Done(r)
    /\ UNCHANGED <<db, table, bumps, stream, history>>

\* Mutant: the copy is left alone until the row is gone, and then forgotten.
DeleteOnlyRow(r, id) ==
    /\ req[r] = Idle /\ Known(id) /\ Notice(id)
    /\ UNCHANGED memory
    /\ IF db THEN req' = [req EXCEPT ![r] = [op |-> "delete", id |-> id]] /\ UNCHANGED deleted
             ELSE deleted' = deleted \cup {id} /\ UNCHANGED req
    /\ UNCHANGED <<db, table, bumps, stream, failed>>

\* DELETE: no longer evaluated, then no longer stored.
Delete(r, id) ==
    /\ req[r] = Idle /\ Known(id) /\ Notice(id)
    /\ memory' = [memory EXCEPT ![id] = None]
    /\ IF db THEN req' = [req EXCEPT ![r] = [op |-> "delete", id |-> id]] /\ UNCHANGED deleted
             ELSE deleted' = deleted \cup {id} /\ UNCHANGED req
    /\ UNCHANGED <<db, table, bumps, stream, failed>>

DeleteRow(r) ==
    /\ req[r].op = "delete"
    /\ table' = [table EXCEPT ![req[r].id] = None]
    /\ deleted' = deleted \cup {req[r].id}
    /\ Done(r)
    /\ UNCHANGED <<db, memory, bumps, stream, failed, overlapped>>

\* Mutant: an error of the storage is caught, and the copy updated.
Unnoticed(r) ==
    /\ req[r] # Idle
    /\ Done(r)
    /\ memory' = IF req[r].op = "commit" /\ req[r].id \in InMemory
                 THEN [memory EXCEPT ![req[r].id] = Patched(@, req[r].patch)] ELSE memory
    /\ UNCHANGED <<db, table, bumps, stream, history>>

\* The storage fails, or the row is gone: the request ends in an error, and
\* what it has done so far stays.
Fails(r) ==
    /\ req[r] # Idle
    /\ Done(r)
    /\ failed' = IF req[r].op \in {"append", "apply", "delete"}
                 THEN failed \cup {req[r].id} ELSE failed
    /\ UNCHANGED <<db, memory, table, bumps, stream, deleted, overlapped>>

-----------------------------------------------------------------------------
\* The events.

Enabled(id) == id \in InMemory /\ memory[id].enabled

\* _evaluate_rules on an event that meets c.  A malformed rule raises: the
\* rules before it have been counted, and the error ends _stream_loop.
Event(c) ==
    LET hits == {id \in Ids : Enabled(id) /\ memory[id].cond = c}
        bad == {id \in Ids : Enabled(id) /\ memory[id].cond = Malformed}
    IN  /\ stream = "up"
        /\ \A id \in hits : memory[id].count < MaxCount
        /\ Cardinality(bumps) + Cardinality(hits) <= MaxBumps
        /\ \E done \in IF bad = {} THEN {hits} ELSE SUBSET hits :
             /\ memory' = [id \in Ids |-> IF id \in done
                                          THEN [memory[id] EXCEPT !.count = @ + 1] ELSE memory[id]]
             /\ bumps' = IF db THEN bumps \cup {[id |-> id, count |-> memory[id].count + 1, seen |-> None] :
                                                id \in done}
                               ELSE bumps
        /\ stream' = IF bad = {} THEN "up" ELSE "dead"
        /\ UNCHANGED <<db, table, req, history>>

\* _bump: db_update_rule with the count the match reached.
BumpSelect(b) ==
    /\ b.seen = None
    /\ bumps' = (bumps \ {b}) \cup
                IF table[b.id] = None THEN {} ELSE {[b EXCEPT !.seen = table[b.id].count]}
    /\ UNCHANGED <<db, memory, table, req, stream, history>>

BumpCommit(b) ==
    /\ b.seen # None
    /\ table' = IF table[b.id] = None \/ b.seen = b.count THEN table
                ELSE [table EXCEPT ![b.id].count = b.count]
    /\ bumps' = bumps \ {b}
    /\ UNCHANGED <<db, memory, req, stream, history>>

BumpFails(b) ==
    /\ bumps' = bumps \ {b}
    /\ UNCHANGED <<db, memory, table, req, stream, history>>

\* Mutant: the counts are not read back.
RestartUncounted ==
    /\ memory' = [id \in Ids |-> IF id \in InDb THEN [table[id] EXCEPT !.count = 0] ELSE None]
    /\ req' = [r \in Requests |-> Idle]
    /\ bumps' = {} /\ stream' = "up" /\ failed' = {} /\ overlapped' = {}
    /\ UNCHANGED <<db, table, deleted>>

\* lifespan loads the rules.
Restart ==
    /\ memory' = table
    /\ req' = [r \in Requests |-> Idle]
    /\ bumps' = {} /\ stream' = "up" /\ failed' = {} /\ overlapped' = {}
    /\ UNCHANGED <<db, table, deleted>>

Next ==
    \/ \E r \in Requests, id \in Ids :
         \/ \E fields \in Fields : Create(r, id, fields)
         \/ \E patch \in Patches : Update(r, id, patch)
         \/ Delete(r, id)
    \/ \E r \in Requests : Insert(r) \/ Append(r) \/ Select(r) \/ Commit(r) \/ Apply(r)
                           \/ DeleteRow(r) \/ Fails(r)
    \/ \E c \in Conds : Event(c)
    \/ \E b \in bumps : BumpSelect(b) \/ BumpCommit(b) \/ BumpFails(b)
    \/ Restart

Spec == Init /\ [][Next]_vars

-----------------------------------------------------------------------------

TypeOK ==
    /\ db \in BOOLEAN
    /\ {memory[id] : id \in Ids} \cup {table[id] : id \in Ids} \subseteq Rule \cup {None}
    /\ bumps \subseteq [id : Ids, count : 1..MaxCount, seen : 0..MaxCount \cup {None}]
    /\ stream \in {"up", "dead"}
    /\ deleted \subseteq Ids /\ failed \subseteq Ids /\ overlapped \subseteq Ids
    /\ ~db => table = [id \in Ids |-> None] /\ bumps = {}

\* Unless two requests about a rule overlapped, no live event is matched
\* against it when it is not stored, failed writes included; and whatever
\* overlaps, no restart brings back a rule whose deletion was acknowledged
\* (DbRules: stored before it is evaluated, evaluated no more before it is
\* deleted; repositories.py).
NoGhostRules ==
    /\ db => InMemory \subseteq InDb \cup overlapped
    /\ InMemory \cap deleted \subseteq overlapped /\ InDb \cap deleted = {}

\* With no request in progress on a rule, and none left half done or
\* overlapping another since the start, the copy that is evaluated says what
\* the table says (DbRules, "the in-memory copy follows it").
CopyFollows ==
    db => \A id \in Ids \ (failed \cup overlapped) :
            ~Busy(id) =>
               /\ memory[id] = None <=> table[id] = None
               /\ memory[id] # None /\ table[id] # None =>
                     /\ memory[id].enabled = table[id].enabled
                     /\ memory[id].cond = table[id].cond

\* The same of rules whose requests did overlap, but did not fail.  Not kept by
\* the code: a rule deleted before its creation is answered stays in the copy.
CopyAlwaysFollows ==
    db => \A id \in Ids \ failed : ~Busy(id) => (memory[id] = None <=> table[id] = None)

\* However the _bump tasks are ordered, lost or cut short, the stored match
\* count is never ahead of the one that is kept in memory (_evaluate_rules).
StoredCountNotAhead ==
    \A id \in InDb \cap InMemory : table[id].count <= memory[id].count

\* A request that edits a rule never takes back matches counted while it was
\* waiting for the storage (DbRules.update); only a restart can.
EditsKeepCounts ==
    [][\A id \in InMemory : memory'[id] # None /\ memory'[id].count < memory[id].count
         => memory' = table /\ bumps' = {} /\ \A r \in Requests : req'[r] = Idle]_vars
=============================================================================
