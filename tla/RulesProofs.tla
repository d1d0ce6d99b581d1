---------------------------- MODULE RulesProofs ----------------------------
(***************************************************************************)
(* The copy of the detection rules that events are matched against follows *)
(* the stored rules: proofs about module Rules, for any number of rules,   *)
(* requests and counting tasks, with every failure and restart.            *)
(*                                                                         *)
(* The invariant Inv adds to the three properties of a state, which do not *)
(* speak of what is in progress: that two requests are about one rule only *)
(* if it counts as overlapped (Alone); that a rule being created is its    *)
(* creator's alone (Creating); what is known of the counts that are still  *)
(* to be stored (Counting); and what copy and table say of a rule at every *)
(* stage of a request that nothing disturbed (Stages).                     *)
(***************************************************************************)
EXTENDS Rules, TLAPS

\* What a request may set of a rule.
IsPatch(p) ==
    /\ DOMAIN p \subseteq {"enabled", "cond"}
    /\ "enabled" \in DOMAIN p => p.enabled \in BOOLEAN
    /\ "cond" \in DOMAIN p => p.cond \in Conds \cup {Malformed}

\* A request at any of its stages.
Request(q) ==
    \/ q = Idle
    \/ /\ q.op \in {"insert", "append"}
       /\ q \in [op : {q.op}, id : Ids, rule : Rule] /\ q.rule.count = 0
    \/ /\ q.op = "select"
       /\ q \in [op : {q.op}, id : Ids, patch : {q.patch}] /\ IsPatch(q.patch)
    \/ /\ q.op \in {"commit", "apply"}
       /\ q \in [op : {q.op}, id : Ids, patch : {q.patch}, dirty : {q.dirty}]
       /\ IsPatch(q.patch) /\ IsPatch(q.dirty)
    \/ /\ q.op = "delete"
       /\ q \in [op : {q.op}, id : Ids]

\* The type invariant in full; without a database no request waits for one.
Typing ==
    /\ TypeOK
    /\ memory \in [Ids -> Rule \cup {None}] /\ table \in [Ids -> Rule \cup {None}]
    /\ req \in [Requests -> {req[r] : r \in Requests}]
    /\ \A r \in Requests : Request(req[r])
    /\ ~db => \A r \in Requests : req[r] = Idle

\* Two requests are about one rule only if it counts as overlapped.
Alone ==
    \A r, s \in Requests :
      r # s /\ req[r] # Idle /\ req[s] # Idle /\ req[r].id = req[s].id
        => req[r].id \in overlapped

\* A rule that is being created is the creator's alone until it is stored, and is
\* in no copy and counted by no task until it is answered.
Creating ==
    \A r \in Requests :
      /\ req[r].op = "insert" =>
           /\ ~Known(req[r].id)
           /\ \A s \in Requests \ {r} : req[s] # Idle => req[s].id # req[r].id
      /\ req[r].op = "append" =>
           /\ memory[req[r].id] = None
           /\ req[r].id \in InDb \cup deleted
           /\ table[req[r].id] # None => table[req[r].id].count = 0
           /\ \A b \in bumps : b.id # req[r].id
           /\ \A s \in Requests \ {r} : req[s].op = "append" => req[s].id # req[r].id

\* Counts in flight are not ahead of the copy's, and about rules that were stored.
Counting ==
    /\ db => InMemory \subseteq InDb \cup deleted
    /\ \A b \in bumps :
         /\ b.id \in InDb \cup deleted
         /\ b.id \in InMemory => b.count <= memory[b.id].count

\* Copy and table agree on a rule, its count aside.
Same(id) ==
    /\ memory[id] = None <=> table[id] = None
    /\ memory[id] # None /\ table[id] # None =>
         memory[id].enabled = table[id].enabled /\ memory[id].cond = table[id].cond

\* Setting p is what is left of setting q, the rest being so already.
Rest(rule, p, q) ==
    /\ DOMAIN p \subseteq DOMAIN q
    /\ \A f \in DOMAIN q : IF f \in DOMAIN p THEN p[f] = q[f] ELSE rule[f] = q[f]

\* How far a request has come that nothing disturbed.
Stage(q) ==
    /\ q.op = "append" => table[q.id] # None
    /\ q.op \in {"select", "commit"} => Same(q.id)
    /\ q.op = "commit" => table[q.id] # None /\ Rest(table[q.id], q.dirty, q.patch)
    /\ q.op = "apply" =>
         /\ memory[q.id] # None /\ table[q.id] # None
         /\ \A f \in {"enabled", "cond"} :
              table[q.id][f] = IF f \in DOMAIN q.patch THEN q.patch[f] ELSE memory[q.id][f]

\* What holds at the stage a request has reached.
Stages ==
    \A r \in Requests :
      /\ req[r].op = "delete" /\ req[r].id \notin overlapped => memory[req[r].id] = None
      /\ req[r] # Idle /\ req[r].id \notin overlapped \cup failed => Stage(req[r])

Inv ==
    /\ Typing /\ Alone /\ Creating /\ Counting /\ Stages
    /\ NoGhostRules /\ CopyFollows /\ StoredCountNotAhead

-----------------------------------------------------------------------------
(* What the helpers return. *)

LEMMA PatchedIs ==
    ASSUME NEW rule \in Rule, NEW p, IsPatch(p)
    PROVE  /\ Patched(rule, p) \in Rule
           /\ Patched(rule, p).count = rule.count
           /\ \A f \in {"enabled", "cond"} :
                Patched(rule, p)[f] = IF f \in DOMAIN p THEN p[f] ELSE rule[f]
<1>1. DOMAIN rule = {"enabled", "cond", "count"}
  BY DEF Rule
<1>2. "count" \notin DOMAIN p
  BY DEF IsPatch
<1>3. Patched(rule, p) = [enabled |-> IF "enabled" \in DOMAIN p THEN p["enabled"] ELSE rule.enabled,
                          cond |-> IF "cond" \in DOMAIN p THEN p["cond"] ELSE rule.cond,
                          count |-> rule.count]
  BY <1>1, <1>2 DEF Patched, Rule
<1>4. QED
  BY <1>3 DEF Rule, IsPatch

LEMMA PatchesAre == ASSUME NEW p \in Patches PROVE IsPatch(p)
  BY DEF Patches, Fields, IsPatch

LEMMA DirtyIs ==
    ASSUME NEW rule \in Rule, NEW p, IsPatch(p)
    PROVE  IsPatch(Dirty(rule, p)) /\ Rest(rule, Dirty(rule, p), p)
  BY DEF Dirty, IsPatch, Rest

LEMMA NotIdle ==
    ASSUME NEW q, q.op # "idle"
    PROVE  q # Idle
  BY DEF Idle

LEMMA BusyIs ==
    ASSUME NEW id
    PROVE  Busy(id) <=> \E r \in Requests : req[r] # Idle /\ req[r].id = id
  BY DEF Busy

-----------------------------------------------------------------------------

\* A request that goes on to its next stage.
LEMMA StepIs ==
    ASSUME Typing, NEW r \in Requests, NEW stage, Step(r, stage),
           \/ req[r].op = "insert" /\ stage = "append"
           \/ req[r].op = "commit" /\ stage = "apply"
    PROVE  \E q : /\ req' = [req EXCEPT ![r] = q] /\ Request(q)
                  /\ q.op = stage /\ q.id = req[r].id
                  /\ stage = "append" => q.rule = req[r].rule
                  /\ stage = "apply" => q.patch = req[r].patch
<1> DEFINE q == [req[r] EXCEPT !.op = stage]
<1>1. req' = [req EXCEPT ![r] = q]
  BY DEF Step
<1>2. Request(req[r])
  BY DEF Typing
<1>3. CASE req[r].op = "insert" /\ stage = "append"
  <2>1. q \in [op : {q.op}, id : Ids, rule : Rule] /\ q.op = "append" /\ q.id = req[r].id /\ q.rule = req[r].rule
        /\ req[r].rule.count = 0
    BY <1>2, <1>3 DEF Request, Idle
  <2> HIDE DEF q
  <2> QED BY <1>1, <1>3, <2>1 DEF Request
<1>4. CASE req[r].op = "commit" /\ stage = "apply"
  <2>1. /\ q \in [op : {q.op}, id : Ids, patch : {q.patch}, dirty : {q.dirty}]
        /\ q.op = "apply" /\ q.id = req[r].id /\ q.patch = req[r].patch /\ q.dirty = req[r].dirty
        /\ IsPatch(req[r].patch) /\ IsPatch(req[r].dirty)
    BY <1>2, <1>4 DEF Request, Idle
  <2> HIDE DEF q
  <2> QED BY <1>1, <1>4, <2>1 DEF Request
<1> QED BY <1>3, <1>4

-----------------------------------------------------------------------------
(* Every action preserves the invariant. *)

LEMMA CreateInv ==
    ASSUME Inv, NEW r \in Requests, NEW id \in Ids, NEW fields \in Fields, Create(r, id, fields)
    PROVE  Inv'
<1> USE DEF Inv, history
<1>1. PICK rule \in Rule :
        /\ rule # None /\ rule.count = 0
        /\ IF db THEN /\ req' = [req EXCEPT ![r] = [op |-> "insert", id |-> id, rule |-> rule]]
                      /\ UNCHANGED memory
                 ELSE memory' = [memory EXCEPT ![id] = rule] /\ UNCHANGED req
  <2> DEFINE rule == [enabled |-> fields.enabled, cond |-> fields.cond, count |-> 0]
  <2>1. rule \in Rule /\ rule # None
    BY BoundsAssumption, NoneAssumption DEF Fields, Rule
  <2> QED BY <2>1 DEF Create
<1>2. /\ req[r] = Idle /\ ~Known(id) /\ ~Busy(id)
      /\ UNCHANGED <<db, table, bumps, stream, history>>
  BY DEF Create
<1>3. Typing'
  BY <1>1, <1>2 DEF Typing, TypeOK, Request
<1>4. Alone'
  BY <1>1, <1>2, BusyIs DEF Alone, Typing, Idle
<1>5. Creating'
  BY <1>1, <1>2, BusyIs DEF Creating, Typing, Known, InDb, InMemory, Idle, Counting
<1>6. Counting'
  BY <1>1, <1>2 DEF Counting, Creating, Typing, InDb, InMemory, Known
<1>7. Stages'
  BY <1>1, <1>2, BusyIs DEF Stages, Stage, Same, Rest, Alone, Typing, Idle, Busy
<1>8. NoGhostRules'
  BY <1>1, <1>2 DEF NoGhostRules, Creating, Typing, InDb, InMemory, Known, TypeOK
<1>9. CopyFollows'
  BY <1>1, <1>2 DEF CopyFollows, Busy, Typing, Alone, Stages, Stage, Same, Known
<1>10. StoredCountNotAhead'
  BY <1>1, <1>2 DEF StoredCountNotAhead, Creating, Typing, TypeOK, InDb, InMemory, Rule, Known
<1> QED BY <1>3, <1>4, <1>5, <1>6, <1>7, <1>8, <1>9, <1>10

LEMMA InsertInv ==
    ASSUME Inv, NEW r \in Requests, Insert(r)
    PROVE  Inv'
<1> USE DEF Inv, history
<1>1. PICK id \in Ids :
        /\ id = req[r].id /\ req[r].op = "insert" /\ req[r] # Idle
        /\ req[r].rule \in Rule /\ req[r].rule # None /\ req[r].rule.count = 0
        /\ memory[id] = None /\ table[id] = None /\ id \notin deleted /\ db
        /\ \A b \in bumps : b.id # id
        /\ \A s \in Requests \ {r} : req[s] # Idle => req[s].id # id
  BY NoneAssumption DEF Insert, Typing, Request, Idle, Creating, Known, InDb, InMemory, Counting
<1>2. PICK q : /\ req' = [req EXCEPT ![r] = q] /\ Request(q)
               /\ q.op = "append" /\ q.id = id /\ q # Idle /\ q.rule = req[r].rule
  BY <1>1, StepIs DEF Insert, Idle
<1>3. /\ table' = [table EXCEPT ![id] = req[r].rule]
      /\ UNCHANGED <<db, memory, bumps, stream, history>>
  BY <1>1 DEF Insert
<1>4. Typing'
  BY <1>1, <1>2, <1>3 DEF Typing, TypeOK, Request
<1>5. Alone'
  BY <1>1, <1>2, <1>3 DEF Alone, Typing
<1>6. Creating'
  BY <1>1, <1>2, <1>3 DEF Creating, Typing, Known, InDb, InMemory, Idle
<1>7. Counting'
  BY <1>1, <1>2, <1>3 DEF Counting, Creating, Typing, InDb, InMemory
<1>8. Stages'
  BY <1>1, <1>2, <1>3 DEF Stages, Stage, Same, Rest, Alone, Typing, Idle
<1>9. NoGhostRules'
  BY <1>1, <1>2, <1>3 DEF NoGhostRules, Creating, Typing, InDb, InMemory
<1>10. CopyFollows'
  BY <1>1, <1>2, <1>3 DEF CopyFollows, Busy, Typing, Alone, Stages, Stage, Same
<1>11. StoredCountNotAhead'
  BY <1>1, <1>2, <1>3 DEF StoredCountNotAhead, Creating, Typing, TypeOK, InDb, InMemory, Rule
<1> QED BY <1>4, <1>5, <1>6, <1>7, <1>8, <1>9, <1>10, <1>11

LEMMA AppendInv ==
    ASSUME Inv, NEW r \in Requests, Append(r)
    PROVE  Inv'
<1> USE DEF Inv, history
<1>1. PICK id \in Ids :
        /\ id = req[r].id /\ req[r].op = "append" /\ req[r] # Idle
        /\ table[id] \in Rule /\ table[id] # None /\ memory[id] = None
  BY NoneAssumption DEF Append, Typing, Request, Idle, Creating
<1>2. /\ memory' = [memory EXCEPT ![id] = table[id]]
      /\ req' = [req EXCEPT ![r] = Idle]
      /\ UNCHANGED <<db, table, bumps, stream, history>>
  BY <1>1 DEF Append, Done
<1>3. Typing'
  BY <1>1, <1>2 DEF Typing, TypeOK, Request
<1>4. Alone'
  BY <1>1, <1>2 DEF Alone, Typing
<1>5. Creating'
  BY <1>1, <1>2 DEF Creating, Typing, Known, InDb, InMemory, Idle
<1>6. Counting'
  BY <1>1, <1>2 DEF Counting, Creating, Typing, InDb, InMemory
<1>7. Stages'
  BY <1>1, <1>2 DEF Stages, Stage, Same, Rest, Alone, Typing, Idle
<1>8. NoGhostRules'
  BY <1>1, <1>2 DEF NoGhostRules, Creating, Typing, InDb, InMemory
<1>9. CopyFollows'
  BY <1>1, <1>2 DEF CopyFollows, Busy, Typing, Alone, Stages, Stage, Same
<1>10. StoredCountNotAhead'
  BY <1>1, <1>2 DEF StoredCountNotAhead, Creating, Typing, TypeOK, InDb, InMemory, Rule
<1> QED BY <1>3, <1>4, <1>5, <1>6, <1>7, <1>8, <1>9, <1>10

LEMMA UpdateInv ==
    ASSUME Inv, NEW r \in Requests, NEW id \in Ids, NEW patch \in Patches, Update(r, id, patch)
    PROVE  Inv'
<1> USE DEF Inv, history
<1>1. /\ req[r] = Idle /\ Known(id) /\ IsPatch(patch)
      /\ overlapped' = IF Busy(id) THEN overlapped \cup {id} ELSE overlapped
      /\ UNCHANGED <<db, table, bumps, stream, deleted, failed>>
  BY PatchesAre DEF Update, Notice
<1>2. IF db THEN /\ req' = [req EXCEPT ![r] = [op |-> "select", id |-> id, patch |-> patch]]
                 /\ UNCHANGED memory
      ELSE /\ UNCHANGED req
           /\ \/ UNCHANGED memory
              \/ /\ memory[id] \in Rule /\ memory[id] # None
                 /\ \E rule \in Rule : /\ rule # None /\ rule.count = memory[id].count
                                       /\ memory' = [memory EXCEPT ![id] = rule]
  BY <1>1, PatchedIs, NoneAssumption DEF Update, Typing, InMemory
<1>3. db => UNCHANGED memory /\ (id \notin overlapped' \cup failed' => Same(id))
  BY <1>1, <1>2, BusyIs DEF CopyFollows, Same
<1>4. ~db => \A s \in Requests : req'[s] = Idle
  BY <1>1, <1>2 DEF Typing
<1>5. Typing'
  BY <1>1, <1>2, <1>3, <1>4 DEF Typing, TypeOK, Request
<1>6. Alone'
  BY <1>1, <1>2, <1>3, <1>4, BusyIs DEF Alone, Typing, Idle
<1>7. Creating'
  BY <1>1, <1>2, <1>3, <1>4, BusyIs DEF Creating, Typing, Known, InDb, InMemory, Idle, Counting
<1>8. Counting'
  BY <1>1, <1>2, <1>3, <1>4 DEF Counting, Creating, Typing, InDb, InMemory
<1>9. Stages'
  BY <1>1, <1>2, <1>3, <1>4 DEF Stages, Stage, Same, Rest, Alone, Typing, Idle
<1>10. NoGhostRules'
  BY <1>1, <1>2, <1>3, <1>4 DEF NoGhostRules, Creating, Typing, InDb, InMemory
<1>11. CopyFollows'
  BY <1>1, <1>2, <1>3, <1>4, BusyIs DEF CopyFollows, Busy, Typing, Alone, Stages, Stage, Same, Idle
<1>12. StoredCountNotAhead'
  BY <1>1, <1>2, <1>3, <1>4 DEF StoredCountNotAhead, Creating, Typing, TypeOK, InDb, InMemory, Rule
<1> QED BY <1>5, <1>6, <1>7, <1>8, <1>9, <1>10, <1>11, <1>12

LEMMA SelectInv ==
    ASSUME Inv, NEW r \in Requests, Select(r)
    PROVE  Inv'
<1> USE DEF Inv, history
<1>1. PICK id \in Ids :
        /\ id = req[r].id /\ req[r].op = "select" /\ req[r] # Idle /\ IsPatch(req[r].patch)
        /\ UNCHANGED <<db, memory, table, bumps, stream, history>>
  BY DEF Select, Typing, Request, Idle
<1>2. \/ table[id] = None /\ req' = [req EXCEPT ![r] = Idle]
      \/ /\ table[id] # None
         /\ \E q : /\ req' = [req EXCEPT ![r] = q] /\ Request(q) /\ q # Idle
                   /\ q.op = "commit" /\ q.id = id /\ Rest(table[id], q.dirty, q.patch)
  <2>1. CASE table[id] = None
    BY <1>1, <2>1 DEF Select, Done
  <2>2. CASE table[id] # None
    <3> DEFINE q == [op |-> "commit", id |-> id, patch |-> req[r].patch,
                     dirty |-> Dirty(table[id], req[r].patch)]
    <3>1. table[id] \in Rule
      BY <2>2 DEF Typing
    <3>2. IsPatch(q.dirty) /\ Rest(table[id], q.dirty, q.patch)
      BY <1>1, <3>1, DirtyIs
    <3>3. req' = [req EXCEPT ![r] = q]
      BY <1>1, <2>2 DEF Select
    <3>4. Request(q) /\ q # Idle /\ q.op = "commit" /\ q.id = id
      BY <1>1, <3>2 DEF Request, Idle
    <3> HIDE DEF q
    <3> QED BY <2>2, <3>2, <3>3, <3>4
  <2> QED BY <2>1, <2>2
<1>3. Typing'
  BY <1>1, <1>2 DEF Typing, TypeOK, Request
<1>4. Alone'
  BY <1>1, <1>2 DEF Alone, Typing
<1>5. Creating'
  BY <1>1, <1>2 DEF Creating, Typing, Known, InDb, InMemory, Idle
<1>6. Counting'
  BY <1>1, <1>2 DEF Counting, Creating, Typing, InDb, InMemory
<1>7. Stages'
  BY <1>1, <1>2 DEF Stages, Stage, Same, Rest, Alone, Typing, Idle
<1>8. NoGhostRules'
  BY <1>1, <1>2 DEF NoGhostRules, Creating, Typing, InDb, InMemory
<1>9. CopyFollows'
  BY <1>1, <1>2 DEF CopyFollows, Busy, Typing, Alone, Stages, Stage, Same
<1>10. StoredCountNotAhead'
  BY <1>1, <1>2 DEF StoredCountNotAhead, Creating, Typing, TypeOK, InDb, InMemory, Rule
<1> QED BY <1>3, <1>4, <1>5, <1>6, <1>7, <1>8, <1>9, <1>10

LEMMA CommitInv ==
    ASSUME Inv, NEW r \in Requests, Commit(r)
    PROVE  Inv'
<1> USE DEF Inv, history
<1>1. PICK id \in Ids :
        /\ id = req[r].id /\ req[r].op = "commit" /\ req[r] # Idle
        /\ IsPatch(req[r].patch) /\ IsPatch(req[r].dirty)
        /\ table[id] \in Rule /\ table[id] # None /\ db
        /\ UNCHANGED <<db, memory, bumps, stream, history>>
  BY DEF Commit, Typing, Request, Idle
<1>2. PICK q : /\ req' = [req EXCEPT ![r] = q] /\ Request(q)
               /\ q.op = "apply" /\ q.id = id /\ q # Idle /\ q.patch = req[r].patch
  BY <1>1, StepIs DEF Commit, Idle
<1>3. PICK rule \in Rule :
        /\ table' = [table EXCEPT ![id] = rule]
        /\ rule # None /\ rule.count = table[id].count
        /\ \A f \in {"enabled", "cond"} :
             rule[f] = IF f \in DOMAIN req[r].dirty THEN req[r].dirty[f] ELSE table[id][f]
  <2> DEFINE rule == Patched(table[id], req[r].dirty)
  <2>1. table' = [table EXCEPT ![id] = rule]
    BY <1>1 DEF Commit
  <2>2. /\ rule \in Rule /\ rule.count = table[id].count
        /\ \A f \in {"enabled", "cond"} :
             rule[f] = IF f \in DOMAIN req[r].dirty THEN req[r].dirty[f] ELSE table[id][f]
    BY <1>1, PatchedIs
  <2> HIDE DEF rule
  <2> QED BY <2>1, <2>2, NoneAssumption
<1>4. Typing'
  BY <1>1, <1>2, <1>3 DEF Typing, TypeOK, Request
<1>5. Alone'
  BY <1>1, <1>2, <1>3 DEF Alone, Typing
<1>6. Creating'
  BY <1>1, <1>2, <1>3 DEF Creating, Typing, Known, InDb, InMemory, Idle
<1>7. Counting'
  BY <1>1, <1>2, <1>3 DEF Counting, Creating, Typing, InDb, InMemory
<1>8. Stages'
  BY <1>1, <1>2, <1>3 DEF Stages, Stage, Same, Rest, Alone, Typing, Idle
<1>9. NoGhostRules'
  BY <1>1, <1>2, <1>3 DEF NoGhostRules, Creating, Typing, InDb, InMemory
<1>10. CopyFollows'
  BY <1>1, <1>2, <1>3 DEF CopyFollows, Busy, Typing, Alone, Stages, Stage, Same
<1>11. StoredCountNotAhead'
  BY <1>1, <1>2, <1>3 DEF StoredCountNotAhead, Creating, Typing, TypeOK, InDb, InMemory, Rule
<1> QED BY <1>4, <1>5, <1>6, <1>7, <1>8, <1>9, <1>10, <1>11

LEMMA ApplyInv ==
    ASSUME Inv, NEW r \in Requests, Apply(r)
    PROVE  Inv'
<1> USE DEF Inv, history
<1>1. PICK id \in Ids :
        /\ id = req[r].id /\ req[r].op = "apply" /\ req[r] # Idle /\ IsPatch(req[r].patch)
        /\ table[id] \in Rule /\ table[id] # None /\ db
        /\ req' = [req EXCEPT ![r] = Idle]
        /\ UNCHANGED <<db, table, bumps, stream, history>>
  BY DEF Apply, Done, Typing, Request, Idle
<1>2. PICK rule \in Rule \cup {None} :
        /\ memory' = [memory EXCEPT ![id] = rule]
        /\ memory[id] = None <=> rule = None
        /\ memory[id] # None =>
             /\ memory[id] \in Rule /\ rule \in Rule /\ rule.count = memory[id].count
             /\ \A f \in {"enabled", "cond"} :
                  rule[f] = IF f \in DOMAIN req[r].patch THEN req[r].patch[f] ELSE memory[id][f]
  <2>1. CASE memory[id] = None
    <3>1. UNCHANGED memory /\ memory = [memory EXCEPT ![id] = None]
      BY <1>1, <2>1 DEF Apply, InMemory, Typing
    <3> QED BY <2>1, <3>1
  <2>2. CASE memory[id] # None
    <3> DEFINE rule == Patched(memory[id], req[r].patch)
    <3>1. memory' = [memory EXCEPT ![id] = rule] /\ memory[id] \in Rule
      BY <1>1, <2>2 DEF Apply, InMemory, Typing
    <3>2. /\ rule \in Rule /\ rule.count = memory[id].count
          /\ \A f \in {"enabled", "cond"} :
               rule[f] = IF f \in DOMAIN req[r].patch THEN req[r].patch[f] ELSE memory[id][f]
      BY <1>1, <3>1, PatchedIs
    <3> HIDE DEF rule
    <3> QED BY <2>2, <3>1, <3>2, NoneAssumption
  <2> QED BY <2>1, <2>2
<1>3. Typing'
  BY <1>1, <1>2 DEF Typing, TypeOK, Request
<1>4. Alone'
  BY <1>1, <1>2 DEF Alone, Typing
<1>5. Creating'
  BY <1>1, <1>2 DEF Creating, Typing, Known, InDb, InMemory, Idle
<1>6. Counting'
  BY <1>1, <1>2 DEF Counting, Creating, Typing, InDb, InMemory
<1>7. Stages'
  BY <1>1, <1>2 DEF Stages, Stage, Same, Rest, Alone, Typing, Idle
<1>8. NoGhostRules'
  BY <1>1, <1>2 DEF NoGhostRules, Creating, Typing, InDb, InMemory
<1>9. CopyFollows'
  BY <1>1, <1>2 DEF CopyFollows, Busy, Typing, Alone, Stages, Stage, Same
<1>10. StoredCountNotAhead'
  BY <1>1, <1>2 DEF StoredCountNotAhead, Creating, Typing, TypeOK, InDb, InMemory, Rule
<1> QED BY <1>3, <1>4, <1>5, <1>6, <1>7, <1>8, <1>9, <1>10

LEMMA DeleteInv ==
    ASSUME Inv, NEW r \in Requests, NEW id \in Ids, Delete(r, id)
    PROVE  Inv'
<1> USE DEF Inv, history
<1>1. /\ req[r] = Idle /\ Known(id)
      /\ overlapped' = IF Busy(id) THEN overlapped \cup {id} ELSE overlapped
      /\ memory' = [memory EXCEPT ![id] = None]
      /\ UNCHANGED <<db, table, bumps, stream, failed>>
  BY DEF Delete, Notice
<1>2. IF db THEN /\ req' = [req EXCEPT ![r] = [op |-> "delete", id |-> id]] /\ UNCHANGED deleted
            ELSE deleted' = deleted \cup {id} /\ UNCHANGED req
  BY DEF Delete
<1>3. Typing'
  BY <1>1, <1>2 DEF Typing, TypeOK, Request
<1>4. Alone'
  BY <1>1, <1>2, BusyIs DEF Alone, Typing, Idle
<1>5. Creating'
  BY <1>1, <1>2, BusyIs DEF Creating, Typing, Known, InDb, InMemory, Idle, Counting
<1>6. Counting'
  BY <1>1, <1>2 DEF Counting, Creating, Typing, InDb, InMemory
<1>7. Stages'
  BY <1>1, <1>2, BusyIs DEF Stages, Stage, Same, Rest, Alone, Typing, Idle, CopyFollows
<1>8. NoGhostRules'
  BY <1>1, <1>2 DEF NoGhostRules, Creating, Typing, InDb, InMemory, TypeOK
<1>9. CopyFollows'
  BY <1>1, <1>2, BusyIs DEF CopyFollows, Busy, Typing, Alone, Stages, Stage, Same, Idle
<1>10. StoredCountNotAhead'
  BY <1>1, <1>2 DEF StoredCountNotAhead, Creating, Typing, TypeOK, InDb, InMemory, Rule
<1> QED BY <1>3, <1>4, <1>5, <1>6, <1>7, <1>8, <1>9, <1>10

LEMMA DeleteRowInv ==
    ASSUME Inv, NEW r \in Requests, DeleteRow(r)
    PROVE  Inv'
<1> USE DEF Inv, history
<1>1. PICK id \in Ids :
        /\ id = req[r].id /\ req[r].op = "delete" /\ req[r] # Idle /\ db
        /\ id \notin overlapped => memory[id] = None
  BY DEF DeleteRow, Typing, Request, Idle, Stages
<1>2. /\ table' = [table EXCEPT ![id] = None] /\ deleted' = deleted \cup {id}
      /\ req' = [req EXCEPT ![r] = Idle]
      /\ UNCHANGED <<db, memory, bumps, stream, failed, overlapped>>
  BY <1>1 DEF DeleteRow, Done
<1>3. Typing'
  BY <1>1, <1>2 DEF Typing, TypeOK, Request
<1>4. Alone'
  BY <1>1, <1>2 DEF Alone, Typing
<1>5. Creating'
  BY <1>1, <1>2 DEF Creating, Typing, Known, InDb, InMemory, Idle
<1>6. Counting'
  BY <1>1, <1>2 DEF Counting, Creating, Typing, InDb, InMemory
<1>7. Stages'
  BY <1>1, <1>2 DEF Stages, Stage, Same, Rest, Alone, Typing, Idle
<1>8. NoGhostRules'
  BY <1>1, <1>2 DEF NoGhostRules, Creating, Typing, InDb, InMemory
<1>9. CopyFollows'
  BY <1>1, <1>2 DEF CopyFollows, Busy, Typing, Alone, Stages, Stage, Same
<1>10. StoredCountNotAhead'
  BY <1>1, <1>2 DEF StoredCountNotAhead, Creating, Typing, TypeOK, InDb, InMemory, Rule
<1> QED BY <1>3, <1>4, <1>5, <1>6, <1>7, <1>8, <1>9, <1>10

LEMMA FailsInv ==
    ASSUME Inv, NEW r \in Requests, Fails(r)
    PROVE  Inv'
<1> USE DEF Inv, history
<1>1. PICK id \in Ids :
        /\ id = req[r].id /\ req[r] # Idle /\ db
        /\ failed' = IF req[r].op \in {"append", "apply", "delete"} THEN failed \cup {id} ELSE failed
        /\ req[r].op \in {"insert", "append", "select", "commit", "apply", "delete"}
  BY DEF Fails, Typing, Request, Idle
<1>2. /\ req' = [req EXCEPT ![r] = Idle]
      /\ UNCHANGED <<db, memory, table, bumps, stream, deleted, overlapped>>
  BY DEF Fails, Done
<1>3. Typing'
  BY <1>1, <1>2 DEF Typing, TypeOK, Request
<1>4. Alone'
  BY <1>1, <1>2 DEF Alone, Typing
<1>5. Creating'
  BY <1>1, <1>2 DEF Creating, Typing, Known, InDb, InMemory, Idle
<1>6. Counting'
  BY <1>1, <1>2 DEF Counting, Creating, Typing, InDb, InMemory
<1>7. Stages'
  BY <1>1, <1>2 DEF Stages, Stage, Same, Rest, Alone, Typing, Idle
<1>8. NoGhostRules'
  BY <1>1, <1>2 DEF NoGhostRules, Creating, Typing, InDb, InMemory
<1>9. CopyFollows'
  BY <1>1, <1>2 DEF CopyFollows, Busy, Typing, Alone, Stages, Stage, Same, Creating, Known, InDb, InMemory, Idle
<1>10. StoredCountNotAhead'
  BY <1>1, <1>2 DEF StoredCountNotAhead, Creating, Typing, TypeOK, InDb, InMemory, Rule
<1> QED BY <1>3, <1>4, <1>5, <1>6, <1>7, <1>8, <1>9, <1>10

LEMMA EventInv ==
    ASSUME Inv, NEW c \in Conds, Event(c)
    PROVE  Inv'
<1> USE DEF Inv, history
<1>1. PICK done \in SUBSET Ids :
        /\ \A id \in done : memory[id] \in Rule /\ memory[id] # None /\ memory[id].count < MaxCount
        /\ memory' = [id \in Ids |-> IF id \in done
                                     THEN [memory[id] EXCEPT !.count = @ + 1] ELSE memory[id]]
        /\ bumps' = IF db THEN bumps \cup {[id |-> id, count |-> memory[id].count + 1, seen |-> None] :
                                           id \in done}
                          ELSE bumps
  BY DEF Event, Enabled, InMemory, Typing
<1>2. /\ UNCHANGED <<db, table, req, history>> /\ stream' \in {"up", "dead"}
  BY DEF Event
<1>3. \A id \in done :
        /\ memory'[id] \in Rule /\ memory'[id] # None
        /\ memory'[id].count = memory[id].count + 1 /\ memory[id].count \in 0..MaxCount
        /\ memory'[id].enabled = memory[id].enabled /\ memory'[id].cond = memory[id].cond
  BY <1>1, NoneAssumption, BoundsAssumption DEF Rule
<1>4. \A id \in Ids \ done : memory'[id] = memory[id]
  BY <1>1
<1>5. /\ \A b \in bumps' \ bumps : /\ db /\ b.id \in done /\ b.count = memory'[b.id].count
                                   /\ b \in [id : Ids, count : Nat, seen : {None}]
      /\ bumps \subseteq bumps' /\ (~db => bumps' = bumps)
  BY <1>1, <1>3 DEF Rule
<1>6. /\ memory' \in [Ids -> Rule \cup {None}]
      /\ \A id \in Ids : /\ memory'[id] = None <=> memory[id] = None
                         /\ memory[id] # None =>
                              /\ \A f \in {"enabled", "cond"} : memory'[id][f] = memory[id][f]
                              /\ memory[id].count \in 0..MaxCount /\ memory'[id].count \in 0..MaxCount
                              /\ memory[id].count <= memory'[id].count
  <2>1. memory' = [id \in Ids |-> memory'[id]]
    BY <1>1
  <2>2. \A id \in Ids : memory'[id] \in Rule \cup {None}
    BY <1>3, <1>4 DEF Typing
  <2>3. ASSUME NEW id \in Ids, memory[id] # None
        PROVE  memory[id].count \in 0..MaxCount /\ memory'[id].count \in 0..MaxCount
    BY <2>2, <2>3, <1>3, <1>4 DEF Typing, Rule
  <2>4. ASSUME NEW id \in Ids, memory[id] # None
        PROVE  memory[id].count <= memory'[id].count
    BY <2>3, <2>4, <1>3, <1>4, BoundsAssumption
  <2>5. ASSUME NEW id \in Ids
        PROVE  /\ memory'[id] = None <=> memory[id] = None
               /\ memory[id] # None =>
                    \A f \in {"enabled", "cond"} : memory'[id][f] = memory[id][f]
    BY <1>1, <1>3, <1>4
  <2> QED BY <2>1, <2>2, <2>3, <2>4, <2>5
<1>7. /\ InMemory' = InMemory /\ InDb' = InDb
      /\ \A b \in bumps' : \/ b \in bumps
                           \/ db /\ b.id \in InMemory /\ b.count = memory'[b.id].count
  BY <1>1, <1>2, <1>5, <1>6 DEF InMemory, InDb
<1>8. Typing'
  BY <1>2, <1>3, <1>4, <1>5, <1>6, <1>7 DEF Typing, TypeOK, Request
<1>9. Alone'
  BY <1>2, <1>3, <1>4, <1>5, <1>6, <1>7 DEF Alone, Typing
<1>10. Creating'
  BY <1>2, <1>6, <1>7 DEF Creating, Typing, Known, InMemory, Request, Idle
<1>11. Counting'
  BY <1>2, <1>6, <1>7, BoundsAssumption DEF Counting, InMemory, Typing, TypeOK
<1>12. Stages'
  BY <1>2, <1>6 DEF Stages, Stage, Same, Rest, Typing, Request, Idle, IsPatch
<1>13. NoGhostRules'
  BY <1>2, <1>3, <1>4, <1>5, <1>6, <1>7 DEF NoGhostRules, Creating, Typing, InDb, InMemory
<1>14. CopyFollows'
  BY <1>2, <1>3, <1>4, <1>5, <1>6, <1>7 DEF CopyFollows, Busy, Typing, Alone, Stages, Stage, Same
<1>15. StoredCountNotAhead'
  BY <1>2, <1>3, <1>4, <1>5, <1>6, <1>7 DEF StoredCountNotAhead, Creating, Typing, TypeOK, InDb, InMemory, Rule
<1> QED BY <1>8, <1>9, <1>10, <1>11, <1>12, <1>13, <1>14, <1>15

LEMMA BumpSelectInv ==
    ASSUME Inv, NEW b \in bumps, BumpSelect(b)
    PROVE  Inv'
<1> USE DEF Inv, history
<1>1. /\ bumps' \subseteq [id : Ids, count : 1..MaxCount, seen : 0..MaxCount \cup {None}]
      /\ \A c \in bumps' : \E d \in bumps : d.id = c.id /\ d.count = c.count
  <2>1. bumps \subseteq [id : Ids, count : 1..MaxCount, seen : 0..MaxCount \cup {None}]
    BY DEF Typing, TypeOK
  <2>2. CASE table[b.id] = None
    BY <2>1, <2>2 DEF BumpSelect
  <2>3. CASE table[b.id] # None
    <3> DEFINE d == [b EXCEPT !.seen = table[b.id].count]
    <3>1. table[b.id].count \in 0..MaxCount
      BY <2>1, <2>3 DEF Typing, Rule
    <3>2. /\ d.id = b.id /\ d.count = b.count
          /\ d \in [id : Ids, count : 1..MaxCount, seen : 0..MaxCount \cup {None}]
      BY <2>1, <3>1
    <3>3. bumps' = (bumps \ {b}) \cup {d}
      BY <2>3 DEF BumpSelect
    <3> HIDE DEF d
    <3> QED BY <2>1, <3>2, <3>3
  <2> QED BY <2>2, <2>3
<1>2. UNCHANGED <<db, memory, table, req, stream, history>>
  BY DEF BumpSelect
<1>3. Typing'
  BY <1>1, <1>2 DEF Typing, TypeOK, Request
<1>4. Alone'
  BY <1>1, <1>2 DEF Alone, Typing
<1>5. Creating'
  BY <1>1, <1>2 DEF Creating, Typing, Known, InDb, InMemory, Idle
<1>6. Counting'
  BY <1>1, <1>2 DEF Counting, Creating, Typing, InDb, InMemory
<1>7. Stages'
  BY <1>1, <1>2 DEF Stages, Stage, Same, Rest, Alone, Typing, Idle
<1>8. NoGhostRules'
  BY <1>1, <1>2 DEF NoGhostRules, Creating, Typing, InDb, InMemory
<1>9. CopyFollows'
  BY <1>1, <1>2 DEF CopyFollows, Busy, Typing, Alone, Stages, Stage, Same
<1>10. StoredCountNotAhead'
  BY <1>1, <1>2 DEF StoredCountNotAhead, Creating, Typing, TypeOK, InDb, InMemory, Rule
<1> QED BY <1>3, <1>4, <1>5, <1>6, <1>7, <1>8, <1>9, <1>10

LEMMA BumpFailsInv ==
    ASSUME Inv, NEW b \in bumps, BumpFails(b)
    PROVE  Inv'
<1> USE DEF Inv, history
<1>1. bumps' \subseteq bumps
  BY DEF BumpFails
<1>2. UNCHANGED <<db, memory, table, req, stream, history>>
  BY DEF BumpFails
<1>3. Typing'
  BY <1>1, <1>2 DEF Typing, TypeOK, Request
<1>4. Alone'
  BY <1>1, <1>2 DEF Alone, Typing
<1>5. Creating'
  BY <1>1, <1>2 DEF Creating, Typing, Known, InDb, InMemory, Idle
<1>6. Counting'
  BY <1>1, <1>2 DEF Counting, Creating, Typing, InDb, InMemory
<1>7. Stages'
  BY <1>1, <1>2 DEF Stages, Stage, Same, Rest, Alone, Typing, Idle
<1>8. NoGhostRules'
  BY <1>1, <1>2 DEF NoGhostRules, Creating, Typing, InDb, InMemory
<1>9. CopyFollows'
  BY <1>1, <1>2 DEF CopyFollows, Busy, Typing, Alone, Stages, Stage, Same
<1>10. StoredCountNotAhead'
  BY <1>1, <1>2 DEF StoredCountNotAhead, Creating, Typing, TypeOK, InDb, InMemory, Rule
<1> QED BY <1>3, <1>4, <1>5, <1>6, <1>7, <1>8, <1>9, <1>10

LEMMA BumpCommitInv ==
    ASSUME Inv, NEW b \in bumps, BumpCommit(b)
    PROVE  Inv'
<1> USE DEF Inv, history
<1>1. /\ bumps' \subseteq bumps /\ b.id \in Ids /\ b.count \in 1..MaxCount
      /\ UNCHANGED <<db, memory, req, stream, history>>
  BY DEF BumpCommit, Typing, TypeOK
<1>2. \/ UNCHANGED table
      \/ /\ table[b.id] # None /\ table[b.id] \in Rule /\ db
         /\ \E rule \in Rule :
              /\ table' = [table EXCEPT ![b.id] = rule] /\ rule # None
              /\ rule.count = b.count /\ rule.enabled = table[b.id].enabled /\ rule.cond = table[b.id].cond
  <2>1. CASE table[b.id] # None /\ b.seen # b.count
    <3> DEFINE rule == [table[b.id] EXCEPT !.count = b.count]
    <3>1. table[b.id] \in Rule /\ db
      BY <1>1, <2>1 DEF Typing, TypeOK
    <3>2. /\ rule \in Rule /\ rule # None
          /\ rule.count = b.count /\ rule.enabled = table[b.id].enabled /\ rule.cond = table[b.id].cond
      BY <1>1, <3>1, NoneAssumption, BoundsAssumption DEF Rule
    <3>3. table' = [table EXCEPT ![b.id] = rule]
      BY <2>1 DEF BumpCommit
    <3> QED BY <2>1, <3>1, <3>2, <3>3
  <2>2. CASE ~(table[b.id] # None /\ b.seen # b.count)
    BY <2>2 DEF BumpCommit
  <2> QED BY <2>1, <2>2
<1>3. /\ table' \in [Ids -> Rule \cup {None}] /\ InDb' = InDb
      /\ \A id \in Ids : /\ table'[id] = None <=> table[id] = None
                         /\ table[id] # None =>
                              \A f \in {"enabled", "cond"} : table'[id][f] = table[id][f]
                         /\ \/ table'[id] = table[id]
                            \/ id = b.id /\ table[id] # None /\ table'[id].count = b.count
  BY <1>2 DEF Typing, InDb
<1>4. Typing'
  BY <1>1, <1>2, <1>3 DEF Typing, TypeOK, Request
<1>5. Alone'
  BY <1>1, <1>2, <1>3 DEF Alone, Typing
<1>6. Creating'
  BY <1>1, <1>3 DEF Creating, Typing, Known, InMemory, Request, Idle
<1>7. Counting'
  BY <1>1, <1>3 DEF Counting, InMemory
<1>8. Stages'
  BY <1>1, <1>3 DEF Stages, Stage, Same, Rest, Typing, Request, Idle, IsPatch
<1>9. NoGhostRules'
  BY <1>1, <1>2, <1>3 DEF NoGhostRules, Creating, Typing, InDb, InMemory
<1>10. CopyFollows'
  BY <1>1, <1>2, <1>3 DEF CopyFollows, Busy, Typing, Alone, Stages, Stage, Same
<1>11. StoredCountNotAhead'
  BY <1>1, <1>2, <1>3 DEF StoredCountNotAhead, Creating, Typing, TypeOK, InDb, InMemory, Rule, Counting
<1> QED BY <1>4, <1>5, <1>6, <1>7, <1>8, <1>9, <1>10, <1>11

LEMMA RestartInv ==
    ASSUME Inv, Restart
    PROVE  Inv'
<1> USE DEF Inv, history
<1>1. /\ memory' = table /\ req' = [r \in Requests |-> Idle]
      /\ bumps' = {} /\ stream' = "up" /\ failed' = {} /\ overlapped' = {}
  BY DEF Restart
<1>2. UNCHANGED <<db, table, deleted>> /\ \A r \in Requests : req'[r] = Idle /\ req'[r].op = "idle"
  BY <1>1 DEF Restart, Idle
<1>3. Typing'
  BY <1>1, <1>2 DEF Typing, TypeOK, Request
<1>4. Alone'
  BY <1>1, <1>2 DEF Alone, Typing
<1>5. Creating'
  BY <1>2 DEF Creating
<1>6. Counting'
  BY <1>1, <1>2 DEF Counting, Creating, Typing, InDb, InMemory
<1>7. Stages'
  BY <1>2 DEF Stages
<1>8. NoGhostRules'
  BY <1>1, <1>2 DEF NoGhostRules, Creating, Typing, InDb, InMemory
<1>9. CopyFollows'
  BY <1>1, <1>2 DEF CopyFollows, Busy, Typing, Alone, Stages, Stage, Same, Idle
<1>10. StoredCountNotAhead'
  BY <1>1, <1>2 DEF StoredCountNotAhead, Creating, Typing, TypeOK, InDb, InMemory, Rule
<1> QED BY <1>3, <1>4, <1>5, <1>6, <1>7, <1>8, <1>9, <1>10

LEMMA StutterInv ==
    ASSUME Inv, UNCHANGED vars
    PROVE  Inv'
<1> USE DEF Inv, history
<1>1. UNCHANGED <<db, memory, table, req, bumps, stream, history>>
  BY DEF vars
<1>2. Typing'
  BY <1>1 DEF Typing, TypeOK, Request
<1>3. Alone'
  BY <1>1 DEF Alone, Typing
<1>4. Creating'
  BY <1>1 DEF Creating, Typing, Known, InDb, InMemory, Idle
<1>5. Counting'
  BY <1>1 DEF Counting, Creating, Typing, InDb, InMemory
<1>6. Stages'
  BY <1>1 DEF Stages, Stage, Same, Rest, Alone, Typing, Idle
<1>7. NoGhostRules'
  BY <1>1 DEF NoGhostRules, Creating, Typing, InDb, InMemory
<1>8. CopyFollows'
  BY <1>1 DEF CopyFollows, Busy, Typing, Alone, Stages, Stage, Same
<1>9. StoredCountNotAhead'
  BY <1>1 DEF StoredCountNotAhead, Creating, Typing, TypeOK, InDb, InMemory, Rule
<1> QED BY <1>2, <1>3, <1>4, <1>5, <1>6, <1>7, <1>8, <1>9

LEMMA InitInv == Init => Inv
<1> SUFFICES ASSUME Init PROVE Inv
  OBVIOUS
<1>1. /\ db \in BOOLEAN /\ memory = [id \in Ids |-> None] /\ table = memory
      /\ req = [r \in Requests |-> Idle] /\ bumps = {} /\ stream = "up"
      /\ deleted = {} /\ failed = {} /\ overlapped = {}
      /\ \A r \in Requests : req[r] = Idle /\ req[r].op = "idle"
  BY DEF Init, Idle
<1>2. Typing
  BY <1>1 DEF Typing, TypeOK, Request
<1>3. Alone /\ Creating /\ Counting
  BY <1>1 DEF Alone, Creating, Counting, InMemory
<1>4. Stages
  BY <1>1 DEF Stages
<1>5. NoGhostRules /\ CopyFollows /\ StoredCountNotAhead
  BY <1>1 DEF NoGhostRules, CopyFollows, StoredCountNotAhead, InMemory, InDb
<1> QED BY <1>2, <1>3, <1>4, <1>5 DEF Inv

LEMMA NextInv == Inv /\ [Next]_vars => Inv'
<1> SUFFICES ASSUME Inv, [Next]_vars PROVE Inv'
  OBVIOUS
<1>1. ASSUME NEW r \in Requests, NEW id \in Ids,
             (\E fields \in Fields : Create(r, id, fields)) \/ Delete(r, id)
               \/ \E patch \in Patches : Update(r, id, patch)
      PROVE  Inv'
  BY <1>1, CreateInv, UpdateInv, DeleteInv
<1>2. ASSUME NEW r \in Requests, Insert(r) \/ Append(r) \/ Select(r) \/ Commit(r)
      PROVE  Inv'
  BY <1>2, InsertInv, AppendInv, SelectInv, CommitInv
<1>3. ASSUME NEW r \in Requests, Apply(r) \/ DeleteRow(r) \/ Fails(r)
      PROVE  Inv'
  BY <1>3, ApplyInv, DeleteRowInv, FailsInv
<1>4. ASSUME NEW c \in Conds, Event(c)
      PROVE  Inv'
  BY <1>4, EventInv
<1>5. ASSUME NEW b \in bumps, BumpSelect(b) \/ BumpCommit(b) \/ BumpFails(b)
      PROVE  Inv'
  BY <1>5, BumpSelectInv, BumpCommitInv, BumpFailsInv
<1>6. CASE Restart \/ UNCHANGED vars
  BY <1>6, RestartInv, StutterInv
<1> QED BY <1>1, <1>2, <1>3, <1>4, <1>5, <1>6 DEF Next

-----------------------------------------------------------------------------
(* Theorems. *)

LEMMA Invariant == Spec => []Inv
<1> QED BY InitInv, NextInv, PTL DEF Spec

\* Every variable keeps to the values the code gives it.
THEOREM Typed == Spec => []TypeOK
<1>1. Inv => TypeOK
  BY DEF Inv, Typing
<1> QED BY <1>1, Invariant, PTL

\* For any number of rules, requests and tasks, whatever fails and restarts: no
\* event is matched against a rule that is not stored, unless two requests about
\* it overlapped, and no restart brings back one that was deleted
\* (repositories.py).
THEOREM NoGhosts == Spec => []NoGhostRules
<1>1. Inv => NoGhostRules
  BY DEF Inv
<1> QED BY <1>1, Invariant, PTL

\* The copy that is evaluated says what the table says of a rule whenever no
\* request about it is in progress, unless one was left half done or two
\* overlapped since the start (repositories.py).
THEOREM CopyTrue == Spec => []CopyFollows
<1>1. Inv => CopyFollows
  BY DEF Inv
<1> QED BY <1>1, Invariant, PTL

\* The stored match count is never ahead of the copy's (store.py).
THEOREM CountBehind == Spec => []StoredCountNotAhead
<1>1. Inv => StoredCountNotAhead
  BY DEF Inv
<1> QED BY <1>1, Invariant, PTL

\* No step but a restart takes back a match that was counted.
LEMMA EditsStep ==
    ASSUME Inv, [Next]_vars, NEW id \in InMemory, memory'[id] # None,
           memory'[id].count < memory[id].count
    PROVE  memory' = table /\ bumps' = {} /\ \A r \in Requests : req'[r] = Idle
<1>1. memory[id] \in Rule /\ memory[id].count \in Nat /\ id \in Ids /\ memory[id] # None
  BY BoundsAssumption DEF Inv, Typing, InMemory, Rule
<1>2. ~(memory[id].count < memory[id].count) /\ ~(memory[id].count + 1 < memory[id].count)
  BY <1>1
<1>3. memory'[id] # memory[id]
  BY <1>2
<1>4. CASE Restart
  BY <1>4 DEF Restart
<1>5. ASSUME NEW r \in Requests, NEW i \in Ids, NEW fields \in Fields, Create(r, i, fields)
      PROVE  FALSE
  BY <1>1, <1>3, <1>5 DEF Create, Known, InMemory, Inv, Typing
<1>6. ASSUME NEW r \in Requests, NEW i \in Ids, NEW patch \in Patches, Update(r, i, patch)
      PROVE  FALSE
  BY <1>1, <1>2, <1>3, <1>6, PatchesAre, PatchedIs DEF Update, Inv, Typing
<1>7. ASSUME NEW r \in Requests, NEW i \in Ids, Delete(r, i)
      PROVE  FALSE
  BY <1>1, <1>3, <1>7 DEF Delete, Inv, Typing
<1>8. ASSUME NEW r \in Requests, Append(r)
      PROVE  FALSE
  BY <1>1, <1>3, <1>8 DEF Append, Inv, Typing, Creating
<1>9. ASSUME NEW r \in Requests, Apply(r)
      PROVE  FALSE
  <2>1. IsPatch(req[r].patch)
    BY <1>9 DEF Apply, Inv, Typing, Request, Idle
  <2> QED BY <1>1, <1>2, <1>3, <1>9, <2>1, PatchedIs DEF Apply, Inv, Typing
<1>10. ASSUME NEW c \in Conds, Event(c)
       PROVE  FALSE
  <2>1. memory'[id] = [memory[id] EXCEPT !.count = @ + 1]
    BY <1>1, <1>3, <1>10 DEF Event
  <2>2. memory'[id].count = memory[id].count + 1
    BY <1>1, <2>1 DEF Rule
  <2> QED BY <1>2, <2>2
<1>11. UNCHANGED vars \/ (\E r \in Requests : Insert(r) \/ Select(r) \/ Commit(r) \/ DeleteRow(r) \/ Fails(r))
         \/ (\E b \in bumps : BumpSelect(b) \/ BumpCommit(b) \/ BumpFails(b))
         => UNCHANGED memory
  BY DEF vars, Insert, Select, Commit, DeleteRow, Fails, BumpSelect, BumpCommit, BumpFails
<1> QED BY <1>3, <1>4, <1>5, <1>6, <1>7, <1>8, <1>9, <1>10, <1>11 DEF Next

\* An edit never takes back matches counted while it waited (repositories.py).
THEOREM CountsKept == Spec => EditsKeepCounts
<1>1. Inv /\ [Next]_vars =>
        [\A id \in InMemory : memory'[id] # None /\ memory'[id].count < memory[id].count
           => memory' = table /\ bumps' = {} /\ \A r \in Requests : req'[r] = Idle]_vars
  BY EditsStep
<1> QED BY <1>1, Invariant, PTL DEF Spec, EditsKeepCounts

=============================================================================
