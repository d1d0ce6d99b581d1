----------------------------- MODULE DemoProofs -----------------------------
(***************************************************************************)
(* Proofs about module Demo, for any users, incidents, alerts and IPs.     *)
(*                                                                         *)
(* That the screens keep the simulated writes needs to know of the answers *)
(* on their way: the last one for an incident carries every simulated      *)
(* change of it, and where none is on its way the screen shows them.       *)
(***************************************************************************)
EXTENDS Demo, TLAPS, SequenceTheorems

\* The invariant is inductive as it stands: demo never changes, what enables
\* the simulation needs it, and what fills the overlay needs the simulation.
LEMMA SimulationNeedsDemo ==
    ASSUME NeverPretends, ~demo, Simulates
    PROVE  FALSE
  BY DEF NeverPretends, Simulates

LEMMA OverlayKept ==
    ASSUME NeverPretends, demo' = demo, overlay' = overlay, enabled' = TRUE => enabled \/ demo,
           enabled' \in BOOLEAN
    PROVE  NeverPretends'
  BY DEF NeverPretends, EmptyOverlay, overlay

Inv == NeverPretends /\ demo \in BOOLEAN /\ enabled \in BOOLEAN

LEMMA InvInit == Init => Inv
  BY DEF Init, Inv, NeverPretends

LEMMA WriteInv ==
    ASSUME Inv, Simulates, UNCHANGED <<demo, server, session>>
    PROVE  Inv'
<1>1. demo
  BY SimulationNeedsDemo DEF Inv
<1> QED BY <1>1 DEF Inv, NeverPretends, session

LEMMA InvNext == Inv /\ [Next]_vars => Inv'
<1> SUFFICES ASSUME Inv, [Next]_vars PROVE Inv'
  OBVIOUS
<1>1. CASE \E id \in Ids : AddNote(id) \/ \E patch \in Patches : Patch(id, patch)
  BY <1>1, WriteInv DEF AddNote, Patch
<1>2. CASE (\E ip \in IPs \cup {None} : OpenCase(ip)) \/ \E ip \in IPs, on \in BOOLEAN : Block(ip, on)
  BY <1>2, WriteInv DEF OpenCase, Block
<1>3. CASE \E a \in Alerts, status \in {"acknowledged", "dismissed"} : PatchAlert(a, status)
  BY <1>3, WriteInv DEF PatchAlert
<1>4. CASE Send \/ Config
  <2>1. /\ demo' = demo /\ overlay' = overlay
        /\ enabled' \in BOOLEAN /\ (enabled' = TRUE => enabled \/ demo)
    BY <1>4 DEF Send, Config, Inv
  <2> QED BY <2>1, OverlayKept DEF Inv
<1>5. CASE FetchList \/ ListArrives \/ AlertsArrive \/ AnswerArrives \/ \E id \in ServerIds : ServerMoves(id)
  <2>1. demo' = demo /\ overlay' = overlay /\ enabled' = enabled
    BY <1>5 DEF FetchList, ListArrives, AlertsArrive, AnswerArrives, ServerMoves, session
  <2> QED BY <2>1, OverlayKept DEF Inv
<1>6. CASE \E u \in Users : Login(u)
  <2>1. demo' = demo /\ overlay' = overlay /\ enabled' = enabled
    BY <1>6 DEF Login
  <2> QED BY <2>1, OverlayKept DEF Inv
<1>7. CASE Reload
  BY <1>7 DEF Reload, Inv, NeverPretends, EmptyOverlay, NoIncidents, Nothing, Ids
<1>8. CASE UNCHANGED vars
  <2>1. demo' = demo /\ overlay' = overlay /\ enabled' = enabled
    BY <1>8 DEF vars, overlay
  <2> QED BY <2>1, OverlayKept DEF Inv
<1> QED BY <1>1, <1>2, <1>3, <1>4, <1>5, <1>6, <1>7, <1>8 DEF Next

\* A server that is not a demo gets every write, and is shown as it answers,
\* whatever order configuration, lists, logins and reloads come in
\* (demoModeInterceptor).
THEOREM NothingPretended == Spec => []NeverPretends
<1>1. Inv => NeverPretends
  BY DEF Inv
<1> QED BY <1>1, InvInit, InvNext, PTL DEF Spec

-----------------------------------------------------------------------------
(* Queues of answers, of which some, C, are about one thing. *)

NoneIn(q, C) == \A i \in 1..Len(q) : q[i] \notin C

\* The i-th is the last of C in q.
LastIn(q, C, i) == q[i] \in C /\ \A j \in 1..Len(q) : i < j => q[j] \notin C

LEMMA TailLast ==
    ASSUME NEW A, NEW C, NEW q \in Seq(A), q # <<>>
    PROVE  /\ \A i \in 1..Len(Tail(q)) : /\ Tail(q)[i] = q[i + 1] /\ i + 1 \in 1..Len(q)
                                         /\ LastIn(Tail(q), C, i) => LastIn(q, C, i + 1)
           /\ NoneIn(Tail(q), C) /\ Head(q) \in C => LastIn(q, C, 1)
           /\ NoneIn(Tail(q), C) /\ Head(q) \notin C => NoneIn(q, C)
           /\ 1 \in 1..Len(q) /\ Head(q) = q[1]
  <1>1. /\ Len(q) \in Nat /\ Len(q) >= 1 /\ Len(Tail(q)) = Len(q) - 1
        /\ \A i \in 1..Len(Tail(q)) : Tail(q)[i] = q[i + 1]
        /\ Head(q) = q[1]
    BY HeadTailProperties, EmptySeq, LenProperties
  <1>2. \A j \in 1..Len(q) : j > 1 => j - 1 \in 1..Len(Tail(q)) /\ q[j] = Tail(q)[j - 1]
    BY <1>1
  <1>3. ASSUME NEW i \in 1..Len(Tail(q)), LastIn(Tail(q), C, i)
        PROVE  LastIn(q, C, i + 1)
    <2>1. q[i + 1] \in C
      BY <1>1, <1>3 DEF LastIn
    <2>2. ASSUME NEW j \in 1..Len(q), i + 1 < j PROVE q[j] \notin C
      <3>1. j - 1 \in 1..Len(Tail(q)) /\ q[j] = Tail(q)[j - 1] /\ i < j - 1
        BY <1>1, <1>2, <2>2
      <3> QED BY <1>3, <3>1 DEF LastIn
    <2> QED BY <2>1, <2>2 DEF LastIn
  <1>4. NoneIn(Tail(q), C) => \A j \in 1..Len(q) : j > 1 => q[j] \notin C
    BY <1>2 DEF NoneIn
  <1>5. NoneIn(Tail(q), C) /\ Head(q) \in C => LastIn(q, C, 1)
    BY <1>1, <1>4 DEF LastIn
  <1>6. NoneIn(Tail(q), C) /\ Head(q) \notin C => NoneIn(q, C)
    BY <1>1, <1>4 DEF NoneIn
  <1> QED BY <1>1, <1>3, <1>5, <1>6

-----------------------------------------------------------------------------
(* The values of the variables. *)

Values == ActiveUsers \cup {NoUser} \cup INCIDENT_STATUSES \cup SUBSET Nat

\* Some fields of an incident.
Partial == UNION {[D -> Values] : D \in SUBSET Fields}

Store(ids) == [ids -> Incident \cup {None}]

\* The answers about an incident, and about an alert.
OfIncident(id) == [id : {id}, body : Partial]
OfAlert(a) == [alert : {a}, status : {"acknowledged", "dismissed"}]

AnyAnswer == [id : Ids, body : Partial] \cup [alert : Alerts, status : {"acknowledged", "dismissed"}]

TypeInv ==
    /\ user \in Users /\ writes \in Nat
    /\ server \in Store(ServerIds) /\ list \in Store(ServerIds) \cup {None}
    /\ seen \in Store(Ids) /\ created \in Store(Ids)
    /\ patches \in [Ids -> Partial] /\ notes \in [Ids -> Nat]
    /\ alertPatches \in [Alerts -> {None, "acknowledged", "dismissed"}]
    /\ screen \in [Ids -> Partial \cup {None}]
    /\ alerts \in [Alerts -> {None, "new", "acknowledged", "dismissed"}]
    /\ answers \in Seq(AnyAnswer)

LEMMA SpreadDomain ==
    ASSUME NEW base, NEW patch
    PROVE  DOMAIN Spread(base, patch) = DOMAIN base \cup DOMAIN patch
  BY DEF Spread

LEMMA SpreadAt ==
    ASSUME NEW base, NEW patch, NEW f
    PROVE  /\ f \in DOMAIN patch => Spread(base, patch)[f] = patch[f]
           /\ f \in DOMAIN base /\ f \notin DOMAIN patch => Spread(base, patch)[f] = base[f]
  BY DEF Spread

LEMMA SpreadPartial ==
    ASSUME NEW base \in Partial, NEW patch \in Partial
    PROVE  Spread(base, patch) \in Partial
  <1>1. PICK B \in SUBSET Fields : base \in [B -> Values]
    BY DEF Partial
  <1>2. PICK P \in SUBSET Fields : patch \in [P -> Values]
    BY DEF Partial
  <1>3. Spread(base, patch) \in [B \cup P -> Values]
    BY <1>1, <1>2 DEF Spread
  <1>4. B \cup P \in SUBSET Fields
    OBVIOUS
  <1> QED BY <1>3, <1>4 DEF Partial

LEMMA NothingPartial == Nothing \in Partial /\ DOMAIN Nothing = {}
  <1>1. Nothing \in [{} -> Values] /\ {} \in SUBSET Fields
    BY DEF Nothing
  <1> QED BY <1>1 DEF Partial, Nothing

LEMMA IncidentPartial ==
    ASSUME NEW inc \in Incident
    PROVE  inc \in Partial /\ DOMAIN inc = Fields /\ inc # None
  <1>1. inc \in [Fields -> Values]
    BY DEF Incident, Fields, Values
  <1>2. Fields \in SUBSET Fields
    OBVIOUS
  <1> QED BY <1>1, <1>2, DataAssumption DEF Partial, Incident, Fields

\* What the bodies of the requests are, to the rules of Authz.
LEMMA PatchIs ==
    ASSUME NEW patch \in Patches
    PROVE  /\ patch \in Partial
           /\ "completed_tasks" \in DOMAIN patch => DOMAIN patch = {"completed_tasks"}
           /\ "status" \in DOMAIN patch => patch["status"] \in INCIDENT_STATUSES
           /\ "assigned_to" \in DOMAIN patch => patch["assigned_to"] \in ActiveUsers \cup {NoUser}
           /\ Body(patch).has = DOMAIN patch
           /\ "status" \in DOMAIN patch => Body(patch).status = patch["status"]
           /\ "assigned_to" \in DOMAIN patch => Body(patch).assigned_to = patch["assigned_to"]
  <1>1. \/ patch \in [status : INCIDENT_STATUSES]
        \/ patch \in [assigned_to : ActiveUsers \cup {NoUser}]
        \/ patch \in [status : INCIDENT_STATUSES, assigned_to : ActiveUsers \cup {NoUser}]
        \/ patch \in [completed_tasks : SUBSET Nat]
    BY DataAssumption
  <1>2. PICK D \in SUBSET Fields : patch \in [D -> Values]
    <2>1. CASE patch \in [status : INCIDENT_STATUSES]
      <3>1. patch \in [{"status"} -> Values]
        BY <2>1 DEF Values
      <3> QED BY <3>1 DEF Fields
    <2>2. CASE patch \in [assigned_to : ActiveUsers \cup {NoUser}]
      <3>1. patch \in [{"assigned_to"} -> Values]
        BY <2>2 DEF Values
      <3> QED BY <3>1 DEF Fields
    <2>3. CASE patch \in [status : INCIDENT_STATUSES, assigned_to : ActiveUsers \cup {NoUser}]
      <3>1. patch \in [{"status", "assigned_to"} -> Values]
        BY <2>3 DEF Values
      <3> QED BY <3>1 DEF Fields
    <2>4. CASE patch \in [completed_tasks : SUBSET Nat]
      <3>1. patch \in [{"completed_tasks"} -> Values]
        BY <2>4 DEF Values
      <3> QED BY <3>1 DEF Fields
    <2> QED BY <1>1, <2>1, <2>2, <2>3, <2>4
  <1>3. patch \in Partial
    BY <1>2 DEF Partial
  <1>4. /\ "completed_tasks" \in DOMAIN patch => DOMAIN patch = {"completed_tasks"}
        /\ "status" \in DOMAIN patch => patch["status"] \in INCIDENT_STATUSES
        /\ "assigned_to" \in DOMAIN patch => patch["assigned_to"] \in ActiveUsers \cup {NoUser}
    BY <1>1
  <1>5. "has" \notin DOMAIN patch
    BY <1>2 DEF Fields
  <1>6. PICK extra : extra = [has |-> DOMAIN patch]
    OBVIOUS
  <1>7. DOMAIN extra = {"has"} /\ extra["has"] = DOMAIN patch
    BY <1>6
  <1>8. Body(patch) = Spread(patch, extra)
    BY <1>6 DEF Body
  <1>9. /\ Body(patch)["has"] = DOMAIN patch
        /\ \A f \in DOMAIN patch : Body(patch)[f] = patch[f]
    <2>1. /\ \A f \in DOMAIN extra : Spread(patch, extra)[f] = extra[f]
          /\ \A f \in DOMAIN patch \ DOMAIN extra : Spread(patch, extra)[f] = patch[f]
      BY SpreadAt
    <2>2. "has" \in DOMAIN extra /\ \A f \in DOMAIN patch : f \in DOMAIN patch \ DOMAIN extra
      BY <1>5, <1>7
    <2> QED BY <1>7, <1>8, <2>1, <2>2
  <1> QED BY <1>3, <1>4, <1>9

LEMMA AnswerIs ==
    ASSUME NEW x \in AnyAnswer
    PROVE  \/ /\ "alert" \notin DOMAIN x /\ x.id \in Ids /\ x.body \in Partial
              /\ \A id \in Ids : x \in OfIncident(id) <=> x.id = id
              /\ \A a \in Alerts : x \notin OfAlert(a)
           \/ /\ "alert" \in DOMAIN x /\ x.alert \in Alerts
              /\ x.status \in {"acknowledged", "dismissed"}
              /\ \A id \in Ids : x \notin OfIncident(id)
              /\ \A a \in Alerts : x \in OfAlert(a) <=> x.alert = a
  BY DEF AnyAnswer, OfIncident, OfAlert

\* The last of C in q is a; it is the one in old, if any is.
LastIs(q, C, a) == /\ ~NoneIn(q, C)
                   /\ \A i \in 1..Len(q) : LastIn(q, C, i) => q[i] = a

LastAs(q, C, old) ==
    /\ NoneIn(q, C) => NoneIn(old, C)
    /\ \A i \in 1..Len(q) :
         LastIn(q, C, i) => i \in 1..Len(old) /\ q[i] = old[i] /\ LastIn(old, C, i)

LEMMA AppendMine ==
    ASSUME NEW C, NEW q \in Seq(AnyAnswer), NEW a \in AnyAnswer, a \in C,
           NEW new, new = Append(q, a)
    PROVE  LastIs(new, C, a)
  <1>2. Len(q) \in Nat /\ Len(new) = Len(q) + 1 /\ new[Len(q) + 1] = a
    BY AppendProperties, LenProperties
  <1>3. Len(q) + 1 \in 1..Len(new) /\ \A i \in 1..Len(new) : i = Len(q) + 1 \/ i < Len(q) + 1
    BY <1>2
  <1> QED BY <1>2, <1>3 DEF LastIs, NoneIn, LastIn

LEMMA AppendOther ==
    ASSUME NEW C, NEW q \in Seq(AnyAnswer), NEW a \in AnyAnswer, a \notin C,
           NEW new, new = Append(q, a)
    PROVE  LastAs(new, C, q)
  <1>1. /\ Len(q) \in Nat /\ Len(new) = Len(q) + 1 /\ new[Len(q) + 1] = a
        /\ \A i \in 1..Len(q) : new[i] = q[i]
    BY AppendProperties, LenProperties
  <1>2. \A i \in 1..Len(q) : i \in 1..Len(new)
    BY <1>1
  <1>3. \A i \in 1..Len(new) : i \in 1..Len(q) \/ i = Len(q) + 1
    BY <1>1
  <1>4. NoneIn(new, C) => NoneIn(q, C)
    BY <1>1, <1>2 DEF NoneIn
  <1>5. ASSUME NEW i \in 1..Len(new), LastIn(new, C, i)
        PROVE  i \in 1..Len(q) /\ new[i] = q[i] /\ LastIn(q, C, i)
    <2>1. i \in 1..Len(q)
      BY <1>1, <1>3, <1>5 DEF LastIn
    <2> QED BY <1>1, <1>2, <1>5, <2>1 DEF LastIn
  <1> QED BY <1>4, <1>5 DEF LastAs

-----------------------------------------------------------------------------
(* What the simulator lets through. *)

\* The incident the rules are checked on, and what a body does to it.
LEMMA CurrentIs ==
    ASSUME TypeInv, NEW id \in Ids, Known(id)
    PROVE  /\ Base(id) \in Incident
           /\ DOMAIN WithOverlay(Base(id), id) = Fields
  <1>1. Base(id) \in Incident
    BY DEF TypeInv, Store, Known, Base
  <1>2. patches[id] \in Partial
    BY DEF TypeInv
  <1>3. DOMAIN patches[id] \subseteq Fields
    BY <1>2 DEF Partial
  <1>4. DOMAIN Base(id) = Fields
    BY <1>1, IncidentPartial
  <1>5. DOMAIN WithOverlay(Base(id), id) = DOMAIN Base(id) \cup DOMAIN patches[id]
    BY SpreadDomain DEF WithOverlay
  <1> QED BY <1>1, <1>3, <1>4, <1>5

LEMMA PatchPermitted ==
    ASSUME TypeInv, NEW id \in Ids, NEW patch \in Patches, Known(id), MayPatch(id, patch),
           NEW now, now = WithOverlay(Base(id), id)
    PROVE  /\ "status" \in DOMAIN patch \/ "completed_tasks" \in DOMAIN patch
                => CheckWorkOnIncident(user, now) = "ok"
           /\ "assigned_to" \in DOMAIN patch /\ patch["assigned_to"] # now.assigned_to
                => CheckAssignment(user, now, patch["assigned_to"], ActiveUsers) = "ok"
  <1>1. now = CurrentIncident(id)
    BY DEF CurrentIncident
  <1>2. MayWork(user, now) => CheckWorkOnIncident(user, now) = "ok"
    BY DEF MayWork, IsLead, CheckWorkOnIncident, CanWorkOnIncident, INCIDENT_LEADS
  <1>3. CASE "completed_tasks" \in DOMAIN patch
    <2>1. MayWork(user, now)
      BY <1>1, <1>3 DEF MayPatch
    <2> QED BY <1>2, <1>3, <2>1, PatchIs
  <1>4. CASE "completed_tasks" \notin DOMAIN patch
    <2>1. MayPatchIncident(user, now, Body(patch))
      BY <1>1, <1>4 DEF MayPatch
    <2>2. /\ "status" \in DOMAIN patch => MayWork(user, now)
          /\ "assigned_to" \in DOMAIN patch => MayAssign(user, now, patch["assigned_to"])
      BY <2>1, PatchIs DEF MayPatchIncident
    <2>3. ASSUME "assigned_to" \in DOMAIN patch, patch["assigned_to"] # now.assigned_to
          PROVE  CheckAssignment(user, now, patch["assigned_to"], ActiveUsers) = "ok"
      <3>1. patch["assigned_to"] \in ActiveUsers \cup {NoUser}
        BY <2>3, PatchIs
      <3> QED BY <2>2, <2>3, <3>1 DEF MayAssign, IsLead, CheckAssignment, INCIDENT_LEADS
    <2> QED BY <1>2, <1>4, <2>2, <2>3
  <1> QED BY <1>3, <1>4

\* SimulationPermits of one step and one incident.
Permits(id) ==
    Known(id) /\ writes' > writes =>
      LET before == WithOverlay(Base(id), id)
          after == Spread(Base(id), patches'[id])
          changes(f) == after[f] # before[f]
      IN  /\ notes'[id] # notes[id] \/ changes("status") \/ changes("completed_tasks")
               => CheckWorkOnIncident(user, before) = "ok"
          /\ changes("assigned_to")
               => CheckAssignment(user, before, after.assigned_to, ActiveUsers) = "ok"

LEMMA PermitsSame ==
    ASSUME NEW id \in Ids, patches'[id] = patches[id], notes'[id] = notes[id]
    PROVE  Permits(id)
  BY DEF Permits, WithOverlay

LEMMA PatchPermits ==
    ASSUME TypeInv, NEW k \in Ids, NEW patch \in Patches, Patch(k, patch), NEW id \in Ids
    PROVE  Permits(id)
  <1>1. /\ MayPatch(k, patch) /\ notes' = notes
        /\ patches' = [patches EXCEPT ![k] = Spread(patches[k], patch)]
        /\ patches \in [Ids -> Partial]
    BY DEF Patch, TypeInv
  <1>2. CASE id # k
    BY <1>1, <1>2, PermitsSame
  <1>3. CASE id = k
    <2> SUFFICES ASSUME Known(id) PROVE Permits(id)
      BY DEF Permits
    <2>1. PICK now : now = WithOverlay(Base(id), id)
      OBVIOUS
    <2>2. PICK after : after = Spread(Base(id), patches'[id])
      OBVIOUS
    <2>3. patches'[id] = Spread(patches[id], patch)
      BY <1>1, <1>3
    <2>4. \A f \in DOMAIN patch : after[f] = patch[f]
      <3> SUFFICES ASSUME NEW f \in DOMAIN patch PROVE after[f] = patch[f]
        OBVIOUS
      <3>1. f \in DOMAIN patches'[id] /\ patches'[id][f] = patch[f]
        BY <2>3 DEF Spread
      <3> QED BY <2>2, <3>1, SpreadAt
    <2>5. \A f \in Fields \ DOMAIN patch : after[f] = now[f]
      <3> SUFFICES ASSUME NEW f \in Fields, f \notin DOMAIN patch PROVE after[f] = now[f]
        OBVIOUS
      <3>1. DOMAIN Base(id) = Fields
        BY CurrentIs, IncidentPartial
      <3>0. now = Spread(Base(id), patches[id])
        BY <2>1 DEF WithOverlay
      <3>2. CASE f \in DOMAIN patches[id]
        <4>1. f \in DOMAIN patches'[id] /\ patches'[id][f] = patches[id][f]
          BY <2>3, <3>2 DEF Spread
        <4>2. after[f] = patches'[id][f]
          BY <2>2, <4>1, SpreadAt
        <4>3. now[f] = patches[id][f]
          BY <3>0, <3>2, SpreadAt
        <4> QED BY <4>1, <4>2, <4>3
      <3>3. CASE f \notin DOMAIN patches[id]
        <4>1. f \notin DOMAIN patches'[id]
          BY <2>3, <3>3 DEF Spread
        <4>2. after[f] = Base(id)[f]
          BY <2>2, <3>1, <4>1, SpreadAt
        <4>3. now[f] = Base(id)[f]
          BY <3>0, <3>1, <3>3, SpreadAt
        <4> QED BY <4>2, <4>3
      <3> QED BY <3>2, <3>3
    <2>6. /\ "status" \in DOMAIN patch \/ "completed_tasks" \in DOMAIN patch
               => CheckWorkOnIncident(user, now) = "ok"
          /\ "assigned_to" \in DOMAIN patch /\ patch["assigned_to"] # now.assigned_to
               => CheckAssignment(user, now, patch["assigned_to"], ActiveUsers) = "ok"
      BY <1>1, <1>3, <2>1, PatchPermitted
    <2>7. /\ after["status"] # now["status"] => "status" \in DOMAIN patch
          /\ after["completed_tasks"] # now["completed_tasks"] => "completed_tasks" \in DOMAIN patch
          /\ after["assigned_to"] # now["assigned_to"] =>
               "assigned_to" \in DOMAIN patch /\ patch["assigned_to"] = after["assigned_to"]
      BY <2>4, <2>5 DEF Fields
    <2> QED BY <1>1, <2>1, <2>2, <2>6, <2>7 DEF Permits
  <1> QED BY <1>2, <1>3

LEMMA NotePermits ==
    ASSUME TypeInv, NEW k \in Ids, AddNote(k), NEW id \in Ids
    PROVE  Permits(id)
  <1>1. /\ MayNote(k) /\ patches' = patches /\ notes' = [notes EXCEPT ![k] = notes[k] + 1]
        /\ notes \in [Ids -> Nat]
    BY DEF AddNote, TypeInv
  <1>2. CASE id # k
    BY <1>1, <1>2, PermitsSame
  <1>3. CASE id = k
    <2> SUFFICES ASSUME Known(id) PROVE Permits(id)
      BY DEF Permits
    <2>1. CheckWorkOnIncident(user, WithOverlay(Base(id), id)) = "ok"
      BY <1>1, <1>3 DEF MayNote, CurrentIncident, MayWork, IsLead, CheckWorkOnIncident,
                        CanWorkOnIncident, INCIDENT_LEADS
    <2> QED BY <1>1, <2>1 DEF Permits, WithOverlay
  <1> QED BY <1>2, <1>3

LEMMA StepPermits == TypeInv /\ [Next]_vars => \A id \in Ids : Permits(id)
  <1> SUFFICES ASSUME TypeInv, [Next]_vars, NEW id \in Ids PROVE Permits(id)
    OBVIOUS
  <1>1. CASE \E k \in Ids : AddNote(k) \/ \E patch \in Patches : Patch(k, patch)
    BY <1>1, NotePermits, PatchPermits
  <1>2. CASE (\E ip \in IPs \cup {None} : OpenCase(ip)) \/ \E ip \in IPs, on \in BOOLEAN : Block(ip, on)
    BY <1>2, PermitsSame DEF OpenCase, Block
  <1>3. CASE \E a \in Alerts, status \in {"acknowledged", "dismissed"} : PatchAlert(a, status)
    BY <1>3, PermitsSame DEF PatchAlert
  <1>4. CASE \/ Send \/ Config \/ FetchList \/ ListArrives \/ AlertsArrive \/ AnswerArrives
             \/ \E k \in ServerIds : ServerMoves(k)
    BY <1>4, PermitsSame DEF Send, Config, FetchList, ListArrives, AlertsArrive, AnswerArrives,
                             ServerMoves, overlay
  <1>5. CASE \E u \in Users : Login(u)
    BY <1>5, PermitsSame DEF Login, overlay
  <1>6. CASE Reload
    <2>1. writes' = 0 /\ writes \in Nat
      BY <1>6 DEF Reload, TypeInv
    <2> QED BY <2>1 DEF Permits
  <1>7. CASE UNCHANGED vars
    BY <1>7, PermitsSame DEF vars
  <1> QED BY <1>1, <1>2, <1>3, <1>4, <1>5, <1>6, <1>7 DEF Next

-----------------------------------------------------------------------------
(* The invariant. *)

\* Where no answer about the incident is on its way the screen shows what was
\* simulated; where one is, the last one carries it.
IncSettled(id) ==
    \A f \in DOMAIN patches[id] \cap {"status", "assigned_to"} :
      /\ NoneIn(answers, OfIncident(id)) /\ screen[id] # None => screen[id][f] = patches[id][f]
      /\ \A i \in 1..Len(answers) :
           LastIn(answers, OfIncident(id), i) => answers[i].body[f] = patches[id][f]

AlertSettled(a) ==
    alertPatches[a] # None =>
      /\ NoneIn(answers, OfAlert(a)) /\ alerts[a] # None =>
           alerts[a] = alertPatches[a] /\ alertPatches[a] # "dismissed"
      /\ \A i \in 1..Len(answers) :
           LastIn(answers, OfAlert(a), i) => answers[i].status = alertPatches[a]

\* Nothing is simulated before demo mode is known.
OffInv == ~enabled => EmptyOverlay

DemoInv == /\ TypeInv /\ Inv /\ OffInv
           /\ \A id \in Ids : IncSettled(id)
           /\ \A a \in Alerts : AlertSettled(a)

SettledAll == (\A id \in Ids : IncSettled(id)) /\ (\A a \in Alerts : AlertSettled(a))

LEMMA IncSettledSame ==
    ASSUME NEW id \in Ids, IncSettled(id), UNCHANGED answers,
           screen'[id] = screen[id], patches'[id] = patches[id]
    PROVE  IncSettled(id)'
  BY DEF IncSettled

LEMMA AlertSettledSame ==
    ASSUME NEW a \in Alerts, AlertSettled(a), UNCHANGED answers,
           alerts'[a] = alerts[a], alertPatches'[a] = alertPatches[a]
    PROVE  AlertSettled(a)'
  BY DEF AlertSettled

\* A step that neither answers nor shows nor simulates a change.
LEMMA SettledSame ==
    ASSUME DemoInv, UNCHANGED <<answers, screen, patches, alerts, alertPatches>>
    PROVE  SettledAll'
  <1>1. \A id \in Ids : IncSettled(id)'
    BY IncSettledSame DEF DemoInv
  <1>2. \A a \in Alerts : AlertSettled(a)'
    BY AlertSettledSame DEF DemoInv
  <1> QED BY <1>1, <1>2 DEF SettledAll

\* A new answer a leaves what others are about as it was.
LEMMA OtherIncident ==
    ASSUME DemoInv, NEW id \in Ids, NEW a \in AnyAnswer, a \notin OfIncident(id),
           answers' = Append(answers, a), screen' = screen, patches'[id] = patches[id]
    PROVE  IncSettled(id)'
  <1>1. answers \in Seq(AnyAnswer) /\ IncSettled(id)
    BY DEF DemoInv, TypeInv
  <1>2. LastAs(answers', OfIncident(id), answers)
    BY <1>1, AppendOther
  <1> QED BY <1>1, <1>2 DEF LastAs, IncSettled

LEMMA OtherAlert ==
    ASSUME DemoInv, NEW al \in Alerts, NEW a \in AnyAnswer, a \notin OfAlert(al),
           answers' = Append(answers, a), alerts' = alerts, alertPatches'[al] = alertPatches[al]
    PROVE  AlertSettled(al)'
  <1>1. answers \in Seq(AnyAnswer) /\ AlertSettled(al)
    BY DEF DemoInv, TypeInv
  <1>2. LastAs(answers', OfAlert(al), answers)
    BY <1>1, AppendOther
  <1> QED BY <1>1, <1>2 DEF LastAs, AlertSettled

LEMMA PatchKeeps ==
    ASSUME DemoInv, NEW k \in Ids, NEW patch \in Patches, Patch(k, patch)
    PROVE  TypeInv' /\ SettledAll'
  <1>0. /\ UNCHANGED <<user, server, list, seen, created, notes, alertPatches, screen, alerts>>
        /\ patches' = [patches EXCEPT ![k] = Spread(patches[k], patch)]
        /\ writes' = writes + 1
        /\ TypeInv
    BY DEF Patch, Simulates, view, session, DemoInv
  <1>1. patches[k] \in Partial /\ patch \in Partial
    BY <1>0, PatchIs DEF TypeInv
  <1>2. Spread(patches[k], patch) \in Partial
    BY <1>1, SpreadPartial
  <1>3. patches' \in [Ids -> Partial] /\ patches'[k] = Spread(patches[k], patch)
        /\ \A id \in Ids \ {k} : patches'[id] = patches[id]
    BY <1>0, <1>2 DEF TypeInv
  <1>4. CASE "completed_tasks" \in DOMAIN patch
    <2>1. answers' = answers
      BY <1>4 DEF Patch
    <2>2. DOMAIN patch = {"completed_tasks"}
      BY <1>4, PatchIs
    <2>3. \A f \in {"status", "assigned_to"} :
            /\ f \in DOMAIN patches'[k] <=> f \in DOMAIN patches[k]
            /\ f \in DOMAIN patches[k] => patches'[k][f] = patches[k][f]
      BY <1>3, <2>2 DEF Spread
    <2>4. IncSettled(k)'
      BY <1>0, <2>1, <2>3 DEF DemoInv, IncSettled
    <2>5. \A id \in Ids : IncSettled(id)'
      BY <1>0, <1>3, <2>1, <2>4, IncSettledSame DEF DemoInv
    <2>6. \A a \in Alerts : AlertSettled(a)'
      BY <1>0, <2>1, AlertSettledSame DEF DemoInv
    <2>7. TypeInv'
      BY <1>0, <1>3, <2>1 DEF TypeInv
    <2> QED BY <2>5, <2>6, <2>7 DEF SettledAll
  <1>5. CASE "completed_tasks" \notin DOMAIN patch
    <2>1. PICK base : base = (IF Known(k) THEN Base(k) ELSE Nothing)
      OBVIOUS
    <2>2. base \in Partial
      BY <1>0, <2>1, NothingPartial, IncidentPartial, CurrentIs
    <2>3. PICK a : a = [id |-> k, body |-> Spread(base, patches'[k])]
      OBVIOUS
    <2>4. answers' = Append(answers, a)
      BY <1>5, <2>1, <2>3 DEF Patch, Answer
    <2>5. Spread(base, patches'[k]) \in Partial
      BY <1>3, <2>2, SpreadPartial
    <2>6. /\ a \in AnyAnswer /\ a \in OfIncident(k)
          /\ \A f \in DOMAIN patches'[k] : a.body[f] = patches'[k][f]
      BY <2>3, <2>5, SpreadAt DEF AnyAnswer, OfIncident
    <2>7. /\ \A id \in Ids \ {k} : a \notin OfIncident(id)
          /\ \A al \in Alerts : a \notin OfAlert(al)
      BY <2>3 DEF OfIncident, OfAlert
    <2>8. answers \in Seq(AnyAnswer) /\ answers' \in Seq(AnyAnswer)
      BY <1>0, <2>4, <2>6, AppendProperties DEF TypeInv
    <2>9. IncSettled(k)'
      <3>1. LastIs(answers', OfIncident(k), a)
        BY <2>4, <2>6, <2>8, AppendMine
      <3> QED BY <2>6, <3>1 DEF LastIs, IncSettled
    <2>10. \A id \in Ids : IncSettled(id)'
      BY <1>0, <1>3, <2>4, <2>6, <2>7, <2>9, OtherIncident
    <2>11. \A al \in Alerts : AlertSettled(al)'
      BY <1>0, <2>4, <2>6, <2>7, OtherAlert
    <2>12. TypeInv'
      BY <1>0, <1>3, <2>8 DEF TypeInv
    <2> QED BY <2>10, <2>11, <2>12 DEF SettledAll
  <1> QED BY <1>4, <1>5

LEMMA PatchAlertKeeps ==
    ASSUME DemoInv, NEW al \in Alerts, NEW status \in {"acknowledged", "dismissed"},
           PatchAlert(al, status)
    PROVE  TypeInv' /\ SettledAll'
  <1>0. /\ UNCHANGED <<user, server, list, seen, created, patches, notes, screen, alerts>>
        /\ alertPatches' = [alertPatches EXCEPT ![al] = status]
        /\ writes' = writes + 1
        /\ TypeInv
    BY DEF PatchAlert, Simulates, view, session, DemoInv
  <1>1. /\ alertPatches' \in [Alerts -> {None, "acknowledged", "dismissed"}]
        /\ alertPatches'[al] = status
        /\ \A a \in Alerts \ {al} : alertPatches'[a] = alertPatches[a]
    BY <1>0 DEF TypeInv
  <1>2. PICK a : a = [alert |-> al, status |-> status]
    OBVIOUS
  <1>3. answers' = Append(answers, a)
    BY <1>2 DEF PatchAlert, Answer
  <1>4. /\ a \in AnyAnswer /\ a \in OfAlert(al) /\ a.status = status
        /\ \A id \in Ids : a \notin OfIncident(id)
        /\ \A other \in Alerts \ {al} : a \notin OfAlert(other)
    BY <1>2 DEF AnyAnswer, OfAlert, OfIncident
  <1>5. answers \in Seq(AnyAnswer) /\ answers' \in Seq(AnyAnswer)
    BY <1>0, <1>3, <1>4, AppendProperties DEF TypeInv
  <1>6. AlertSettled(al)'
    <2>1. LastIs(answers', OfAlert(al), a)
      BY <1>3, <1>4, <1>5, AppendMine
    <2> QED BY <1>1, <1>4, <2>1 DEF LastIs, AlertSettled
  <1>7. \A id \in Ids : IncSettled(id)'
    BY <1>0, <1>3, <1>4, OtherIncident
  <1>8. \A other \in Alerts : AlertSettled(other)'
    BY <1>0, <1>1, <1>3, <1>4, <1>6, OtherAlert
  <1>9. TypeInv'
    BY <1>0, <1>1, <1>5 DEF TypeInv
  <1> QED BY <1>7, <1>8, <1>9 DEF SettledAll

\* What is left of q, new, when the oldest answer a has arrived.
RestOf(q, C, a, new) ==
    /\ \A i \in 1..Len(new) : LastIn(new, C, i) =>
         \E j \in 1..Len(q) : new[i] = q[j] /\ LastIn(q, C, j)
    /\ NoneIn(new, C) /\ a \in C => \E j \in 1..Len(q) : a = q[j] /\ LastIn(q, C, j)
    /\ NoneIn(new, C) /\ a \notin C => NoneIn(q, C)

LEMMA TailOf ==
    ASSUME NEW C, NEW q \in Seq(AnyAnswer), q # <<>>, NEW a, a = Head(q), NEW new, new = Tail(q)
    PROVE  RestOf(q, C, a, new)
  BY TailLast DEF RestOf

LEMMA AnswerKeeps ==
    ASSUME DemoInv, AnswerArrives
    PROVE  TypeInv' /\ SettledAll'
  <1>0. /\ UNCHANGED <<user, server, list, seen, created, patches, notes, alertPatches, writes>>
        /\ TypeInv /\ answers # <<>> /\ answers' = Tail(answers)
    BY DEF AnswerArrives, session, overlay, DemoInv
  <1>1. PICK a \in AnyAnswer : a = Head(answers)
    BY <1>0, HeadTailProperties DEF TypeInv
  <1>2. answers \in Seq(AnyAnswer) /\ answers' \in Seq(AnyAnswer)
    BY <1>0, HeadTailProperties DEF TypeInv
  <1>3. \/ /\ "alert" \notin DOMAIN a /\ a.id \in Ids /\ a.body \in Partial
           /\ screen' = [screen EXCEPT ![a.id] = IF screen[a.id] = None THEN None ELSE a.body]
           /\ UNCHANGED alerts
        \/ /\ "alert" \in DOMAIN a /\ a.alert \in Alerts /\ a.status \in {"acknowledged", "dismissed"}
           /\ alerts' = [alerts EXCEPT ![a.alert] =
                IF alerts[a.alert] = None \/ a.status = "dismissed" THEN None ELSE a.status]
           /\ UNCHANGED screen
    BY <1>1, AnswerIs DEF AnswerArrives
  <1>4. screen' \in [Ids -> Partial \cup {None}]
    BY <1>0, <1>3 DEF TypeInv
  <1>5. alerts' \in [Alerts -> {None, "new", "acknowledged", "dismissed"}]
    BY <1>0, <1>3 DEF TypeInv
  <1>6. TypeInv'
    BY <1>0, <1>2, <1>4, <1>5 DEF TypeInv
  <1>7. ASSUME NEW id \in Ids PROVE IncSettled(id)'
    <2>0. IncSettled(id)
      BY DEF DemoInv
    <2>1. RestOf(answers, OfIncident(id), a, answers')
      BY <1>0, <1>1, <1>2, TailOf
    <2>2. /\ a \in OfIncident(id) /\ screen'[id] # None => screen'[id] = a.body
          /\ a \notin OfIncident(id) => screen'[id] = screen[id]
      BY <1>0, <1>3, AnswerIs DEF TypeInv
    <2> SUFFICES ASSUME NEW f \in DOMAIN patches[id] \cap {"status", "assigned_to"}
                 PROVE  /\ NoneIn(answers', OfIncident(id)) /\ screen'[id] # None =>
                             screen'[id][f] = patches[id][f]
                        /\ \A i \in 1..Len(answers') : LastIn(answers', OfIncident(id), i) =>
                             answers'[i].body[f] = patches[id][f]
      BY <1>0 DEF IncSettled
    <2>3. ASSUME NEW i \in 1..Len(answers'), LastIn(answers', OfIncident(id), i)
          PROVE  answers'[i].body[f] = patches[id][f]
      <3>1. PICK j \in 1..Len(answers) : answers'[i] = answers[j] /\ LastIn(answers, OfIncident(id), j)
        BY <2>1, <2>3 DEF RestOf
      <3> QED BY <2>0, <3>1 DEF IncSettled
    <2>4. ASSUME NoneIn(answers', OfIncident(id)), screen'[id] # None
          PROVE  screen'[id][f] = patches[id][f]
      <3>1. CASE a \in OfIncident(id)
        <4>1. PICK j \in 1..Len(answers) : a = answers[j] /\ LastIn(answers, OfIncident(id), j)
          BY <2>1, <2>4, <3>1 DEF RestOf
        <4>2. a.body[f] = patches[id][f]
          BY <2>0, <4>1 DEF IncSettled
        <4> QED BY <2>2, <2>4, <3>1, <4>2
      <3>2. CASE a \notin OfIncident(id)
        BY <2>0, <2>1, <2>2, <2>4, <3>2 DEF RestOf, IncSettled
      <3> QED BY <3>1, <3>2
    <2> QED BY <2>3, <2>4
  <1>8. ASSUME NEW al \in Alerts PROVE AlertSettled(al)'
    <2>0. AlertSettled(al)
      BY DEF DemoInv
    <2>1. RestOf(answers, OfAlert(al), a, answers')
      BY <1>0, <1>1, <1>2, TailOf
    <2>2. /\ a \in OfAlert(al) /\ alerts'[al] # None => alerts'[al] = a.status /\ a.status # "dismissed"
          /\ a \notin OfAlert(al) => alerts'[al] = alerts[al]
      BY <1>0, <1>3, AnswerIs DEF TypeInv
    <2> SUFFICES ASSUME alertPatches[al] # None
                 PROVE  /\ NoneIn(answers', OfAlert(al)) /\ alerts'[al] # None =>
                             alerts'[al] = alertPatches[al] /\ alertPatches[al] # "dismissed"
                        /\ \A i \in 1..Len(answers') : LastIn(answers', OfAlert(al), i) =>
                             answers'[i].status = alertPatches[al]
      BY <1>0 DEF AlertSettled
    <2>3. ASSUME NEW i \in 1..Len(answers'), LastIn(answers', OfAlert(al), i)
          PROVE  answers'[i].status = alertPatches[al]
      <3>1. PICK j \in 1..Len(answers) : answers'[i] = answers[j] /\ LastIn(answers, OfAlert(al), j)
        BY <2>1, <2>3 DEF RestOf
      <3> QED BY <2>0, <3>1 DEF AlertSettled
    <2>4. ASSUME NoneIn(answers', OfAlert(al)), alerts'[al] # None
          PROVE  alerts'[al] = alertPatches[al] /\ alertPatches[al] # "dismissed"
      <3>1. CASE a \in OfAlert(al)
        <4>1. PICK j \in 1..Len(answers) : a = answers[j] /\ LastIn(answers, OfAlert(al), j)
          BY <2>1, <2>4, <3>1 DEF RestOf
        <4>2. a.status = alertPatches[al]
          BY <2>0, <4>1 DEF AlertSettled
        <4> QED BY <2>2, <2>4, <3>1, <4>2
      <3>2. CASE a \notin OfAlert(al)
        BY <2>0, <2>1, <2>2, <2>4, <3>2 DEF RestOf, AlertSettled
      <3> QED BY <3>1, <3>2
    <2> QED BY <2>3, <2>4
  <1> QED BY <1>6, <1>7, <1>8 DEF SettledAll

LEMMA ListKeeps ==
    ASSUME DemoInv, ListArrives
    PROVE  TypeInv' /\ SettledAll'
  <1>0. /\ UNCHANGED <<user, server, created, patches, notes, alertPatches, writes, answers, alerts>>
        /\ TypeInv /\ list # None /\ list' = None /\ list \in Store(ServerIds)
    BY DEF ListArrives, session, overlay, DemoInv, TypeInv
  <1>1. \A id \in Ids : Sent(id) \in Incident \cup {None}
    BY <1>0 DEF Sent, Store
  <1>2. CASE enabled
    <2>0. PICK show :
            show = [id \in Ids |-> IF created[id] # None THEN created[id] ELSE Sent(id)]
      OBVIOUS
    <2>1. show \in Store(Ids)
      BY <1>0, <1>1, <2>0 DEF TypeInv, Store
    <2>2. /\ seen' = [id \in Ids |-> IF Sent(id) # None THEN Sent(id) ELSE seen[id]]
          /\ screen' = [id \in Ids |-> IF show[id] = None THEN None ELSE WithOverlay(show[id], id)]
      BY <1>2, <2>0 DEF ListArrives
    <2>3. seen' \in Store(Ids)
      BY <1>0, <1>1, <2>2 DEF TypeInv, Store
    <2>4. \A id \in Ids : show[id] # None => WithOverlay(show[id], id) \in Partial
      BY <1>0, <2>1, IncidentPartial, SpreadPartial DEF Store, TypeInv, WithOverlay
    <2>5. screen' \in [Ids -> Partial \cup {None}]
      BY <2>2, <2>4
    <2>6. ASSUME NEW id \in Ids PROVE IncSettled(id)'
      <3>0. IncSettled(id)
        BY DEF DemoInv
      <3>1. \A f \in DOMAIN patches[id] : screen'[id] # None => screen'[id][f] = patches[id][f]
        BY <2>2, SpreadAt DEF WithOverlay
      <3> QED BY <1>0, <3>0, <3>1 DEF IncSettled
    <2>7. \A a \in Alerts : AlertSettled(a)'
      BY <1>0, AlertSettledSame DEF DemoInv
    <2>8. TypeInv'
      BY <1>0, <2>3, <2>5 DEF TypeInv
    <2> QED BY <2>6, <2>7, <2>8 DEF SettledAll
  <1>3. CASE ~enabled
    <2>1. seen' = seen /\ screen' = [id \in Ids |-> Sent(id)]
      BY <1>3 DEF ListArrives
    <2>2. screen' \in [Ids -> Partial \cup {None}]
      BY <1>1, <2>1, IncidentPartial
    <2>3. \A id \in Ids : DOMAIN patches[id] = {}
      BY <1>3, NothingPartial DEF DemoInv, OffInv, EmptyOverlay
    <2>4. \A id \in Ids : IncSettled(id)'
      BY <1>0, <2>3 DEF IncSettled
    <2>5. \A a \in Alerts : AlertSettled(a)'
      BY <1>0, AlertSettledSame DEF DemoInv
    <2>6. TypeInv'
      BY <1>0, <2>1, <2>2 DEF TypeInv
    <2> QED BY <2>4, <2>5, <2>6 DEF SettledAll
  <1>4. enabled \in BOOLEAN
    BY DEF DemoInv, Inv
  <1> QED BY <1>2, <1>3, <1>4

LEMMA AlertsKeep ==
    ASSUME DemoInv, AlertsArrive
    PROVE  TypeInv' /\ SettledAll'
  <1>0. /\ UNCHANGED <<user, server, list, seen, created, patches, notes, alertPatches, writes,
                       answers, screen>>
        /\ TypeInv
    BY DEF AlertsArrive, session, overlay, DemoInv
  <1>1. PICK sent \in SUBSET Alerts :
          alerts' = [a \in Alerts |->
            IF a \notin sent \/ (enabled /\ alertPatches[a] = "dismissed") THEN None
            ELSE IF enabled /\ alertPatches[a] # None THEN alertPatches[a] ELSE "new"]
    BY DEF AlertsArrive
  <1>2. alerts' \in [Alerts -> {None, "new", "acknowledged", "dismissed"}]
    BY <1>0, <1>1 DEF TypeInv
  <1>3. \A a \in Alerts : alertPatches[a] # None => enabled
    BY DEF DemoInv, OffInv, EmptyOverlay
  <1>4. \A a \in Alerts : alertPatches[a] # None /\ alerts'[a] # None =>
          alerts'[a] = alertPatches[a] /\ alertPatches[a] # "dismissed"
    BY <1>1, <1>3
  <1>5. \A a \in Alerts : AlertSettled(a)'
    BY <1>0, <1>4 DEF DemoInv, AlertSettled
  <1>6. \A id \in Ids : IncSettled(id)'
    BY <1>0, IncSettledSame DEF DemoInv
  <1>7. TypeInv'
    BY <1>0, <1>2 DEF TypeInv
  <1> QED BY <1>5, <1>6, <1>7 DEF SettledAll

LEMMA NoteKeeps ==
    ASSUME DemoInv, NEW k \in Ids, AddNote(k)
    PROVE  TypeInv' /\ SettledAll'
  <1>0. /\ UNCHANGED <<user, server, list, seen, created, patches, alertPatches, screen, alerts, answers>>
        /\ notes' = [notes EXCEPT ![k] = notes[k] + 1] /\ writes' = writes + 1 /\ TypeInv
    BY DEF AddNote, Simulates, session, view, DemoInv
  <1> QED BY <1>0, SettledSame DEF TypeInv

LEMMA OpenKeeps ==
    ASSUME DemoInv, NEW ip \in IPs \cup {None}, OpenCase(ip)
    PROVE  TypeInv' /\ SettledAll'
  <1>0. /\ UNCHANGED <<user, server, list, seen, patches, notes, alertPatches, screen, alerts, answers>>
        /\ writes' = writes + 1 /\ TypeInv
    BY DEF OpenCase, Simulates, session, view, DemoInv
  <1>1. PICK case : case = [assigned_to |-> user.username, status |-> "open", completed_tasks |-> {}]
    OBVIOUS
  <1>2. case \in Incident
    BY <1>0, <1>1 DEF TypeInv, Incident, ActiveUsers, INCIDENT_STATUSES
  <1>3. created' = created \/ \E id : created' = [created EXCEPT ![id] = case]
    BY <1>1 DEF OpenCase
  <1>4. created' \in Store(Ids)
    BY <1>0, <1>2, <1>3 DEF TypeInv, Store
  <1> QED BY <1>0, <1>4, SettledSame DEF TypeInv

LEMMA ServerKeeps ==
    ASSUME DemoInv, NEW k \in ServerIds, ServerMoves(k)
    PROVE  TypeInv' /\ SettledAll'
  <1>0. /\ UNCHANGED <<user, writes, list, seen, created, patches, notes, alertPatches, screen, alerts,
                       answers>>
        /\ TypeInv
    BY DEF ServerMoves, session, overlay, view, DemoInv
  <1>1. server' \in Store(ServerIds)
    BY <1>0, DataAssumption DEF ServerMoves, TypeInv, Store
  <1> QED BY <1>0, <1>1, SettledSame DEF TypeInv

\* Without answers on their way and with nothing on the screens.
LEMMA NothingShown ==
    ASSUME answers = <<>>, screen = NoIncidents, alerts = [a \in Alerts |-> None]
    PROVE  SettledAll
  <1>1. /\ Len(answers) = 0 /\ \A id \in Ids : screen[id] = None
        /\ \A a \in Alerts : alerts[a] = None
    BY DEF NoIncidents
  <1> QED BY <1>1 DEF SettledAll, IncSettled, AlertSettled

LEMMA NothingShownNext ==
    ASSUME answers' = <<>>, screen' = NoIncidents, alerts' = [a \in Alerts |-> None]
    PROVE  SettledAll'
  <1>1. /\ Len(answers') = 0 /\ \A id \in Ids : screen'[id] = None
        /\ \A a \in Alerts : alerts'[a] = None
    BY DEF NoIncidents
  <1> QED BY <1>1 DEF SettledAll, IncSettled, AlertSettled

LEMMA NoneTyped ==
    /\ NoIncidents \in Store(Ids) /\ NoIncidents \in [Ids -> Partial \cup {None}]
    /\ [id \in Ids |-> Nothing] \in [Ids -> Partial]
    /\ [a \in Alerts |-> None] \in [Alerts -> {None, "acknowledged", "dismissed"}]
    /\ [a \in Alerts |-> None] \in [Alerts -> {None, "new", "acknowledged", "dismissed"}]
    /\ <<>> \in Seq(AnyAnswer)
  BY NothingPartial DEF NoIncidents, Store

LEMMA ReloadKeeps ==
    ASSUME DemoInv, Reload
    PROVE  TypeInv' /\ SettledAll'
  <1>1. TypeInv'
    BY NoneTyped DEF Reload, DemoInv, TypeInv
  <1> QED BY <1>1, NothingShownNext DEF Reload

LEMMA LoginKeeps ==
    ASSUME DemoInv, NEW u \in Users, Login(u)
    PROVE  TypeInv' /\ SettledAll'
  <1>1. TypeInv'
    BY NoneTyped DEF Login, overlay, DemoInv, TypeInv
  <1> QED BY <1>1, NothingShownNext DEF Login

LEMMA OffKeeps == Inv /\ OffInv /\ [Next]_vars => OffInv'
  <1> SUFFICES ASSUME Inv, OffInv, [Next]_vars PROVE OffInv'
    OBVIOUS
  <1>0. ASSUME UNCHANGED overlay, enabled \in BOOLEAN, enabled' = FALSE => enabled = FALSE PROVE OffInv'
    BY <1>0 DEF OffInv, EmptyOverlay, overlay
  <1>1. ASSUME Simulates, UNCHANGED session PROVE OffInv'
    BY <1>1 DEF Simulates, session, OffInv
  <1>2. CASE \E k \in Ids : AddNote(k) \/ \E patch \in Patches : Patch(k, patch)
    BY <1>1, <1>2 DEF AddNote, Patch
  <1>3. CASE (\E ip \in IPs \cup {None} : OpenCase(ip)) \/ \E ip \in IPs, on \in BOOLEAN : Block(ip, on)
    BY <1>1, <1>3 DEF OpenCase, Block
  <1>4. CASE \E a \in Alerts, status \in {"acknowledged", "dismissed"} : PatchAlert(a, status)
    BY <1>1, <1>4 DEF PatchAlert
  <1>5. CASE Send \/ Config
    <2>1. enabled' = FALSE => enabled = FALSE
      BY <1>5 DEF Send, Config, Inv, NeverPretends
    <2> QED BY <1>0, <1>5, <2>1 DEF Send, Config, Inv
  <1>6. CASE \/ FetchList \/ ListArrives \/ AlertsArrive \/ AnswerArrives
             \/ \E k \in ServerIds : ServerMoves(k)
    BY <1>0, <1>6 DEF FetchList, ListArrives, AlertsArrive, AnswerArrives, ServerMoves, session, Inv
  <1>7. CASE \E u \in Users : Login(u)
    BY <1>0, <1>7 DEF Login, Inv
  <1>8. CASE Reload
    BY <1>8 DEF Reload, OffInv, EmptyOverlay
  <1>9. CASE UNCHANGED vars
    BY <1>0, <1>9 DEF vars, overlay, Inv
  <1> QED BY <1>2, <1>3, <1>4, <1>5, <1>6, <1>7, <1>8, <1>9 DEF Next

LEMMA DemoInit == Init => DemoInv
  <1> SUFFICES ASSUME Init PROVE DemoInv
    OBVIOUS
  <1>1. TypeInv
    <2>1. server \in Store(ServerIds)
      BY DataAssumption DEF Init, Store
    <2> QED BY <2>1, NoneTyped DEF Init, EmptyOverlay, TypeInv
  <1>2. OffInv
    BY DEF Init, OffInv
  <1>3. SettledAll
    BY NothingShown DEF Init
  <1> QED BY <1>1, <1>2, <1>3, InvInit DEF DemoInv, SettledAll

LEMMA DemoNext == DemoInv /\ [Next]_vars => DemoInv'
  <1> SUFFICES ASSUME DemoInv, [Next]_vars PROVE DemoInv'
    OBVIOUS
  <1>1. ASSUME UNCHANGED <<answers, screen, patches, alerts, alertPatches, user, server, seen, created,
                           notes>>,
               list' \in {list, server}, writes' \in {writes, writes + 1}
        PROVE  TypeInv' /\ SettledAll'
    BY <1>1, SettledSame DEF DemoInv, TypeInv
  <1>2. TypeInv' /\ SettledAll'
    <2>1. CASE \E k \in Ids : AddNote(k) \/ \E patch \in Patches : Patch(k, patch)
      BY <2>1, NoteKeeps, PatchKeeps
    <2>2. CASE \E ip \in IPs \cup {None} : OpenCase(ip)
      BY <2>2, OpenKeeps
    <2>3. CASE \E ip \in IPs, on \in BOOLEAN : Block(ip, on)
      BY <1>1, <2>3 DEF Block, Simulates, session, view
    <2>4. CASE \E a \in Alerts, status \in {"acknowledged", "dismissed"} : PatchAlert(a, status)
      BY <2>4, PatchAlertKeeps
    <2>5. CASE Send \/ Config \/ FetchList
      BY <1>1, <2>5 DEF Send, Config, FetchList, session, overlay, view
    <2>6. CASE ListArrives \/ AlertsArrive \/ AnswerArrives
      BY <2>6, ListKeeps, AlertsKeep, AnswerKeeps
    <2>7. CASE \E k \in ServerIds : ServerMoves(k)
      BY <2>7, ServerKeeps
    <2>8. CASE \E u \in Users : Login(u)
      BY <2>8, LoginKeeps
    <2>9. CASE Reload
      BY <2>9, ReloadKeeps
    <2>10. CASE UNCHANGED vars
      BY <1>1, <2>10 DEF vars
    <2> QED BY <2>1, <2>2, <2>3, <2>4, <2>5, <2>6, <2>7, <2>8, <2>9, <2>10 DEF Next
  <1>3. Inv' /\ OffInv'
    BY InvNext, OffKeeps DEF DemoInv
  <1> QED BY <1>2, <1>3 DEF DemoInv, SettledAll

LEMMA DemoInvariant == Spec => []DemoInv
  BY DemoInit, DemoNext, PTL DEF Spec

\* What the simulator lets through the server's own rules allow, on the
\* incident as it is shown, if the browser has listed it (authorize).
THEOREM SimulatedIsPermitted == Spec => SimulationPermits
  <1>1. TypeInv /\ [Next]_vars =>
          [\A id \in Ids : Known(id) /\ writes' > writes =>
             LET before == WithOverlay(Base(id), id)
                 after == Spread(Base(id), patches'[id])
                 changes(f) == after[f] # before[f]
             IN  /\ notes'[id] # notes[id] \/ changes("status") \/ changes("completed_tasks")
                      => CheckWorkOnIncident(user, before) = "ok"
                 /\ changes("assigned_to")
                      => CheckAssignment(user, before, after.assigned_to, ActiveUsers) = "ok"]_vars
    BY StepPermits DEF Permits
  <1>2. DemoInv => TypeInv
    BY DEF DemoInv
  <1> QED BY <1>1, <1>2, DemoInvariant, PTL DEF Spec, SimulationPermits

\* Once the simulated answers have arrived the screens show every simulated
\* write, whatever lists were under way (overlay()).
THEOREM WritesStayShown == Spec => []ScreensKeepWrites
  <1>1. DemoInv => ScreensKeepWrites
    <2> SUFFICES ASSUME DemoInv, answers = <<>>
                 PROVE  /\ \A id \in Ids : screen[id] # None =>
                             \A f \in DOMAIN patches[id] \cap {"status", "assigned_to"} :
                               screen[id][f] = patches[id][f]
                        /\ \A a \in Alerts : alertPatches[a] # None /\ alerts[a] # None =>
                             alerts[a] = alertPatches[a]
                        /\ \A a \in Alerts : alertPatches[a] = "dismissed" => alerts[a] = None
      BY DEF ScreensKeepWrites
    <2>1. \A C : NoneIn(answers, C)
      BY DEF NoneIn
    <2>2. \A id \in Ids : screen[id] # None =>
            \A f \in DOMAIN patches[id] \cap {"status", "assigned_to"} : screen[id][f] = patches[id][f]
      BY <2>1 DEF DemoInv, IncSettled
    <2>3. \A a \in Alerts : alertPatches[a] # None /\ alerts[a] # None =>
            alerts[a] = alertPatches[a] /\ alertPatches[a] # "dismissed"
      BY <2>1 DEF DemoInv, AlertSettled
    <2>4. None # "dismissed"
      BY DataAssumption
    <2> QED BY <2>2, <2>3, <2>4
  <1> QED BY <1>1, DemoInvariant, PTL
=============================================================================
