---------------------- MODULE BackendControllerProofs ----------------------
(***************************************************************************)
(* Proofs about BackendController, for any number of backends, kinds and   *)
(* models and any number of edits, errors and restarts.                    *)
(*                                                                         *)
(* BackendInv holds without further hypotheses; the three properties each  *)
(* rest on it and on an invariant of their own.                            *)
(***************************************************************************)
EXTENDS BackendController, TLAPS

-----------------------------------------------------------------------------
(* What a worker and its copy of an object may be.                         *)

Places ==
  {"config", "validator", "cluster", "route", "rmCluster", "rmRoute", "finalDelete", "status"}
Conds == Handlers \cup {NoCond}
Stored == Object \cup {Absent}
Busy == [pc : Places, key : Backends, obj : Object, cond : Conds]

Counts ==
  [edits : 0..MaxEdits, errors : 0..MaxErrors, restarts : 0..MaxRestarts, lostDeletes : Nat]

BackendTypeOK ==
  /\ api \in [Backends -> Stored]
  /\ cache \in [Backends -> Stored]
  /\ queue \subseteq Backends
  /\ worker \in [Kinds -> Busy \cup {Idle}]
  /\ used \in Counts
  /\ had \in [Backends -> SUBSET Models]
  /\ left \in [Backends -> SUBSET Models]

(* An object b, or a copy of it: its name is one the spec has had, every   *)
(* edit is older than the next one, and only what has the finalizer is     *)
(* marked as deleted.                                                      *)
Dated(b, o) ==
  o # Absent => /\ o.model \in had[b]
                /\ o.gen < used.edits /\ o.deletedAt < used.edits
                /\ isBackendDeleted(o) => o.finalizer

Working(k) == worker[k].pc # "idle"

(* A copy has the spec and the deletion mark of the object it is compared  *)
(* with; the finalizer and the status may differ.                          *)
SameSpec(c, o) ==
  c # Absent /\ c.model = o.model /\ c.gen = o.gen /\ c.deletedAt = o.deletedAt

(* Where a worker is says what its object is and whether a handler failed. *)
Staged(w) ==
  /\ w.pc \in {"config", "validator", "cluster"} => w.cond = NoCond
  /\ w.pc \in {"validator", "cluster", "route"} => ~isBackendDeleted(w.obj)
  /\ w.pc \in {"rmCluster", "rmRoute"} /\ w.cond = NoCond => isBackendDeleted(w.obj)
  /\ w.pc = "finalDelete" => isBackendDeleted(w.obj)
  /\ w.pc \notin {"config", "status"} => w.obj.finalizer

(* The worker's object is the cache's unless an event has come since, and  *)
(* then the object is queued.  Content that the API server had before it   *)
(* will never have again.                                                  *)
Copied(w) ==
  /\ w.key \notin queue => SameSpec(cache[w.key], w.obj)
  /\ w.pc = "config" /\ api[w.key] = w.obj => cache[w.key] = w.obj

BackendInv ==
  /\ BackendTypeOK
  /\ \A b \in Backends : Dated(b, api[b]) /\ Dated(b, cache[b])
  /\ \A k \in Kinds : Working(k) =>
       /\ KindOf[worker[k].key] = k
       /\ Dated(worker[k].key, worker[k].obj)
       /\ Staged(worker[k])
       /\ Copied(worker[k])

-----------------------------------------------------------------------------
(* NoOrphanCluster.                                                        *)

\* An object that the API server keeps until a Reconcile lets it go.
Held(o) == o # Absent /\ o.finalizer

(* A copy c of the object a: what a copy shows as held and not deleted is  *)
(* still held; what a copy shows as deleted is not held undeleted.         *)
Trails(c, a) ==
  /\ Held(c) /\ ~isBackendDeleted(c) => Held(a)
  /\ c # Absent /\ isBackendDeleted(c) /\ Held(a) => isBackendDeleted(a)

(* A copy of b that shows it held and not deleted has the name of the      *)
(* object a, or one that the spec was edited away from.                    *)
NamedAs(b, c, a) ==
  Held(c) /\ ~isBackendDeleted(c) => c.model = a.model \/ c.model \in left[b]
Named(b, c) == NamedAs(b, c, api[b])

\* In cls, the clusters, m was registered for b.
Registered(cls, b, m) == m \in DOMAIN cls /\ cls[m].owner = b

\* Why m may be registered for b, with objs in the API server.
JustifiedAs(b, m, objs) == m \in left[b] \/ (Held(objs[b]) /\ objs[b].model = m)
Justified(b, m) == JustifiedAs(b, m, api)

HeldInv ==
  /\ \A b \in Backends : Trails(cache[b], api[b]) /\ Named(b, cache[b])
  /\ \A k \in Kinds : Working(k) =>
       /\ Trails(worker[k].obj, api[worker[k].key])
       /\ Named(worker[k].key, worker[k].obj)
       /\ isBackendDeleted(worker[k].obj) /\ Held(cache[worker[k].key])
            => isBackendDeleted(cache[worker[k].key])
       /\ worker[k].pc \in {"rmRoute", "finalDelete"} /\ isBackendDeleted(worker[k].obj)
            => ~Registered(clusters, worker[k].key, worker[k].obj.model)
  /\ \A m \in DOMAIN clusters :
       clusters[m].owner \in Backends /\ Justified(clusters[m].owner, m)

-----------------------------------------------------------------------------
(* HealthyIsServed.                                                        *)

ClusterFrom(b, o) ==
  o.model \in DOMAIN clusters /\ clusters[o.model] = [owner |-> b, gen |-> o.gen]

(* No worker is at b and no event of b is waiting.                         *)
AtRest(b) ==
  /\ cache[b] = api[b] /\ b \notin queue
  /\ \A k \in Kinds : Working(k) => worker[k].key # b

\* No other backend has ever asked for the name m.
Exclusive(b, m) == \A c \in Backends \ {b} : m \notin had[c]

RestIsServed(b) ==
  Exists(b) /\ AtRest(b) /\ Alone(b) /\ ~isBackendDeleted(api[b]) /\ api[b].status.phase = "Healthy"
    => Served(b)

(* How far a worker without a failure has come, when no other worker can   *)
(* touch what it registers.                                                *)
Progress(k) ==
  Working(k) /\ worker[k].cond = NoCond /\ Exclusive(worker[k].key, worker[k].obj.model) =>
    /\ worker[k].pc = "route" => ClusterFrom(worker[k].key, worker[k].obj)
    /\ worker[k].pc = "status" /\ ~isBackendDeleted(worker[k].obj) =>
         /\ ClusterFrom(worker[k].key, worker[k].obj)
         /\ worker[k].obj.model \in DOMAIN routeRegistry

ServedInv ==
  /\ \A b \in Backends : RestIsServed(b)
  /\ \A k \in Kinds : Progress(k)

-----------------------------------------------------------------------------
(* UniqueGlobally.                                                         *)

(* b has come to rest as Healthy, or its worker is past the validator.     *)
Accepted(b) ==
  /\ b \notin queue /\ cache[b] # Absent /\ ~isBackendDeleted(cache[b])
  /\ \/ AtRest(b) /\ cache[b].status.phase = "Healthy"
     \/ \E k \in Kinds : /\ worker[k].key = b /\ worker[k].cond = NoCond
                         /\ worker[k].pc \in {"cluster", "route", "status"}

UniqueInv ==
  \A b, c \in Backends :
    b # c /\ KindOf[b] = KindOf[c] /\ Accepted(b) /\ Accepted(c)
      => cache[b].model # cache[c].model

(* The hypothesis: objects of one kind differ in metadata.name, as they    *)
(* do within a namespace.                                                  *)
NamesTellApart ==
  \A b, c \in Backends : b # c /\ KindOf[b] = KindOf[c] => NameOf[b] # NameOf[c]

-----------------------------------------------------------------------------
(* Facts about the values.                                                 *)

LEMMA NoCondIsNone == NoCond \notin Handlers
BY Zenon DEF NoCond, Handlers

LEMMA ObjectFacts ==
  ASSUME NEW o \in Object
  PROVE  /\ o # Absent /\ o.gen \in Nat /\ o.deletedAt \in Int /\ o.finalizer \in BOOLEAN
         /\ o.model \in Models
BY ControllerAssumption DEF Object, Absent

LEMMA AbsentIsNoObject == Absent \notin Object
BY ObjectFacts

LEMMA WorkerFacts ==
  ASSUME BackendTypeOK, NEW k \in Kinds
  PROVE  /\ Working(k) => /\ worker[k] \in Busy
                          /\ worker[k].pc \in Places /\ worker[k].key \in Backends
                          /\ worker[k].obj \in Object /\ worker[k].cond \in Conds
         /\ ~Working(k) => worker[k] = Idle
<1>1. worker[k] \in Busy \/ worker[k] = Idle
  BY DEF BackendTypeOK
<1>2. Idle.pc = "idle"
  BY DEF Idle
<1>3. ASSUME worker[k] \in Busy
      PROVE  /\ worker[k].pc \in Places /\ worker[k].pc # "idle"
             /\ worker[k].key \in Backends
             /\ worker[k].obj \in Object /\ worker[k].cond \in Conds
  BY <1>3 DEF Busy, Places
<1>4. QED
  BY <1>1, <1>2, <1>3 DEF Working

-----------------------------------------------------------------------------
(* An edit by a user.  What was held stays held, and nothing else comes to *)
(* be; a mark of deletion stays.                                           *)
Edited(b, o) ==
  /\ o \in Stored
  /\ used \in Counts
  /\ used'.edits = used.edits + 1
  /\ used' \in Counts
  /\ api' = [api EXCEPT ![b] = o]
  /\ had' = [had EXCEPT ![b] = IF o = Absent THEN @ ELSE @ \cup {o.model}]
  /\ left' = [left EXCEPT ![b] = IF Renames(b, o) THEN @ \cup {api[b].model} ELSE @]
  /\ o # Absent => /\ o.gen <= used.edits /\ o.deletedAt <= used.edits
                   /\ o.gen = used.edits \/ o.deletedAt = used.edits
                   /\ isBackendDeleted(o) => o.finalizer
  /\ Held(o) <=> Held(api[b])
  /\ api[b] # Absent /\ isBackendDeleted(api[b]) => Held(o) /\ isBackendDeleted(o)
  /\ UNCHANGED <<cache, queue, worker, registryVars>>

LEMMA EditCounts ==
  ASSUME BackendTypeOK, used.edits < MaxEdits, used' = [used EXCEPT !.edits = @ + 1]
  PROVE  /\ used.edits \in Nat /\ used.edits \in 0..MaxEdits
         /\ used'.edits = used.edits + 1
         /\ used' \in Counts
BY ControllerAssumption DEF BackendTypeOK, Counts

LEMMA CreateEdits ==
  ASSUME BackendInv, NEW b \in Backends, Create(b)
  PROVE  \E o : Edited(b, o)
<1>1. PICK m \in ModelsOf[b], v \in BOOLEAN :
        EditApi(b, [model |-> m, valid |-> v, gen |-> used.edits, finalizer |-> FALSE,
                    deletedAt |-> -1, status |-> NoStatus])
  BY DEF Create
<1> DEFINE o == [model |-> m, valid |-> v, gen |-> used.edits, finalizer |-> FALSE,
                 deletedAt |-> -1, status |-> NoStatus]
<1>2. /\ used.edits \in Nat /\ used.edits \in 0..MaxEdits
      /\ used'.edits = used.edits + 1
      /\ used' \in Counts
  BY <1>1, EditCounts DEF EditApi, BackendInv
<1>3. NoStatus \in Status /\ m \in Models
  <2>1. NoStatus \in Status
    BY DEF NoStatus, Status
  <2>2. QED
    BY <2>1, ControllerAssumption
<1>4. -1 \in -1..MaxEdits
  BY ControllerAssumption
<1>5. o \in Object
  BY <1>2, <1>3, <1>4 DEF Object
<1>6. /\ o.model = m /\ o.gen = used.edits /\ o.deletedAt = -1 /\ o.finalizer = FALSE
  OBVIOUS
<1>7. /\ api' = [api EXCEPT ![b] = o] /\ UNCHANGED <<cache, queue, worker, registryVars>>
      /\ had' = [had EXCEPT ![b] = IF o = Absent THEN @ ELSE @ \cup {o.model}]
      /\ left' = [left EXCEPT ![b] = IF Renames(b, o) THEN @ \cup {api[b].model} ELSE @]
  BY <1>1 DEF EditApi
<1> HIDE DEF o
<1>8. o # Absent /\ api[b] = Absent
  BY <1>5, ObjectFacts DEF Create
<1>9. used \in Counts
  BY DEF BackendInv, BackendTypeOK
<1>10. ~Held(o) /\ ~Held(api[b]) /\ ~isBackendDeleted(o)
  BY <1>6, <1>8 DEF Held, isBackendDeleted
<1>11. o \in Stored
  BY <1>5 DEF Stored
<1>12. o.gen <= used.edits /\ o.deletedAt <= used.edits
  BY <1>2, <1>6
<1>13. Edited(b, o)
  BY <1>2, <1>6, <1>7, <1>8, <1>9, <1>10, <1>11, <1>12 DEF Edited
<1>14. QED
  BY <1>13

LEMMA EditSpecEdits ==
  ASSUME BackendInv, NEW b \in Backends, EditSpec(b)
  PROVE  \E o : Edited(b, o)
<1>1. PICK m \in ModelsOf[b], v \in BOOLEAN :
        EditApi(b, [model |-> m, valid |-> v, gen |-> used.edits, finalizer |-> api[b].finalizer,
                    deletedAt |-> api[b].deletedAt, status |-> api[b].status])
  BY DEF EditSpec
<1> DEFINE a == api[b]
           o == [model |-> m, valid |-> v, gen |-> used.edits, finalizer |-> a.finalizer,
                 deletedAt |-> a.deletedAt, status |-> a.status]
<1>2. /\ used.edits \in Nat /\ used.edits \in 0..MaxEdits
      /\ used'.edits = used.edits + 1
      /\ used' \in Counts
  BY <1>1, EditCounts DEF EditApi, BackendInv
<1>3. a \in Object /\ a # Absent
  BY DEF EditSpec, BackendInv, BackendTypeOK, Stored
<1>4. m \in Models
  BY ControllerAssumption
<1>5. /\ a.deletedAt < used.edits
      /\ isBackendDeleted(a) => a.finalizer
  BY <1>3 DEF BackendInv, Dated
<1>6. /\ api' = [api EXCEPT ![b] = o] /\ UNCHANGED <<cache, queue, worker, registryVars>>
      /\ had' = [had EXCEPT ![b] = IF o = Absent THEN @ ELSE @ \cup {o.model}]
      /\ left' = [left EXCEPT ![b] = IF Renames(b, o) THEN @ \cup {api[b].model} ELSE @]
  BY <1>1 DEF EditApi
<1> HIDE DEF a
<1>7. o \in Object
  BY <1>2, <1>3, <1>4 DEF Object
<1>8. /\ o.model = m /\ o.gen = used.edits /\ o.deletedAt = a.deletedAt
      /\ o.finalizer = a.finalizer
  OBVIOUS
<1> HIDE DEF o
<1>9. o # Absent /\ o \in Stored
  BY <1>7, ObjectFacts DEF Stored
<1>10. used \in Counts
  BY DEF BackendInv, BackendTypeOK
<1>11. /\ Held(o) <=> Held(a)
       /\ isBackendDeleted(o) <=> isBackendDeleted(a)
  BY <1>3, <1>8, <1>9 DEF Held, isBackendDeleted
<1>12. o.gen <= used.edits /\ o.deletedAt <= used.edits
  BY <1>2, <1>3, <1>5, <1>8, ObjectFacts
<1>13. isBackendDeleted(a) => Held(o)
  BY <1>5, <1>11, <1>3 DEF Held
<1>14. Edited(b, o)
  BY <1>2, <1>5, <1>6, <1>8, <1>9, <1>10, <1>11, <1>12, <1>13 DEF Edited, a
<1>15. QED
  BY <1>14

LEMMA DeleteEdits ==
  ASSUME BackendInv, NEW b \in Backends, DeleteObject(b)
  PROVE  \E o : Edited(b, o)
<1> DEFINE a == api[b]
           marked == [a EXCEPT !.deletedAt = used.edits]
           o == IF a.finalizer THEN marked ELSE Absent
<1>1. /\ used.edits \in Nat /\ used.edits \in 0..MaxEdits
      /\ used'.edits = used.edits + 1
      /\ used' \in Counts
  BY EditCounts DEF DeleteObject, EditApi, BackendInv
<1>2. a \in Object /\ a # Absent /\ ~isBackendDeleted(a)
  BY DEF DeleteObject, BackendInv, BackendTypeOK, Stored
<1>3. a.gen < used.edits
  BY <1>2 DEF BackendInv, Dated
<1>4. /\ api' = [api EXCEPT ![b] = o] /\ UNCHANGED <<cache, queue, worker, registryVars>>
      /\ had' = [had EXCEPT ![b] = IF o = Absent THEN @ ELSE @ \cup {o.model}]
      /\ left' = [left EXCEPT ![b] = IF Renames(b, o) THEN @ \cup {api[b].model} ELSE @]
  BY DEF DeleteObject, EditApi
<1>5. used \in Counts
  BY DEF BackendInv, BackendTypeOK
<1> HIDE DEF a
<1>6. marked \in Object
  BY <1>1, <1>2 DEF Object
<1>7. /\ marked.model = a.model /\ marked.gen = a.gen /\ marked.deletedAt = used.edits
      /\ marked.finalizer = a.finalizer
  BY <1>2 DEF Object
<1> HIDE DEF marked
<1>8. marked # Absent /\ a.gen \in Nat
  BY <1>2, <1>6, ObjectFacts
<1>9. CASE a.finalizer
  <2>1. o = marked
    BY <1>9
  <2> HIDE DEF o
  <2>2. Held(o) /\ Held(a) /\ isBackendDeleted(o)
    <3>1. o.finalizer
      BY <1>7, <1>9, <2>1, Zenon
    <3>2. isBackendDeleted(o)
      BY <1>1, <1>7, <2>1 DEF isBackendDeleted
    <3>3. QED
      BY <1>2, <1>8, <1>9, <2>1, <3>1, <3>2, Zenon DEF Held
  <2>3. o # Absent => /\ o.gen <= used.edits /\ o.deletedAt <= used.edits
                      /\ o.gen = used.edits \/ o.deletedAt = used.edits
                      /\ isBackendDeleted(o) => o.finalizer
    <3>1. o.finalizer
      BY <1>7, <1>9, <2>1, Zenon
    <3>2. o.gen <= used.edits /\ o.deletedAt <= used.edits /\ o.deletedAt = used.edits
      BY <1>1, <1>3, <1>7, <1>8, <2>1
    <3>3. QED
      BY <1>3, <1>7, <2>1, <3>1, <3>2, Zenon
  <2>4. o \in Stored
    BY <1>6, <2>1 DEF Stored
  <2>5. Edited(b, o)
    BY <1>1, <1>4, <1>5, <2>2, <2>3, <2>4 DEF Edited, a
  <2>6. QED
    BY <2>5
<1>10. CASE ~a.finalizer
  <2>1. o = Absent
    BY <1>10
  <2>2. ~Held(o) /\ ~Held(a) /\ o \in Stored
    BY <1>10, <2>1 DEF Held, Stored
  <2> HIDE DEF o
  <2>3. Edited(b, o)
    BY <1>1, <1>2, <1>4, <1>5, <2>1, <2>2 DEF Edited, a
  <2>4. QED
    BY <2>3
<1>11. QED
  BY <1>9, <1>10

(* Names are only added to the history, and a name that is edited away is. *)
LEMMA EditedHistory ==
  ASSUME BackendTypeOK, NEW b \in Backends, NEW o, Edited(b, o)
  PROVE  /\ had' \in [Backends -> SUBSET Models] /\ left' \in [Backends -> SUBSET Models]
         /\ \A c \in Backends : had[c] \subseteq had'[c] /\ left[c] \subseteq left'[c]
         /\ o # Absent => o.model \in had'[b]
         /\ o # Absent /\ api[b] # Absent => o.model = api[b].model \/ api[b].model \in left'[b]
<1>1. /\ had \in [Backends -> SUBSET Models] /\ left \in [Backends -> SUBSET Models]
      /\ api[b] \in Stored /\ o \in Stored
      /\ had' = [had EXCEPT ![b] = IF o = Absent THEN @ ELSE @ \cup {o.model}]
      /\ left' = [left EXCEPT ![b] = IF Renames(b, o) THEN @ \cup {api[b].model} ELSE @]
  BY DEF Edited, BackendTypeOK
<1>2. \A x \in Stored : x # Absent => x.model \in Models
  BY ObjectFacts DEF Stored
<1>3. /\ had'[b] = IF o = Absent THEN had[b] ELSE had[b] \cup {o.model}
      /\ left'[b] = IF Renames(b, o) THEN left[b] \cup {api[b].model} ELSE left[b]
      /\ \A c \in Backends \ {b} : had'[c] = had[c] /\ left'[c] = left[c]
  BY <1>1
<1>4. had'[b] \in SUBSET Models /\ left'[b] \in SUBSET Models
  BY <1>1, <1>2, <1>3 DEF Renames
<1>5. had' \in [Backends -> SUBSET Models] /\ left' \in [Backends -> SUBSET Models]
  BY <1>1, <1>3, <1>4
<1>6. QED
  BY <1>3, <1>5 DEF Renames

(* An edit keeps BackendInv: a number used for it was not used before.     *)
LEMMA EditedKeeps ==
  ASSUME BackendInv, NEW b \in Backends, NEW o, Edited(b, o)
  PROVE  BackendInv'
<1>1. BackendTypeOK' /\ \A c \in Backends : had[c] \subseteq had'[c]
  BY EditedHistory DEF BackendInv, BackendTypeOK, Edited
<1>2. used.edits \in Nat /\ used'.edits = used.edits + 1 /\ UNCHANGED <<cache, queue, worker>>
  BY ControllerAssumption DEF Edited, Counts
<1>3. ASSUME NEW c \in Backends, NEW x \in Stored, Dated(c, x) PROVE Dated(c, x)'
  <2>1. CASE x = Absent
    BY <2>1 DEF Dated
  <2>2. CASE x \in Object
    BY <1>1, <1>2, <1>3, <2>2, ObjectFacts DEF Dated, isBackendDeleted
  <2>3. QED
    BY <2>1, <2>2 DEF Stored
<1>4. Dated(b, o)'
  <2>1. CASE o = Absent
    BY <2>1 DEF Dated
  <2>2. CASE o \in Object
    <3>1. o # Absent /\ o.model \in had'[b]
      BY <2>2, ObjectFacts, EditedHistory DEF BackendInv
    <3>2. o.gen < used'.edits /\ o.deletedAt < used'.edits /\ (isBackendDeleted(o) => o.finalizer)
      BY <1>2, <2>2, <3>1, ObjectFacts DEF Edited
    <3>3. QED
      BY <3>1, <3>2 DEF Dated, isBackendDeleted
  <2>3. QED
    BY <2>1, <2>2 DEF Edited, Stored
<1>5. ASSUME NEW c \in Backends PROVE Dated(c, api[c])' /\ Dated(c, cache[c])'
  <2>1. Dated(c, cache[c])'
    BY <1>2, <1>3 DEF BackendInv, BackendTypeOK
  <2>2. CASE c = b
    <3>1. api'[c] = o
      BY <2>2 DEF Edited, BackendInv, BackendTypeOK
    <3>2. QED
      BY <1>4, <2>1, <2>2, <3>1 DEF Dated
  <2>3. CASE c # b
    <3>1. api'[c] = api[c] /\ api[c] \in Stored /\ Dated(c, api[c])
      BY <2>3 DEF Edited, BackendInv, BackendTypeOK
    <3>2. Dated(c, api[c]')
      BY <3>1
    <3>3. QED
      BY <1>3, <2>1, <3>1 DEF Dated
  <2>4. QED
    BY <2>2, <2>3
<1>6. ASSUME NEW k \in Kinds, Working(k)'
      PROVE  /\ KindOf[worker[k].key] = k
             /\ Dated(worker[k].key, worker[k].obj)'
             /\ Staged(worker[k])
             /\ Copied(worker[k])'
  <2>1. Working(k)
    BY <1>2, <1>6 DEF Working
  <2>2. /\ KindOf[worker[k].key] = k /\ Dated(worker[k].key, worker[k].obj)
        /\ Staged(worker[k]) /\ Copied(worker[k])
    BY <2>1 DEF BackendInv
  <2>3. worker[k].key \in Backends /\ worker[k].obj \in Object
    BY <2>1, WorkerFacts DEF BackendInv
  <2>4. Dated(worker[k].key, worker[k].obj)'
    BY <1>2, <1>3, <2>2, <2>3 DEF Stored, Dated
  <2>5. worker[k].obj # o
    BY <1>2, <2>2, <2>3, ObjectFacts DEF Dated, Edited
  <2>6. api'[worker[k].key] = worker[k].obj => api[worker[k].key] = worker[k].obj
    BY <2>3, <2>5 DEF Edited, BackendInv, BackendTypeOK
  <2>7. Copied(worker[k])'
    BY <1>2, <2>2, <2>6 DEF Copied, SameSpec
  <2>8. QED
    BY <2>2, <2>4, <2>7
<1>7. QED
  BY <1>1, <1>2, <1>5, <1>6 DEF BackendInv, Staged, isBackendDeleted

-----------------------------------------------------------------------------
(* A step of the worker k: it concerns the object that the worker is at,   *)
(* whose spec the worker keeps; the worker goes on or becomes idle.        *)
OwnStep(k) ==
  LET b == worker[k].key
      w == worker'[k]
  IN
  /\ Working(k)
  /\ api' \in [Backends -> Stored] /\ cache' = cache
  /\ \A c \in Backends \ {b} : api'[c] = api[c]
  /\ \/ api'[b] = api[b]
     \/ api'[b] = Absent
     \/ api[b] # Absent /\ SameSpec(api'[b], api[b]) /\ (api[b].finalizer => api'[b].finalizer)
  /\ queue \subseteq queue' /\ queue' \subseteq queue \cup {b}
  /\ used'.edits = used.edits
  /\ used' \in Counts /\ UNCHANGED <<had, left>>
  /\ \A j \in Kinds \ {k} : worker'[j] = worker[j]
  /\ worker' \in [Kinds -> Busy \cup {Idle}]
  /\ \/ w = Idle
     \/ /\ w \in Busy /\ w.pc # "config"
        /\ w.key = b /\ SameSpec(w.obj, worker[k].obj)
        /\ worker[k].obj.finalizer => w.obj.finalizer
        /\ Staged(w)

(* Two workers are at different objects.                                   *)
LEMMA OneWorkerEach ==
  ASSUME BackendInv, NEW j \in Kinds, NEW k \in Kinds, j # k, Working(j), Working(k)
  PROVE  worker[j].key # worker[k].key
BY DEF BackendInv

LEMMA OwnStepKeeps ==
  ASSUME BackendInv, NEW k \in Kinds, OwnStep(k)
  PROVE  BackendInv'
<1> DEFINE b == worker[k].key
<1>1. /\ Working(k) /\ b \in Backends /\ worker[k].obj \in Object /\ KindOf[b] = k
      /\ Dated(b, worker[k].obj) /\ Staged(worker[k]) /\ Copied(worker[k])
  BY WorkerFacts DEF OwnStep, BackendInv
<1>2. /\ used'.edits = used.edits /\ cache' = cache /\ had' = had
      /\ \A j \in Kinds \ {k} : worker'[j] = worker[j]
      /\ \A c \in Backends \ {b} : api'[c] = api[c]
      /\ queue \subseteq queue' /\ queue' \subseteq queue \cup {b}
  BY DEF OwnStep
<1>3. BackendTypeOK'
  BY <1>1, <1>2 DEF BackendInv, BackendTypeOK, OwnStep
<1>4. ASSUME NEW c, NEW x PROVE Dated(c, x)' <=> Dated(c, x)
  BY <1>2 DEF Dated, isBackendDeleted
<1>5. Dated(b, api'[b])
  <2>1. Dated(b, api[b])
    BY <1>1 DEF BackendInv
  <2>2. CASE api'[b] = api[b]
    BY <2>1, <2>2
  <2>3. CASE api'[b] = Absent
    BY <2>3 DEF Dated
  <2>4. CASE api[b] # Absent /\ SameSpec(api'[b], api[b]) /\ (api[b].finalizer => api'[b].finalizer)
    BY <2>1, <2>4 DEF Dated, SameSpec, isBackendDeleted
  <2>5. QED
    BY <2>2, <2>3, <2>4 DEF OwnStep
<1>6. ASSUME NEW c \in Backends PROVE Dated(c, api[c])' /\ Dated(c, cache[c])'
  <2>1. Dated(c, api[c]) /\ Dated(c, cache[c])
    BY DEF BackendInv
  <2>2. Dated(c, api'[c])
    BY <1>2, <1>5, <2>1
  <2>3. QED
    BY <1>2, <2>1, <2>2 DEF Dated, isBackendDeleted
<1>7. ASSUME NEW j \in Kinds \ {k}, Working(j)'
      PROVE  /\ KindOf[worker[j].key] = j
             /\ Dated(worker[j].key, worker[j].obj)
             /\ Staged(worker[j])
             /\ Copied(worker[j])'
             /\ worker'[j] = worker[j]
  <2>1. Working(j) /\ worker'[j] = worker[j]
    BY <1>2, <1>7 DEF Working
  <2>2. /\ KindOf[worker[j].key] = j /\ Dated(worker[j].key, worker[j].obj)
        /\ Staged(worker[j]) /\ Copied(worker[j])
    BY <2>1 DEF BackendInv
  <2>3. worker[j].key # b /\ worker[j].key \in Backends
    BY <1>1, <2>1, OneWorkerEach, WorkerFacts DEF BackendInv
  <2>4. Copied(worker[j])'
    BY <1>2, <2>1, <2>2, <2>3 DEF Copied, SameSpec
  <2>5. QED
    BY <2>1, <2>2, <2>4
<1>8. ASSUME Working(k)'
      PROVE  /\ KindOf[worker'[k].key] = k
             /\ Dated(worker'[k].key, worker'[k].obj)
             /\ Staged(worker'[k])
             /\ Copied(worker[k])'
  <2>1. worker'[k] # Idle
    BY <1>8 DEF Working, Idle
  <2>2. /\ worker'[k] \in Busy /\ worker'[k].pc # "config"
        /\ worker'[k].key = b /\ SameSpec(worker'[k].obj, worker[k].obj)
        /\ worker[k].obj.finalizer => worker'[k].obj.finalizer
        /\ Staged(worker'[k])
    BY <2>1 DEF OwnStep
  <2>3. worker[k].obj # Absent
    BY <1>1, ObjectFacts
  <2>4. Dated(b, worker'[k].obj)
    BY <1>1, <2>2, <2>3 DEF Dated, SameSpec, isBackendDeleted
  <2>5. Copied(worker[k])'
    BY <1>1, <1>2, <2>2 DEF Copied, SameSpec
  <2>6. QED
    BY <1>1, <2>2, <2>4, <2>5
<1>9. QED
  <2>1. ASSUME NEW j \in Kinds, Working(j)'
        PROVE  /\ KindOf[worker'[j].key] = j
               /\ Dated(worker[j].key, worker[j].obj)'
               /\ Staged(worker[j])'
               /\ Copied(worker[j])'
    <3>1. CASE j = k
      BY <1>2, <1>8, <2>1, <3>1 DEF Dated, Staged, isBackendDeleted
    <3>2. CASE j # k
      BY <1>2, <1>7, <2>1, <3>2 DEF Dated, Staged, isBackendDeleted
    <3>3. QED
      BY <3>1, <3>2
  <2>2. QED
    BY <1>3, <1>6, <2>1 DEF BackendInv

-----------------------------------------------------------------------------
(* Every handler is such a step.                                           *)

\* The worker k goes to pc with the copy obj, and with cond.
Turn(k, pc, obj, cond) ==
  /\ worker' \in [Kinds -> Busy \cup {Idle}]
  /\ \A j \in Kinds \ {k} : worker'[j] = worker[j]
  /\ worker'[k] \in Busy
  /\ worker'[k].pc = pc /\ worker'[k].key = worker[k].key
  /\ worker'[k].obj = obj /\ worker'[k].cond = cond

LEMMA GotoTurns ==
  ASSUME BackendTypeOK, NEW k \in Kinds, Working(k), NEW pc \in Places, Goto(k, pc)
  PROVE  Turn(k, pc, worker[k].obj, worker[k].cond)
<1>1. worker[k] \in Busy /\ worker \in [Kinds -> Busy \cup {Idle}]
  BY WorkerFacts DEF BackendTypeOK
<1>2. worker' = [worker EXCEPT ![k].pc = pc]
  BY DEF Goto
<1>3. worker'[k] \in Busy
  BY <1>1, <1>2 DEF Busy
<1>4. QED
  BY <1>1, <1>2, <1>3 DEF Turn, Busy

LEMMA CondTurns ==
  ASSUME BackendTypeOK, NEW k \in Kinds, Working(k), NEW pc \in Places, NEW cond \in Conds,
         worker' = [worker EXCEPT ![k].pc = pc, ![k].cond = cond]
  PROVE  Turn(k, pc, worker[k].obj, cond)
<1>1. worker[k] \in Busy /\ worker \in [Kinds -> Busy \cup {Idle}]
  BY WorkerFacts DEF BackendTypeOK
<1>2. worker'[k] = [pc |-> pc, key |-> worker[k].key, obj |-> worker[k].obj, cond |-> cond]
  BY <1>1 DEF Busy
<1>3. /\ worker'[k].pc = pc /\ worker'[k].key = worker[k].key
      /\ worker'[k].obj = worker[k].obj /\ worker'[k].cond = cond
  BY <1>2
<1>4. worker'[k] \in Busy
  BY <1>1, <1>2 DEF Busy
<1>5. worker' \in [Kinds -> Busy \cup {Idle}]
  BY <1>1, <1>4
<1>6. \A j \in Kinds \ {k} : worker'[j] = worker[j]
  BY <1>1
<1>7. QED
  BY <1>3, <1>4, <1>5, <1>6 DEF Turn

LEMMA FailTurns ==
  ASSUME BackendTypeOK, NEW k \in Kinds, Working(k), NEW cond \in Conds, Fail(k, cond)
  PROVE  Turn(k, "status", worker[k].obj, cond)
<1>1. "status" \in Places
  BY DEF Places
<1>2. QED
  BY <1>1, CondTurns DEF Fail

LEMMA CallErrorCounts ==
  ASSUME BackendTypeOK, NEW call, CallError(call)
  PROVE  /\ used'.edits = used.edits
         /\ used' \in Counts
<1>1. used \in Counts /\ used.errors < MaxErrors
  BY DEF BackendTypeOK, CallError
<1>2. \E n \in Nat : used' = [edits |-> used.edits, errors |-> used.errors + 1,
                            restarts |-> used.restarts, lostDeletes |-> n]
  <2>1. used' = [edits |-> used.edits, errors |-> used.errors + 1, restarts |-> used.restarts,
                 lostDeletes |-> IF call = "finalDelete" THEN used.lostDeletes + 1
                                 ELSE used.lostDeletes]
    BY <1>1 DEF CallError, Counts
  <2>2. (IF call = "finalDelete" THEN used.lostDeletes + 1 ELSE used.lostDeletes) \in Nat
    BY <1>1 DEF Counts
  <2>3. QED
    BY <2>1, <2>2
<1>3. QED
  BY <1>1, <1>2, ControllerAssumption DEF Counts

(* A turn that leaves the API server, the cache and the queue alone.       *)
LEMMA QuietStep ==
  ASSUME BackendInv, NEW k \in Kinds, Working(k), UNCHANGED <<api, cache, queue, had, left>>,
         used' = used \/ \E call : CallError(call),
         NEW pc \in Places \ {"config"}, NEW cond \in Conds,
         Turn(k, pc, worker[k].obj, cond),
         Staged([pc |-> pc, key |-> worker[k].key, obj |-> worker[k].obj, cond |-> cond])
  PROVE  OwnStep(k)
<1> DEFINE s == [pc |-> pc, key |-> worker[k].key, obj |-> worker[k].obj, cond |-> cond]
<1>1. BackendTypeOK /\ worker[k].obj \in Object
  BY WorkerFacts DEF BackendInv
<1>2. /\ used'.edits = used.edits
      /\ used' \in Counts
  BY <1>1, CallErrorCounts DEF BackendTypeOK
<1>3. s.pc = pc /\ s.obj = worker[k].obj /\ s.cond = cond
  OBVIOUS
<1>4. Staged(s)
  OBVIOUS
<1> HIDE DEF s
<1>5. Staged(worker'[k])
  BY <1>3, <1>4 DEF Staged, Turn
<1>6. SameSpec(worker'[k].obj, worker[k].obj)
  BY <1>1, ObjectFacts DEF SameSpec, Turn
<1>7. api' \in [Backends -> Stored]
  BY <1>1 DEF BackendTypeOK
<1>8. QED
  BY <1>2, <1>5, <1>6, <1>7 DEF OwnStep, Turn

LEMMA ValidatorSteps ==
  ASSUME BackendInv, NEW k \in Kinds, reconcileValidator(k)
  PROVE  OwnStep(k)
<1>1. /\ BackendTypeOK /\ Working(k) /\ worker[k].pc = "validator"
      /\ UNCHANGED <<api, cache, queue, had, left>> /\ (used' = used \/ \E call : CallError(call))
  BY DEF BackendInv, reconcileValidator, At, Working
<1>2. /\ worker[k].cond = NoCond /\ ~isBackendDeleted(worker[k].obj) /\ worker[k].obj.finalizer
  BY <1>1 DEF BackendInv, Staged
<1>3. NoCond \in Conds /\ "validator" \in Conds /\ "cluster" \in Places \ {"config"}
      /\ "status" \in Places \ {"config"}
  BY DEF Conds, Handlers, Places
<1>4. CASE Goto(k, "cluster")
  BY <1>1, <1>2, <1>3, <1>4, GotoTurns, QuietStep DEF Staged
<1>5. CASE Fail(k, "validator")
  BY <1>1, <1>2, <1>3, <1>5, FailTurns, QuietStep DEF Staged
<1>6. QED
  BY <1>4, <1>5 DEF reconcileValidator

LEMMA ClusterSteps ==
  ASSUME BackendInv, NEW k \in Kinds, RegisterCluster(k)
  PROVE  OwnStep(k)
<1>1. /\ BackendTypeOK /\ Working(k) /\ worker[k].pc = "cluster"
      /\ UNCHANGED <<api, cache, queue, had, left>> /\ (used' = used \/ \E call : CallError(call))
  BY DEF BackendInv, RegisterCluster, At, Working
<1>2. /\ worker[k].cond = NoCond /\ ~isBackendDeleted(worker[k].obj) /\ worker[k].obj.finalizer
  BY <1>1 DEF BackendInv, Staged
<1>3. NoCond \in Conds /\ "register" \in Conds /\ "route" \in Places \ {"config"}
      /\ "status" \in Places \ {"config"}
  BY DEF Conds, Handlers, Places
<1>4. CASE Goto(k, "route")
  BY <1>1, <1>2, <1>3, <1>4, GotoTurns, QuietStep DEF Staged
<1>5. CASE Fail(k, "register")
  BY <1>1, <1>2, <1>3, <1>5, FailTurns, QuietStep DEF Staged
<1>6. CASE worker' = [worker EXCEPT ![k].pc = "route", ![k].cond = "register"]
  <2>1. Turn(k, "route", worker[k].obj, "register")
    BY <1>1, <1>3, <1>6, CondTurns
  <2>2. QED
    BY <1>1, <1>2, <1>3, <2>1, QuietStep DEF Staged
<1>7. QED
  BY <1>4, <1>5, <1>6 DEF RegisterCluster

LEMMA RouteSteps ==
  ASSUME BackendInv, NEW k \in Kinds, RegisterRoute(k)
  PROVE  OwnStep(k)
<1>1. /\ BackendTypeOK /\ Working(k) /\ worker[k].pc = "route"
      /\ UNCHANGED <<api, cache, queue, had, left>> /\ used' = used
      /\ worker[k].cond \in Conds
  BY WorkerFacts DEF BackendInv, RegisterRoute, At, Working
<1>2. ~isBackendDeleted(worker[k].obj) /\ worker[k].obj.finalizer
  BY <1>1 DEF BackendInv, Staged
<1>3. "rmCluster" \in Places \ {"config"} /\ "status" \in Places \ {"config"}
  BY DEF Places
<1>4. CASE worker[k].cond = NoCond
  <2>1. Turn(k, "status", worker[k].obj, worker[k].cond)
    BY <1>1, <1>3, <1>4, GotoTurns DEF RegisterRoute
  <2>2. QED
    BY <1>1, <1>2, <1>3, <2>1, QuietStep DEF Staged
<1>5. CASE worker[k].cond # NoCond
  <2>1. Turn(k, "rmCluster", worker[k].obj, worker[k].cond)
    BY <1>1, <1>3, <1>5, GotoTurns DEF RegisterRoute
  <2>2. QED
    BY <1>1, <1>2, <1>3, <1>5, <2>1, QuietStep DEF Staged
<1>6. QED
  BY <1>4, <1>5

LEMMA RemoveClusterSteps ==
  ASSUME BackendInv, NEW k \in Kinds, RemoveClusterStep(k)
  PROVE  OwnStep(k)
<1>1. /\ BackendTypeOK /\ Working(k) /\ worker[k].pc = "rmCluster"
      /\ UNCHANGED <<api, cache, queue, had, left>> /\ used' = used
      /\ worker[k].cond \in Conds /\ Goto(k, "rmRoute")
  BY WorkerFacts DEF BackendInv, RemoveClusterStep, At, Working
<1>2. /\ worker[k].cond = NoCond => isBackendDeleted(worker[k].obj)
      /\ worker[k].obj.finalizer
  BY <1>1 DEF BackendInv, Staged
<1>3. "rmRoute" \in Places \ {"config"}
  BY DEF Places
<1>4. Turn(k, "rmRoute", worker[k].obj, worker[k].cond)
  BY <1>1, <1>3, GotoTurns
<1>5. QED
  BY <1>1, <1>2, <1>3, <1>4, QuietStep DEF Staged

LEMMA RemoveRouteSteps ==
  ASSUME BackendInv, NEW k \in Kinds, RemoveRouteStep(k)
  PROVE  OwnStep(k)
<1>1. /\ BackendTypeOK /\ Working(k) /\ worker[k].pc = "rmRoute"
      /\ UNCHANGED <<api, cache, queue, had, left>> /\ used' = used
      /\ worker[k].cond \in Conds
  BY WorkerFacts DEF BackendInv, RemoveRouteStep, At, Working
<1>2. worker[k].obj.finalizer
  BY <1>1 DEF BackendInv, Staged
<1>3. "finalDelete" \in Places \ {"config"} /\ "status" \in Places \ {"config"}
  BY DEF Places
<1>4. CASE isBackendDeleted(worker[k].obj)
  <2>1. Turn(k, "finalDelete", worker[k].obj, worker[k].cond)
    BY <1>1, <1>3, <1>4, GotoTurns DEF RemoveRouteStep
  <2>2. QED
    BY <1>1, <1>2, <1>3, <1>4, <2>1, QuietStep DEF Staged
<1>5. CASE ~isBackendDeleted(worker[k].obj)
  <2>1. Turn(k, "status", worker[k].obj, worker[k].cond)
    BY <1>1, <1>3, <1>5, GotoTurns DEF RemoveRouteStep
  <2>2. QED
    BY <1>1, <1>2, <1>3, <2>1, QuietStep DEF Staged
<1>6. QED
  BY <1>4, <1>5

LEMMA ConfigSteps ==
  ASSUME BackendInv, NEW k \in Kinds, reconcileConfig(k)
  PROVE  OwnStep(k)
<1> DEFINE w == worker[k]
           next == IF isBackendDeleted(w.obj) THEN "rmCluster" ELSE "validator"
<1>1. /\ BackendTypeOK /\ Working(k) /\ w.pc = "config"
      /\ UNCHANGED <<cache, queue, had, left>>
  BY DEF BackendInv, reconcileConfig, At, Working
<1>2. w.cond = NoCond /\ w.key \in Backends /\ w.obj \in Object /\ w \in Busy
  BY <1>1, WorkerFacts DEF BackendInv, Staged
<1>3. /\ NoCond \in Conds /\ "config" \in Conds /\ next \in Places \ {"config"}
      /\ "status" \in Places \ {"config"}
  BY DEF Conds, Handlers, Places
<1>4. CASE w.obj.finalizer /\ Goto(k, next) /\ UNCHANGED <<api, used>>
  <2>1. Turn(k, next, w.obj, w.cond)
    BY <1>1, <1>3, <1>4, GotoTurns
  <2>2. Staged([pc |-> next, key |-> w.key, obj |-> w.obj, cond |-> w.cond])
    BY <1>2, <1>4 DEF Staged
  <2> HIDE DEF next
  <2>3. QED
    BY <1>1, <1>2, <1>3, <1>4, <2>1, <2>2, QuietStep
<1>5. CASE /\ ~w.obj.finalizer /\ api[w.key] = w.obj
           /\ api' = [api EXCEPT ![w.key].finalizer = TRUE]
           /\ worker' = [worker EXCEPT ![k].pc = next, ![k].obj.finalizer = TRUE]
           /\ UNCHANGED used
  <2> DEFINE o == [w.obj EXCEPT !.finalizer = TRUE]
  <2>1. /\ o \in Object /\ o.finalizer = TRUE /\ o.model = w.obj.model /\ o.gen = w.obj.gen
        /\ o.deletedAt = w.obj.deletedAt
    BY <1>2 DEF Object
  <2>2. worker \in [Kinds -> Busy \cup {Idle}] /\ api \in [Backends -> Stored]
    BY <1>1 DEF BackendTypeOK
  <2>3. worker'[k] = [pc |-> next, key |-> w.key, obj |-> o, cond |-> w.cond]
    BY <1>2, <1>5, <2>2 DEF Busy
  <2>4. api'[w.key] = o /\ \A c \in Backends \ {w.key} : api'[c] = api[c]
    BY <1>2, <1>5, <2>2
  <2>5. api' \in [Backends -> Stored]
    <3> HIDE DEF o
    <3>1. o \in Stored
      BY <2>1 DEF Stored
    <3>2. api' = [api EXCEPT ![w.key] = o]
      BY <1>5 DEF o
    <3>3. QED
      BY <2>2, <3>1, <3>2
  <2> HIDE DEF o
  <2>6. o # Absent /\ w.obj # Absent
    BY <1>2, <2>1, ObjectFacts
  <2>7. /\ SameSpec(o, w.obj) /\ SameSpec(api'[w.key], api[w.key])
        /\ isBackendDeleted(o) <=> isBackendDeleted(w.obj)
    BY <1>5, <2>1, <2>4, <2>6 DEF SameSpec, isBackendDeleted
  <2>8. worker'[k] \in Busy
    <3> HIDE DEF next
    <3>1. QED
      BY <1>2, <1>3, <2>1, <2>3 DEF Busy
  <2>9. worker' \in [Kinds -> Busy \cup {Idle}] /\ \A j \in Kinds \ {k} : worker'[j] = worker[j]
    BY <1>5, <2>2, <2>8
  <2>10. /\ worker'[k].pc = next /\ worker'[k].key = w.key /\ worker'[k].obj = o
         /\ worker'[k].cond = w.cond
    BY <2>3
  <2>11. Staged(worker'[k])
    BY <1>2, <2>1, <2>7, <2>10 DEF Staged
  <2>12. /\ used'.edits = used.edits
         /\ used' \in Counts
    BY <1>1, <1>5 DEF BackendTypeOK
  <2>13. worker'[k].obj.finalizer /\ worker'[k].pc # "config" /\ api'[w.key].finalizer
    BY <2>1, <2>4, <2>10
  <2> HIDE DEF next
  <2>14. QED
    BY <1>1, <1>5, <2>4, <2>5, <2>6, <2>7, <2>8, <2>9, <2>10, <2>11, <2>12, <2>13 DEF OwnStep
<1>6. CASE /\ ~w.obj.finalizer /\ Fail(k, "config") /\ UNCHANGED api
           /\ used' = used \/ CallError("config")
  <2>1. Turn(k, "status", w.obj, "config")
    BY <1>1, <1>3, <1>6, FailTurns
  <2>2. Staged([pc |-> "status", key |-> w.key, obj |-> w.obj, cond |-> "config"])
    BY DEF Staged
  <2>3. QED
    BY <1>1, <1>3, <1>6, <2>1, <2>2, QuietStep
<1>7. QED
  BY <1>4, <1>5, <1>6 DEF reconcileConfig

LEMMA FinalDeleteSteps ==
  ASSUME BackendInv, NEW k \in Kinds, reconcileFinalDelete(k)
  PROVE  OwnStep(k)
<1> DEFINE w == worker[k]
<1>1. /\ BackendTypeOK /\ Working(k) /\ w.pc = "finalDelete"
      /\ UNCHANGED <<cache, queue, had, left>>
  BY DEF BackendInv, reconcileFinalDelete, At, Working
<1>2. w.key \in Backends /\ w.obj \in Object /\ w.cond \in Conds
  BY <1>1, WorkerFacts DEF BackendInv
<1>3. /\ \A c \in {NoCond, "finalDelete", "finalDeleteConflict"} : c \in Conds
      /\ "status" \in Places \ {"config"}
  BY DEF Conds, Handlers, Places
<1>4. \A c : Staged([pc |-> "status", key |-> w.key, obj |-> w.obj, cond |-> c])
  BY DEF Staged
<1>5. CASE /\ api[w.key] = w.obj /\ api' = [api EXCEPT ![w.key] = Absent]
           /\ Goto(k, "status") /\ UNCHANGED used
  <2>1. Turn(k, "status", w.obj, w.cond)
    BY <1>1, <1>3, <1>5, GotoTurns
  <2>2. /\ api' \in [Backends -> Stored] /\ api'[w.key] = Absent
        /\ \A c \in Backends \ {w.key} : api'[c] = api[c]
    BY <1>1, <1>2, <1>5 DEF BackendTypeOK, Stored
  <2>3. /\ used'.edits = used.edits
        /\ used' \in Counts
    BY <1>1, <1>5 DEF BackendTypeOK
  <2>4. SameSpec(worker'[k].obj, w.obj)
    BY <1>2, <2>1, ObjectFacts DEF SameSpec, Turn
  <2>5. Staged(worker'[k])
    BY <2>1 DEF Staged, Turn
  <2>6. QED
    BY <1>1, <2>1, <2>2, <2>3, <2>4, <2>5 DEF OwnStep, Turn
<1>6. CASE /\ UNCHANGED api /\ (used' = used \/ CallError("finalDelete"))
           /\ \E c \in {NoCond, "finalDelete", "finalDeleteConflict"} : Fail(k, c)
  <2>1. PICK c \in {NoCond, "finalDelete", "finalDeleteConflict"} : Fail(k, c)
    BY <1>6
  <2>2. Turn(k, "status", w.obj, c)
    BY <1>1, <1>3, <2>1, FailTurns
  <2>3. QED
    BY <1>1, <1>3, <1>4, <1>6, <2>2, QuietStep
<1>7. QED
  BY <1>5, <1>6 DEF reconcileFinalDelete

LEMMA StatusIsTyped ==
  ASSUME NEW cond \in Conds, NEW deleting \in BOOLEAN
  PROVE  StatusOf(cond, deleting) \in Status
BY DEF StatusOf, Status, Conds

LEMMA StatusSteps ==
  ASSUME BackendInv, NEW k \in Kinds, UpdateStatus(k)
  PROVE  OwnStep(k)
<1> DEFINE w == worker[k]
           status == StatusOf(w.cond, isBackendDeleted(w.obj))
<1>1. /\ BackendTypeOK /\ Working(k) /\ w.pc = "status"
      /\ UNCHANGED <<cache, had, left>>
      /\ worker' = [worker EXCEPT ![k] = Idle]
  BY DEF BackendInv, UpdateStatus, At, Working
<1>2. w.key \in Backends /\ w.obj \in Object /\ w.cond \in Conds
  BY <1>1, WorkerFacts DEF BackendInv
<1>3. /\ worker' \in [Kinds -> Busy \cup {Idle}] /\ worker'[k] = Idle
      /\ \A j \in Kinds \ {k} : worker'[j] = worker[j]
  BY <1>1 DEF BackendTypeOK
<1>4. queue \subseteq queue' /\ queue' \subseteq queue \cup {w.key}
  BY DEF UpdateStatus
<1>5. /\ used'.edits = used.edits
      /\ used' \in Counts
  <2>1. used' = used \/ CallError("status")
    BY DEF UpdateStatus
  <2>2. QED
    BY <1>1, <2>1, CallErrorCounts DEF BackendTypeOK
<1>6. CASE UNCHANGED api
  BY <1>1, <1>3, <1>4, <1>5, <1>6 DEF OwnStep, BackendTypeOK
<1>7. CASE /\ cache[w.key] # Absent /\ api[w.key] = cache[w.key]
           /\ api' = [api EXCEPT ![w.key].status = status]
  <2> DEFINE a == api[w.key]
             o == [a EXCEPT !.status = status]
  <2>1. isBackendDeleted(w.obj) \in BOOLEAN
    BY <1>2, ObjectFacts DEF isBackendDeleted
  <2>2. status \in Status
    BY <1>2, <2>1, StatusIsTyped
  <2>3. api \in [Backends -> Stored] /\ a \in Object /\ a # Absent
    BY <1>1, <1>2, <1>7 DEF BackendTypeOK, Stored
  <2>4. api' = [api EXCEPT ![w.key] = o]
    BY <1>7
  <2> HIDE DEF status, a
  <2>5. /\ o \in Object /\ o.model = a.model /\ o.gen = a.gen /\ o.deletedAt = a.deletedAt
        /\ o.finalizer = a.finalizer
    BY <2>2, <2>3 DEF Object
  <2> HIDE DEF o
  <2>6. SameSpec(o, a) /\ o \in Stored
    BY <2>5, ObjectFacts DEF SameSpec, Stored
  <2>7. /\ api' \in [Backends -> Stored] /\ api'[w.key] = o
        /\ \A c \in Backends \ {w.key} : api'[c] = api[c]
    BY <1>2, <2>3, <2>4, <2>6
  <2>8. a.finalizer => o.finalizer
    BY <2>5
  <2>9. QED
    BY <1>1, <1>3, <1>4, <1>5, <2>3, <2>6, <2>7, <2>8 DEF OwnStep, a
<1>8. QED
  BY <1>6, <1>7 DEF UpdateStatus

LEMMA StepIsOwn ==
  ASSUME BackendInv, NEW k \in Kinds, Step(k)
  PROVE  OwnStep(k)
BY ConfigSteps, ValidatorSteps, ClusterSteps, RouteSteps, RemoveClusterSteps, RemoveRouteSteps,
   FinalDeleteSteps, StatusSteps DEF Step

-----------------------------------------------------------------------------
(* The steps of the watch, the workqueue, the clock and the process.       *)

LEMMA DeliverKeeps ==
  ASSUME BackendInv, NEW b \in Backends, Deliver(b)
  PROVE  BackendInv'
<1>1. /\ cache' = [cache EXCEPT ![b] = api[b]] /\ queue' = queue \cup {b}
      /\ UNCHANGED <<api, worker, used, had, left>>
  BY DEF Deliver
<1>2. BackendTypeOK'
  BY <1>1 DEF BackendInv, BackendTypeOK
<1>3. ASSUME NEW c \in Backends PROVE Dated(c, api[c])' /\ Dated(c, cache[c])'
  <2>1. cache'[c] = cache[c] \/ cache'[c] = api[c]
    <3>1. cache \in [Backends -> Stored]
      BY DEF BackendInv, BackendTypeOK
    <3>2. CASE c = b
      BY <1>1, <3>1, <3>2
    <3>3. CASE c # b
      BY <1>1, <3>1, <3>3
    <3>4. QED
      BY <3>2, <3>3
  <2>2. QED
    BY <1>1, <2>1 DEF BackendInv, Dated, isBackendDeleted
<1>4. ASSUME NEW k \in Kinds, Working(k)'
      PROVE  /\ KindOf[worker[k].key] = k /\ Dated(worker[k].key, worker[k].obj)
             /\ Staged(worker[k]) /\ Copied(worker[k])'
  <2>1. Working(k)
    BY <1>1, <1>4 DEF Working
  <2>2. /\ KindOf[worker[k].key] = k /\ Dated(worker[k].key, worker[k].obj)
        /\ Staged(worker[k]) /\ Copied(worker[k])
    BY <2>1 DEF BackendInv
  <2>3. worker[k].key \in Backends
    BY <2>1, WorkerFacts DEF BackendInv
  <2>4. CASE worker[k].key = b
    BY <1>1, <2>2, <2>4 DEF Copied, BackendInv, BackendTypeOK
  <2>5. CASE worker[k].key # b
    BY <1>1, <2>2, <2>3, <2>5 DEF Copied, SameSpec, BackendInv, BackendTypeOK
  <2>6. QED
    BY <2>2, <2>4, <2>5
<1>5. QED
  BY <1>1, <1>2, <1>3, <1>4 DEF BackendInv, Dated, Staged, isBackendDeleted

(* The worker takes an object of the queue, or drops one that is gone.     *)
LEMMA BeginFacts ==
  ASSUME BackendInv, NEW b \in Backends, Begin(b)
  PROVE  /\ UNCHANGED <<api, cache, used, had, left, registryVars>> /\ queue' = queue \ {b} /\ b \in queue
         /\ ~Working(KindOf[b]) /\ KindOf[b] \in Kinds
         /\ cache[b] = Absent => worker' = worker
         /\ cache[b] # Absent =>
              /\ cache[b] \in Object
              /\ worker' \in [Kinds -> Busy \cup {Idle}]
              /\ \A j \in Kinds \ {KindOf[b]} : worker'[j] = worker[j]
              /\ worker'[KindOf[b]] \in Busy
              /\ worker'[KindOf[b]] =
                   [pc |-> "config", key |-> b, obj |-> cache[b], cond |-> NoCond]
<1> DEFINE k == KindOf[b]
           s == [pc |-> "config", key |-> b, obj |-> cache[b], cond |-> NoCond]
<1>1. k \in Kinds
  BY ControllerAssumption
<1>2. /\ UNCHANGED <<api, cache, used, had, left, registryVars>> /\ queue' = queue \ {b} /\ b \in queue
      /\ ~Working(k)
      /\ cache[b] = Absent => worker' = worker
      /\ cache[b] # Absent => worker' = [worker EXCEPT ![k] = s]
  BY DEF Begin, At, Working
<1>3. worker \in [Kinds -> Busy \cup {Idle}] /\ cache[b] \in Object \cup {Absent}
  BY DEF BackendInv, BackendTypeOK, Stored
<1>4. cache[b] # Absent => s \in Busy
  <2>1. "config" \in Places /\ NoCond \in Conds
    BY DEF Places, Conds
  <2>2. QED
    BY <1>3, <2>1 DEF Busy
<1> HIDE DEF s
<1>5. cache[b] # Absent =>
        /\ worker' \in [Kinds -> Busy \cup {Idle}]
        /\ \A j \in Kinds \ {k} : worker'[j] = worker[j]
        /\ worker'[k] \in Busy /\ worker'[k] = s
  BY <1>1, <1>2, <1>3, <1>4
<1>6. QED
  BY <1>1, <1>2, <1>3, <1>5 DEF s

LEMMA BeginKeeps ==
  ASSUME BackendInv, NEW b \in Backends, Begin(b)
  PROVE  BackendInv'
<1> DEFINE k == KindOf[b]
<1>1. /\ UNCHANGED <<api, cache, used, had, left>> /\ queue' = queue \ {b}
      /\ ~Working(k) /\ k \in Kinds
  BY BeginFacts
<1>2. ASSUME NEW c \in Backends PROVE Dated(c, api[c])' /\ Dated(c, cache[c])'
  BY <1>1 DEF BackendInv, Dated, isBackendDeleted
<1>3. ASSUME NEW j \in Kinds, Working(j), worker'[j] = worker[j]
      PROVE  /\ KindOf[worker[j].key] = j /\ Dated(worker[j].key, worker[j].obj)
             /\ Staged(worker[j]) /\ Copied(worker[j])'
  <2>1. /\ KindOf[worker[j].key] = j /\ Dated(worker[j].key, worker[j].obj)
        /\ Staged(worker[j]) /\ Copied(worker[j])
    BY <1>3 DEF BackendInv
  <2>2. worker[j].key # b
    BY <1>1, <1>3, <2>1
  <2>3. QED
    BY <1>1, <1>3, <2>1, <2>2 DEF Copied, SameSpec
<1>4. CASE cache[b] = Absent
  <2>1. worker' = worker
    BY <1>4, BeginFacts
  <2>2. BackendTypeOK'
    BY <1>1, <2>1 DEF BackendInv, BackendTypeOK
  <2>3. ASSUME NEW j \in Kinds, Working(j)'
        PROVE  /\ KindOf[worker[j].key] = j /\ Dated(worker[j].key, worker[j].obj)
               /\ Staged(worker[j]) /\ Copied(worker[j])'
    BY <1>3, <2>1, <2>3 DEF Working
  <2>4. QED
    BY <1>1, <1>2, <2>1, <2>2, <2>3 DEF BackendInv, Dated, Staged, isBackendDeleted
<1>5. CASE cache[b] # Absent
  <2>1. /\ cache[b] \in Object
        /\ worker' \in [Kinds -> Busy \cup {Idle}]
        /\ \A j \in Kinds \ {k} : worker'[j] = worker[j]
        /\ worker'[k] = [pc |-> "config", key |-> b, obj |-> cache[b], cond |-> NoCond]
    BY <1>5, BeginFacts
  <2>2. /\ worker'[k].pc = "config" /\ worker'[k].key = b /\ worker'[k].obj = cache[b]
        /\ worker'[k].cond = NoCond
    BY <2>1
  <2>3. BackendTypeOK'
    BY <1>1, <2>1 DEF BackendInv, BackendTypeOK
  <2>4. /\ KindOf[worker'[k].key] = k /\ Dated(worker'[k].key, worker'[k].obj)
        /\ Staged(worker'[k]) /\ Copied(worker[k])'
    <3>1. Dated(b, cache[b])
      BY DEF BackendInv
    <3>2. Staged(worker'[k])
      BY <2>2 DEF Staged
    <3>3. Copied(worker[k])'
      BY <1>1, <1>5, <2>2 DEF Copied, SameSpec
    <3>4. QED
      BY <2>2, <3>1, <3>2, <3>3
  <2>5. ASSUME NEW j \in Kinds, Working(j)'
        PROVE  /\ KindOf[worker'[j].key] = j /\ Dated(worker'[j].key, worker'[j].obj)
               /\ Staged(worker'[j]) /\ Copied(worker[j])'
    <3>1. CASE j = k
      BY <2>4, <3>1
    <3>2. CASE j # k
      <4>1. worker'[j] = worker[j] /\ Working(j)
        BY <2>1, <2>5, <3>2 DEF Working
      <4>2. QED
        BY <1>3, <4>1
    <3>3. QED
      BY <3>1, <3>2
  <2>6. ASSUME NEW j \in Kinds, Working(j)'
        PROVE  /\ (KindOf[worker[j].key] = j)' /\ Dated(worker[j].key, worker[j].obj)'
               /\ Staged(worker[j])' /\ Copied(worker[j])'
    BY <1>1, <2>5, <2>6 DEF Dated, Staged, isBackendDeleted
  <2>7. QED
    BY <1>2, <2>3, <2>6 DEF BackendInv
<1>6. QED
  BY <1>4, <1>5

LEMMA RestartKeeps ==
  ASSUME BackendInv, Restart
  PROVE  BackendInv'
<1>1. /\ cache' = api /\ api' = api /\ queue' = {b \in Backends : api[b] # Absent}
      /\ worker' = [k \in Kinds |-> Idle]
      /\ used.restarts < MaxRestarts /\ used' = [used EXCEPT !.restarts = @ + 1]
      /\ UNCHANGED <<had, left>>
  BY DEF Restart
<1>2. \A k \in Kinds : ~Working(k)'
  BY <1>1 DEF Working, Idle
<1>3. /\ used'.edits = used.edits
      /\ used' \in Counts
  BY <1>1, ControllerAssumption DEF BackendInv, BackendTypeOK, Counts
<1>4. BackendTypeOK'
  BY <1>1, <1>3 DEF BackendInv, BackendTypeOK
<1>5. ASSUME NEW c \in Backends PROVE Dated(c, api[c])' /\ Dated(c, cache[c])'
  BY <1>1, <1>3 DEF BackendInv, Dated, isBackendDeleted
<1>6. QED
  BY <1>2, <1>4, <1>5 DEF BackendInv

LEMMA GraceKeeps ==
  ASSUME BackendInv, UNCHANGED <<api, cache, queue, worker, used, had, left>>
  PROVE  BackendInv'
BY DEF BackendInv, BackendTypeOK, Dated, Working, Staged, Copied, SameSpec, isBackendDeleted

(* The inductive invariant of the controllers holds in every reachable     *)
(* state: types, the dates of the objects and their copies, and what the   *)
(* place of a worker says of the object it is at.                          *)
LEMMA BackendStarts == ControllerInit => BackendInv
<1> SUFFICES ASSUME ControllerInit PROVE BackendInv
  OBVIOUS
<1>1. /\ api = [b \in Backends |-> Absent] /\ cache = api /\ queue = {}
      /\ worker = [k \in Kinds |-> Idle]
      /\ used = [edits |-> 0, errors |-> 0, restarts |-> 0, lostDeletes |-> 0]
      /\ had = [b \in Backends |-> {}] /\ left = had
  BY DEF ControllerInit
<1>2. BackendTypeOK
  BY <1>1, ControllerAssumption DEF BackendTypeOK, Stored, Counts
<1>3. \A k \in Kinds : ~Working(k)
  BY <1>1 DEF Working, Idle
<1>4. \A b \in Backends : Dated(b, api[b]) /\ Dated(b, cache[b])
  BY <1>1 DEF Dated
<1>5. QED
  BY <1>2, <1>3, <1>4 DEF BackendInv

LEMMA BackendSteps ==
  BackendInv /\ [ControllerNext]_allVars => BackendInv'
<1> SUFFICES ASSUME BackendInv, [ControllerNext]_allVars PROVE BackendInv'
  OBVIOUS
<1>1. ASSUME NEW b \in Backends, Create(b) \/ EditSpec(b) \/ DeleteObject(b) PROVE BackendInv'
  <2>1. PICK o : Edited(b, o)
    BY <1>1, CreateEdits, EditSpecEdits, DeleteEdits
  <2>2. QED
    BY <2>1, EditedKeeps
<1>2. ASSUME NEW b \in Backends, Deliver(b) PROVE BackendInv'
  BY <1>2, DeliverKeeps
<1>3. ASSUME NEW b \in Backends, Begin(b) PROVE BackendInv'
  BY <1>3, BeginKeeps
<1>4. ASSUME NEW k \in Kinds, Step(k) PROVE BackendInv'
  BY <1>4, StepIsOwn, OwnStepKeeps
<1>5. CASE GraceEnds
  BY <1>5, GraceKeeps DEF GraceEnds
<1>6. CASE Restart
  BY <1>6, RestartKeeps
<1>7. CASE UNCHANGED allVars
  BY <1>7, GraceKeeps DEF allVars, controlVars
<1>8. QED
  BY <1>1, <1>2, <1>3, <1>4, <1>5, <1>6, <1>7 DEF ControllerNext

(* The inductive invariant of the controllers holds in every reachable     *)
(* state: types, the dates of the objects and their copies, and what the   *)
(* place of a worker says of the object it is at.                          *)
THEOREM BackendInvariant == ControllerSpec => []BackendInv
BY BackendStarts, BackendSteps, PTL DEF ControllerSpec

-----------------------------------------------------------------------------
(* NoOrphanCluster: the finalizer is in place as long as anything is       *)
(* registered, and what a copy shows agrees with that.                     *)

LEMMA EditedHeld ==
  ASSUME BackendInv, HeldInv, NEW b \in Backends, NEW o, Edited(b, o)
  PROVE  HeldInv'
<1>1. /\ api' = [api EXCEPT ![b] = o] /\ UNCHANGED <<cache, worker, clusters>>
      /\ Held(o) <=> Held(api[b])
      /\ api[b] # Absent /\ isBackendDeleted(api[b]) => Held(o) /\ isBackendDeleted(o)
      /\ api \in [Backends -> Stored] /\ BackendTypeOK
  BY DEF Edited, registryVars, BackendInv, BackendTypeOK
<1>2. /\ api'[b] = o /\ \A c \in Backends \ {b} : api'[c] = api[c]
      /\ \A c \in Backends : left[c] \subseteq left'[c]
      /\ o # Absent /\ api[b] # Absent => o.model = api[b].model \/ api[b].model \in left'[b]
  BY <1>1, EditedHistory
<1>3. ASSUME NEW c \in Backends
      PROVE  /\ \A x : Trails(x, api[c]) => Trails(x, api'[c])
             /\ \A x : Trails(x, api[c]) /\ NamedAs(c, x, api[c]) => NamedAs(c, x, api[c])'
             /\ \A m : Justified(c, m) => Justified(c, m)'
  <2>1. CASE c = b
    <3>1. \A x : Trails(x, api[b]) => Trails(x, o)
      BY <1>1 DEF Trails, Held
    <3>2. ASSUME NEW x, Trails(x, api[b]), NamedAs(b, x, api[b]), Held(x), ~isBackendDeleted(x)
          PROVE  x.model = o.model \/ x.model \in left'[b]
      BY <1>1, <1>2, <3>2 DEF Trails, Held, NamedAs
    <3>3. ASSUME NEW m, Justified(b, m)
          PROVE  m \in left'[b] \/ (Held(o) /\ o.model = m)
      BY <1>1, <1>2, <3>3 DEF Held, Justified, JustifiedAs
    <3>4. QED
      BY <1>2, <2>1, <3>1, <3>2, <3>3
      DEF NamedAs, Justified, JustifiedAs, Held, isBackendDeleted
  <2>2. CASE c # b
    <3>1. api'[c] = api[c] /\ left[c] \subseteq left'[c]
      BY <1>2, <2>2
    <3>2. QED
      BY <3>1 DEF NamedAs, Justified, JustifiedAs, Held, isBackendDeleted
  <2>3. QED
    BY <2>1, <2>2
<1>4. ASSUME NEW c \in Backends
      PROVE  Trails(cache[c], api'[c]) /\ NamedAs(c, cache[c], api[c])'
  <2>1. PICK x : x = cache[c]
    OBVIOUS
  <2>2. cache'[c] = x /\ Trails(x, api[c]) /\ NamedAs(c, x, api[c])
    BY <1>1, <2>1 DEF HeldInv, Named
  <2>3. Trails(x, api'[c]) /\ NamedAs(c, x, api[c])'
    BY <1>3, <2>2
  <2>4. QED
    BY <2>1, <2>2, <2>3 DEF NamedAs
<1>5. ASSUME NEW k \in Kinds, Working(k)
      PROVE  /\ Trails(worker[k].obj, api'[worker[k].key])
             /\ NamedAs(worker[k].key, worker[k].obj, api[worker[k].key])'
  <2>1. worker[k].key \in Backends
    BY <1>5, WorkerFacts DEF BackendInv
  <2>2. PICK c \in Backends, x \in {worker[k].obj} : x = worker[k].obj /\ c = worker[k].key
    BY <2>1
  <2>3. Trails(x, api[c]) /\ NamedAs(c, x, api[c])
    BY <1>5, <2>2 DEF HeldInv, Named
  <2>4. worker'[k].obj = x /\ worker'[k].key = c
    BY <1>1, <2>2
  <2>5. QED
    BY <1>3, <2>2, <2>3, <2>4
<1>6. ASSUME NEW m \in DOMAIN clusters
      PROVE  clusters[m].owner \in Backends /\ Justified(clusters[m].owner, m)'
  <2>1. PICK c \in Backends : c = clusters[m].owner
    BY DEF HeldInv
  <2>2. clusters'[m].owner = c
    BY <1>1, <2>1
  <2>3. Justified(c, m)'
    BY <1>3, <2>1 DEF HeldInv
  <2>4. QED
    BY <2>1, <2>2, <2>3
<1>7. QED
  BY <1>1, <1>4, <1>5, <1>6
  DEF HeldInv, Working, Registered, Trails, Held, isBackendDeleted, Named, Justified

LEMMA DeliverHeld ==
  ASSUME BackendInv, HeldInv, NEW b \in Backends, Deliver(b)
  PROVE  HeldInv'
<1>1. /\ cache' = [cache EXCEPT ![b] = api[b]] /\ UNCHANGED <<api, worker, clusters, left>>
      /\ cache \in [Backends -> Stored]
  BY DEF Deliver, registryVars, BackendInv, BackendTypeOK
<1>2. cache'[b] = api[b] /\ \A c \in Backends \ {b} : cache'[c] = cache[c]
  BY <1>1
<1>3. ASSUME NEW c \in Backends
      PROVE  Trails(cache'[c], api[c]) /\ NamedAs(c, cache'[c], api[c])
  <2>1. CASE c = b
    BY <1>2, <2>1 DEF Trails, Held, NamedAs
  <2>2. CASE c # b
    BY <1>2, <2>2 DEF HeldInv, Named
  <2>3. QED
    BY <2>1, <2>2
<1>4. ASSUME NEW k \in Kinds, Working(k)
      PROVE  isBackendDeleted(worker[k].obj) /\ Held(cache'[worker[k].key])
               => isBackendDeleted(cache'[worker[k].key])
  <2>1. worker[k].key \in Backends /\ worker[k].obj # Absent
    BY <1>4, WorkerFacts, ObjectFacts DEF BackendInv
  <2>2. CASE worker[k].key = b
    BY <1>2, <1>4, <2>1, <2>2 DEF HeldInv, Trails
  <2>3. CASE worker[k].key # b
    BY <1>2, <1>4, <2>1, <2>3 DEF HeldInv
  <2>4. QED
    BY <2>2, <2>3
<1>5. QED
  BY <1>1, <1>3, <1>4
  DEF HeldInv, Working, Registered, Trails, Held, isBackendDeleted, Named, NamedAs,
      Justified, JustifiedAs

LEMMA BeginHeld ==
  ASSUME BackendInv, HeldInv, NEW b \in Backends, Begin(b)
  PROVE  HeldInv'
<1> DEFINE k == KindOf[b]
<1>1. UNCHANGED <<api, cache, clusters, left>> /\ k \in Kinds
  BY BeginFacts DEF registryVars, Begin
<1>2. CASE cache[b] = Absent
  <2>1. worker' = worker
    BY <1>2, BeginFacts
  <2>2. QED
    BY <1>1, <2>1
    DEF HeldInv, Working, Registered, Trails, Held, isBackendDeleted, Named, NamedAs,
        Justified, JustifiedAs
<1>3. CASE cache[b] # Absent
  <2>1. /\ \A j \in Kinds \ {k} : worker'[j] = worker[j]
        /\ worker'[k] = [pc |-> "config", key |-> b, obj |-> cache[b], cond |-> NoCond]
    BY <1>3, BeginFacts
  <2>2. worker'[k].pc = "config" /\ worker'[k].key = b /\ worker'[k].obj = cache[b]
    BY <2>1
  <2>3. ASSUME NEW j \in Kinds, Working(j)'
        PROVE  /\ Trails(worker'[j].obj, api[worker'[j].key])
               /\ Named(worker'[j].key, worker'[j].obj)
               /\ isBackendDeleted(worker'[j].obj) /\ Held(cache[worker'[j].key])
                    => isBackendDeleted(cache[worker'[j].key])
               /\ worker'[j].pc \in {"rmRoute", "finalDelete"} /\ isBackendDeleted(worker'[j].obj)
                    => ~Registered(clusters, worker'[j].key, worker'[j].obj.model)
    <3>1. CASE j = k
      BY <2>2, <3>1 DEF HeldInv
    <3>2. CASE j # k
      <4>1. worker'[j] = worker[j] /\ Working(j)
        BY <2>1, <2>3, <3>2 DEF Working
      <4>2. QED
        BY <4>1 DEF HeldInv
    <3>3. QED
      BY <3>1, <3>2
  <2>4. QED
    BY <1>1, <2>3
    DEF HeldInv, Registered, Trails, Held, isBackendDeleted, Named, NamedAs, Justified, JustifiedAs
<1>4. QED
  BY <1>2, <1>3

LEMMA RestartHeld ==
  ASSUME BackendInv, HeldInv, Restart
  PROVE  HeldInv'
<1>1. cache' = api /\ api' = api /\ worker' = [k \in Kinds |-> Idle] /\ clusters' = <<>>
  BY DEF Restart
<1>2. \A k \in Kinds : ~Working(k)'
  BY <1>1 DEF Working, Idle
<1>3. \A b \in Backends : Trails(cache[b], api[b])' /\ Named(b, cache[b])'
  BY <1>1 DEF Trails, Held, isBackendDeleted, Named, NamedAs
<1>4. DOMAIN clusters' = {}
  BY <1>1
<1>5. QED
  BY <1>2, <1>3, <1>4 DEF HeldInv

-----------------------------------------------------------------------------
(* A step of a worker at b keeps HeldInv if the copies of b and what is    *)
(* registered for b stay right, and nothing is registered for others.      *)
Holds(k) ==
  LET b == worker[k].key IN
  /\ Trails(cache[b], api'[b]) /\ NamedAs(b, cache[b], api'[b])
  /\ Working(k)' => Trails(worker'[k].obj, api'[b]) /\ NamedAs(b, worker'[k].obj, api'[b])
  /\ Working(k)' /\ worker'[k].pc \in {"rmRoute", "finalDelete"} /\ isBackendDeleted(worker'[k].obj)
       => ~Registered(clusters', b, worker'[k].obj.model)
  /\ \A c \in Backends \ {b} : \A m : Registered(clusters', c, m) => Registered(clusters, c, m)
  /\ \A m \in DOMAIN clusters' :
       clusters'[m].owner \in Backends /\ JustifiedAs(clusters'[m].owner, m, api')

LEMMA OwnStepHolds ==
  ASSUME BackendInv, HeldInv, NEW k \in Kinds, OwnStep(k), Holds(k)
  PROVE  HeldInv'
<1> DEFINE b == worker[k].key
<1>1. /\ Working(k) /\ b \in Backends /\ cache' = cache
      /\ \A c \in Backends \ {b} : api'[c] = api[c]
      /\ \A j \in Kinds \ {k} : worker'[j] = worker[j]
      /\ left' = left
  BY WorkerFacts DEF OwnStep, BackendInv
<1>2. \A c \in Backends : Trails(cache[c], api'[c]) /\ NamedAs(c, cache[c], api'[c])
  BY <1>1 DEF HeldInv, Holds, Named, NamedAs
<1>3. ASSUME NEW j \in Kinds, Working(j)'
      PROVE  /\ Trails(worker'[j].obj, api'[worker'[j].key])
             /\ NamedAs(worker'[j].key, worker'[j].obj, api'[worker'[j].key])
             /\ isBackendDeleted(worker'[j].obj) /\ Held(cache[worker'[j].key])
                  => isBackendDeleted(cache[worker'[j].key])
             /\ worker'[j].pc \in {"rmRoute", "finalDelete"} /\ isBackendDeleted(worker'[j].obj)
                  => ~Registered(clusters', worker'[j].key, worker'[j].obj.model)
  <2>1. CASE j = k
    <3>1. worker'[k].key = b /\ SameSpec(worker'[k].obj, worker[k].obj)
      BY <1>3, <2>1 DEF OwnStep, Working, Idle
    <3>2. isBackendDeleted(worker'[k].obj) <=> isBackendDeleted(worker[k].obj)
      BY <3>1 DEF SameSpec, isBackendDeleted
    <3>3. isBackendDeleted(worker[k].obj) /\ Held(cache[b]) => isBackendDeleted(cache[b])
      BY <1>1 DEF HeldInv
    <3>4. QED
      BY <1>3, <2>1, <3>1, <3>2, <3>3 DEF Holds
  <2>2. CASE j # k
    <3>1. worker'[j] = worker[j] /\ Working(j)
      BY <1>1, <1>3, <2>2 DEF Working
    <3>2. worker[j].key # b /\ worker[j].key \in Backends
      BY <1>1, <2>2, <3>1, OneWorkerEach, WorkerFacts DEF BackendInv
    <3>3. \A m : Registered(clusters', worker[j].key, m) => Registered(clusters, worker[j].key, m)
      BY <1>1, <3>2 DEF Holds
    <3>4. api'[worker[j].key] = api[worker[j].key]
      BY <1>1, <3>2
    <3>5. QED
      BY <3>1, <3>2, <3>3, <3>4 DEF HeldInv, Named
  <2>3. QED
    BY <2>1, <2>2
<1>4. QED
  BY <1>1, <1>2, <1>3
  DEF HeldInv, Holds, Trails, Held, isBackendDeleted, Registered, Named, NamedAs,
      Justified, JustifiedAs

(* With the API server's objects and the clusters as they were.            *)
LEMMA NothingChangesHolds ==
  ASSUME BackendInv, HeldInv, NEW k \in Kinds, OwnStep(k), UNCHANGED <<api, clusters>>,
         Working(k)' => worker'[k].obj = worker[k].obj,
         Working(k)' /\ worker'[k].pc \in {"rmRoute", "finalDelete"}
           => worker[k].pc \in {"rmRoute", "finalDelete"}
  PROVE  Holds(k)
<1>1. Working(k) /\ worker[k].key \in Backends
  BY WorkerFacts DEF OwnStep, BackendInv
<1>2. QED
  BY <1>1 DEF Holds, HeldInv, Registered, Named, Justified, JustifiedAs

LEMMA ConfigHolds ==
  ASSUME BackendInv, HeldInv, NEW k \in Kinds, reconcileConfig(k)
  PROVE  Holds(k)
<1> DEFINE w == worker[k]
           next == IF isBackendDeleted(w.obj) THEN "rmCluster" ELSE "validator"
<1>1. OwnStep(k) /\ Working(k) /\ w.pc = "config" /\ clusters' = clusters
  BY ConfigSteps DEF reconcileConfig, At, Working, registryVars
<1>2. BackendTypeOK /\ w.key \in Backends /\ w.obj \in Object /\ w \in Busy /\ Copied(w)
  BY <1>1, WorkerFacts DEF BackendInv
<1>3. CASE Goto(k, next) /\ UNCHANGED api
  <2>1. next \in Places /\ next \notin {"rmRoute", "finalDelete"}
    BY DEF Places
  <2> HIDE DEF next
  <2>2. Turn(k, next, w.obj, w.cond)
    BY <1>1, <1>2, <1>3, <2>1, GotoTurns
  <2>3. QED
    BY <1>1, <1>3, <2>1, <2>2, NothingChangesHolds DEF Turn
<1>4. CASE Fail(k, "config") /\ UNCHANGED api
  <2>1. "config" \in Conds
    BY DEF Conds, Handlers
  <2>2. Turn(k, "status", w.obj, "config")
    BY <1>1, <1>2, <1>4, <2>1, FailTurns
  <2>3. QED
    BY <1>1, <1>4, <2>2, NothingChangesHolds DEF Turn
<1>5. CASE /\ ~w.obj.finalizer /\ api[w.key] = w.obj
           /\ api' = [api EXCEPT ![w.key].finalizer = TRUE]
           /\ worker' = [worker EXCEPT ![k].pc = next, ![k].obj.finalizer = TRUE]
  <2> DEFINE o == [w.obj EXCEPT !.finalizer = TRUE]
  <2>1. api \in [Backends -> Stored] /\ worker \in [Kinds -> Busy \cup {Idle}]
    BY <1>2 DEF BackendTypeOK
  <2>2. worker'[k].obj = o /\ worker'[k].pc = next
    BY <1>2, <1>5, <2>1 DEF Busy
  <2>3. api'[w.key] = o /\ \A c \in Backends \ {w.key} : api'[c] = api[c]
    BY <1>2, <1>5, <2>1
  <2>4. o \in Object /\ o.finalizer = TRUE /\ o.deletedAt = w.obj.deletedAt /\ o.model = w.obj.model
    BY <1>2 DEF Object
  <2> HIDE DEF o
  <2>5. Held(o) /\ (isBackendDeleted(o) <=> isBackendDeleted(w.obj))
    BY <2>4, ObjectFacts DEF Held, isBackendDeleted
  <2>6. Trails(w.obj, o) /\ Trails(o, o) /\ NamedAs(w.key, w.obj, o) /\ NamedAs(w.key, o, o)
    BY <2>4, <2>5 DEF Trails, NamedAs
  <2>7. cache[w.key] = w.obj
    BY <1>1, <1>2, <1>5 DEF Copied
  <2>8. ASSUME NEW m \in DOMAIN clusters PROVE JustifiedAs(clusters[m].owner, m, api')
    BY <1>5, <2>3, <2>4, <2>5 DEF HeldInv, Justified, JustifiedAs
  <2>9. next \notin {"rmRoute", "finalDelete"}
    OBVIOUS
  <2>10. QED
    BY <1>1, <2>2, <2>3, <2>6, <2>7, <2>8, <2>9 DEF Holds, HeldInv
<1>6. QED
  BY <1>3, <1>4, <1>5 DEF reconcileConfig

LEMMA ValidatorHolds ==
  ASSUME BackendInv, HeldInv, NEW k \in Kinds, reconcileValidator(k)
  PROVE  Holds(k)
<1>1. /\ OwnStep(k) /\ Working(k) /\ BackendTypeOK /\ UNCHANGED <<api, clusters>>
      /\ Goto(k, "cluster") \/ Fail(k, "validator")
  BY ValidatorSteps DEF reconcileValidator, At, Working, registryVars, BackendInv
<1>2. "cluster" \in Places /\ "validator" \in Conds
  BY DEF Places, Conds, Handlers
<1>3. \/ Turn(k, "cluster", worker[k].obj, worker[k].cond)
      \/ Turn(k, "status", worker[k].obj, "validator")
  BY <1>1, <1>2, GotoTurns, FailTurns
<1>4. QED
  BY <1>1, <1>3, NothingChangesHolds DEF Turn

LEMMA ClusterHolds ==
  ASSUME BackendInv, HeldInv, NEW k \in Kinds, RegisterCluster(k)
  PROVE  Holds(k)
<1> DEFINE w == worker[k]
<1>1. /\ OwnStep(k) /\ Working(k) /\ BackendTypeOK /\ api' = api /\ w.pc = "cluster"
  BY ClusterSteps DEF RegisterCluster, At, Working, BackendInv
<1>2. /\ w.key \in Backends /\ w.obj \in Object
      /\ Dated(w.key, w.obj) /\ Staged(w)
  BY <1>1, WorkerFacts DEF BackendInv
<1>3. "route" \in Places /\ "register" \in Conds
  BY DEF Places, Conds, Handlers
<1>4. \/ Turn(k, "route", w.obj, w.cond) \/ Turn(k, "status", w.obj, "register")
      \/ Turn(k, "route", w.obj, "register")
  BY <1>1, <1>3, GotoTurns, FailTurns, CondTurns DEF RegisterCluster
<1>5. worker'[k].obj = w.obj /\ worker'[k].pc \notin {"rmRoute", "finalDelete"}
  BY <1>4 DEF Turn
<1>6. CASE clusters' = clusters
  BY <1>1, <1>5, <1>6, NothingChangesHolds
<1>7. CASE clusters' = Insert(clusters, w.obj.model, [owner |-> w.key, gen |-> w.obj.gen])
  <2>1. JustifiedAs(w.key, w.obj.model, api)
    <3>1. w.obj # Absent
      BY <1>2, ObjectFacts
    <3>2. Held(w.obj) /\ ~isBackendDeleted(w.obj)
      BY <1>1, <1>2, <3>1 DEF Staged, Held
    <3>3. QED
      BY <1>1, <1>2, <3>1, <3>2 DEF HeldInv, Trails, Named, NamedAs, JustifiedAs
  <2>2. ASSUME NEW m \in DOMAIN clusters'
        PROVE  \/ m = w.obj.model /\ clusters'[m].owner = w.key
               \/ m \in DOMAIN clusters /\ clusters'[m] = clusters[m]
    BY <1>7 DEF Insert
  <2>3. \A m \in DOMAIN clusters' :
          clusters'[m].owner \in Backends /\ JustifiedAs(clusters'[m].owner, m, api)
    BY <1>2, <2>1, <2>2 DEF HeldInv, Justified
  <2>4. \A c \in Backends \ {w.key} : \A m :
          Registered(clusters', c, m) => Registered(clusters, c, m)
    BY <2>2 DEF Registered
  <2>5. /\ Trails(cache[w.key], api[w.key]) /\ Trails(w.obj, api[w.key])
        /\ NamedAs(w.key, cache[w.key], api[w.key]) /\ NamedAs(w.key, w.obj, api[w.key])
    BY <1>1, <1>2 DEF HeldInv, Named
  <2>6. QED
    BY <1>1, <1>5, <2>3, <2>4, <2>5 DEF Holds
<1>8. QED
  BY <1>6, <1>7 DEF RegisterCluster, UpsertAndRegisterCluster, registryVars

LEMMA RouteHolds ==
  ASSUME BackendInv, HeldInv, NEW k \in Kinds, RegisterRoute(k)
  PROVE  Holds(k)
<1>1. /\ OwnStep(k) /\ Working(k) /\ BackendTypeOK /\ UNCHANGED <<api, clusters>>
      /\ Goto(k, "status") \/ Goto(k, "rmCluster")
  BY RouteSteps
  DEF RegisterRoute, RegisterBaseRouteWithConfig, At, Working, BackendInv
<1>2. "status" \in Places /\ "rmCluster" \in Places
  BY DEF Places
<1>3. \/ Turn(k, "status", worker[k].obj, worker[k].cond)
      \/ Turn(k, "rmCluster", worker[k].obj, worker[k].cond)
  BY <1>1, <1>2, GotoTurns
<1>4. QED
  BY <1>1, <1>3, NothingChangesHolds DEF Turn

LEMMA RemoveClusterHolds ==
  ASSUME BackendInv, HeldInv, NEW k \in Kinds, RemoveClusterStep(k)
  PROVE  Holds(k)
<1> DEFINE w == worker[k]
<1>1. /\ OwnStep(k) /\ Working(k) /\ BackendTypeOK /\ api' = api /\ Goto(k, "rmRoute")
      /\ clusters' = Delete(clusters, w.obj.model)
  BY RemoveClusterSteps DEF RemoveClusterStep, DeleteCluster, At, Working, BackendInv
<1>2. w.key \in Backends /\ w.obj \in Object /\ Dated(w.key, w.obj)
  BY <1>1, WorkerFacts DEF BackendInv
<1>3. "rmRoute" \in Places
  BY DEF Places
<1>4. Turn(k, "rmRoute", w.obj, w.cond)
  BY <1>1, <1>3, GotoTurns
<1>5. \A m \in DOMAIN clusters' :
        m \in DOMAIN clusters /\ clusters'[m] = clusters[m] /\ m # w.obj.model
  BY <1>1 DEF Delete
<1>6. \A m \in DOMAIN clusters' :
        clusters'[m].owner \in Backends /\ JustifiedAs(clusters'[m].owner, m, api)
  BY <1>5 DEF HeldInv, Justified
<1>7. ~Registered(clusters', w.key, w.obj.model)
  BY <1>5 DEF Registered
<1>8. \A c \in Backends \ {w.key} : \A m :
        Registered(clusters', c, m) => Registered(clusters, c, m)
  BY <1>5 DEF Registered
<1>9. /\ Trails(cache[w.key], api[w.key]) /\ Trails(w.obj, api[w.key])
      /\ NamedAs(w.key, cache[w.key], api[w.key]) /\ NamedAs(w.key, w.obj, api[w.key])
  BY <1>1, <1>2 DEF HeldInv, Named
<1>10. QED
  BY <1>1, <1>4, <1>6, <1>7, <1>8, <1>9 DEF Holds, Turn

LEMMA RemoveRouteHolds ==
  ASSUME BackendInv, HeldInv, NEW k \in Kinds, RemoveRouteStep(k)
  PROVE  Holds(k)
<1>1. /\ OwnStep(k) /\ Working(k) /\ BackendTypeOK /\ UNCHANGED <<api, clusters>>
      /\ Goto(k, "status") \/ Goto(k, "finalDelete")
      /\ worker[k].pc = "rmRoute"
  BY RemoveRouteSteps DEF RemoveRouteStep, RemoveBaseRoute, At, Working, BackendInv
<1>2. "status" \in Places /\ "finalDelete" \in Places
  BY DEF Places
<1>3. \/ Turn(k, "status", worker[k].obj, worker[k].cond)
      \/ Turn(k, "finalDelete", worker[k].obj, worker[k].cond)
  BY <1>1, <1>2, GotoTurns
<1>4. QED
  BY <1>1, <1>3, NothingChangesHolds DEF Turn

LEMMA FinalDeleteHolds ==
  ASSUME BackendInv, HeldInv, NEW k \in Kinds, reconcileFinalDelete(k)
  PROVE  Holds(k)
<1> DEFINE w == worker[k]
<1>1. /\ OwnStep(k) /\ Working(k) /\ BackendTypeOK /\ clusters' = clusters
      /\ w.pc = "finalDelete"
  BY FinalDeleteSteps DEF reconcileFinalDelete, registryVars, At, Working, BackendInv
<1>2. w.key \in Backends /\ w.obj \in Object /\ Staged(w)
  BY <1>1, WorkerFacts DEF BackendInv
<1>3. /\ \A c \in {NoCond, "finalDelete", "finalDeleteConflict"} : c \in Conds
      /\ "status" \in Places
  BY DEF Conds, Handlers, Places
<1>4. \E c \in Conds : Turn(k, "status", w.obj, c)
  <2>1. CASE Goto(k, "status")
    BY <1>1, <1>3, <2>1, GotoTurns, WorkerFacts
  <2>2. CASE \E c \in {NoCond, "finalDelete", "finalDeleteConflict"} : Fail(k, c)
    <3>1. PICK c \in {NoCond, "finalDelete", "finalDeleteConflict"} : Fail(k, c)
      BY <2>2
    <3>2. c \in Conds
      BY <1>3, <3>1
    <3>3. QED
      BY <1>1, <3>1, <3>2, FailTurns
  <2>3. QED
    BY <2>1, <2>2 DEF reconcileFinalDelete
<1>5. worker'[k].obj = w.obj /\ worker'[k].pc = "status"
  BY <1>4 DEF Turn
<1>6. CASE UNCHANGED api
  BY <1>1, <1>5, <1>6, NothingChangesHolds
<1>7. CASE api[w.key] = w.obj /\ api' = [api EXCEPT ![w.key] = Absent]
  <2>1. api'[w.key] = Absent /\ \A c \in Backends \ {w.key} : api'[c] = api[c]
    BY <1>1, <1>2, <1>7 DEF BackendTypeOK
  <2>2. isBackendDeleted(w.obj)
    BY <1>1, <1>2 DEF Staged
  <2>3. /\ ~Registered(clusters, w.key, w.obj.model)
        /\ Held(cache[w.key]) => isBackendDeleted(cache[w.key])
    BY <1>1, <2>2 DEF HeldInv
  <2>4. /\ Trails(cache[w.key], Absent) /\ Trails(w.obj, Absent)
        /\ NamedAs(w.key, cache[w.key], Absent) /\ NamedAs(w.key, w.obj, Absent)
    BY <2>2, <2>3 DEF Trails, Held, NamedAs
  <2>5. \A m \in DOMAIN clusters : clusters[m].owner = w.key => m \in left[w.key]
    BY <1>7, <2>3 DEF Registered, HeldInv, Justified, JustifiedAs
  <2>6. \A m \in DOMAIN clusters : JustifiedAs(clusters[m].owner, m, api')
    BY <2>1, <2>5 DEF HeldInv, Justified, JustifiedAs
  <2>7. QED
    BY <1>1, <1>5, <2>1, <2>4, <2>6 DEF Holds, HeldInv
<1>8. QED
  BY <1>6, <1>7 DEF reconcileFinalDelete

LEMMA StatusHolds ==
  ASSUME BackendInv, HeldInv, NEW k \in Kinds, UpdateStatus(k)
  PROVE  Holds(k)
<1> DEFINE w == worker[k]
<1>1. /\ OwnStep(k) /\ Working(k) /\ BackendTypeOK /\ clusters' = clusters
      /\ worker' = [worker EXCEPT ![k] = Idle] /\ w.key \in Backends
  BY StatusSteps, WorkerFacts DEF UpdateStatus, registryVars, At, Working, BackendInv
<1>2. ~Working(k)'
  BY <1>1 DEF Working, Idle, BackendTypeOK
<1>3. CASE UNCHANGED api
  BY <1>1, <1>2, <1>3, NothingChangesHolds
<1>4. CASE api[w.key] = cache[w.key] /\ api'[w.key] # api[w.key] /\ api'[w.key] # Absent
  <2>1. /\ api[w.key] # Absent /\ SameSpec(api'[w.key], api[w.key])
        /\ api[w.key].finalizer => api'[w.key].finalizer
        /\ \A c \in Backends \ {w.key} : api'[c] = api[c]
    BY <1>1, <1>4 DEF OwnStep
  <2>2. /\ Held(api[w.key]) => Held(api'[w.key])
        /\ isBackendDeleted(api[w.key]) <=> isBackendDeleted(api'[w.key])
        /\ api'[w.key].model = api[w.key].model
    BY <1>4, <2>1 DEF Held, SameSpec, isBackendDeleted
  <2>3. Trails(cache[w.key], api'[w.key]) /\ NamedAs(w.key, cache[w.key], api'[w.key])
    BY <1>4, <2>2 DEF Trails, NamedAs
  <2>4. \A m \in DOMAIN clusters : JustifiedAs(clusters[m].owner, m, api')
    BY <2>1, <2>2 DEF HeldInv, Justified, JustifiedAs
  <2>5. QED
    BY <1>1, <1>2, <2>3, <2>4 DEF Holds, HeldInv
<1>5. QED
  <2>1. CASE api'[w.key] = api[w.key]
    <3>1. api' = api
      BY <1>1, <2>1 DEF OwnStep, BackendTypeOK
    <3>2. QED
      BY <1>3, <3>1
  <2>2. CASE api'[w.key] # api[w.key]
    <3>1. /\ api[w.key] = cache[w.key] /\ api[w.key] # Absent
          /\ api' = [api EXCEPT ![w.key].status = StatusOf(w.cond, isBackendDeleted(w.obj))]
      BY <2>2 DEF UpdateStatus
    <3>2. api[w.key] \in Object /\ api \in [Backends -> Stored]
      BY <1>1, <3>1 DEF BackendTypeOK, Stored
    <3>3. api'[w.key].gen = api[w.key].gen
      BY <1>1, <3>1, <3>2 DEF Object
    <3>4. api'[w.key] # Absent
      BY <3>2, <3>3, ObjectFacts DEF Absent
    <3>5. QED
      BY <1>4, <2>2, <3>1, <3>4
  <2>3. QED
    BY <2>1, <2>2

LEMMA StepHolds ==
  ASSUME BackendInv, HeldInv, NEW k \in Kinds, Step(k)
  PROVE  HeldInv'
<1>1. OwnStep(k)
  BY StepIsOwn
<1>2. Holds(k)
  BY ConfigHolds, ValidatorHolds, ClusterHolds, RouteHolds, RemoveClusterHolds, RemoveRouteHolds,
     FinalDeleteHolds, StatusHolds DEF Step
<1>3. QED
  BY <1>1, <1>2, OwnStepHolds

LEMMA HeldSteps ==
  ASSUME BackendInv, HeldInv, [ControllerNext]_allVars
  PROVE  HeldInv'
<1>1. ASSUME NEW b \in Backends, Create(b) \/ EditSpec(b) \/ DeleteObject(b) PROVE HeldInv'
  <2>1. PICK o : Edited(b, o)
    BY <1>1, CreateEdits, EditSpecEdits, DeleteEdits
  <2>2. QED
    BY <2>1, EditedHeld
<1>2. ASSUME NEW b \in Backends, Deliver(b) PROVE HeldInv'
  BY <1>2, DeliverHeld
<1>3. ASSUME NEW b \in Backends, Begin(b) PROVE HeldInv'
  BY <1>3, BeginHeld
<1>4. ASSUME NEW k \in Kinds, Step(k) PROVE HeldInv'
  BY <1>4, StepHolds
<1>5. ASSUME UNCHANGED <<api, cache, worker, clusters, left>> PROVE HeldInv'
  BY <1>5
  DEF HeldInv, Working, Trails, Held, Registered, isBackendDeleted, Named, NamedAs,
      Justified, JustifiedAs
<1>6. CASE GraceEnds
  BY <1>5, <1>6 DEF GraceEnds, registryVars
<1>7. CASE Restart
  BY <1>7, RestartHeld
<1>8. CASE UNCHANGED allVars
  BY <1>5, <1>8 DEF allVars, controlVars, registryVars
<1>9. QED
  BY <1>1, <1>2, <1>3, <1>4, <1>6, <1>7, <1>8 DEF ControllerNext

(* A cluster is registered only while the object it was made from exists,  *)
(* or under a name its spec was edited away from: for any number of        *)
(* backends and edits, whether or not they share model names, and with     *)
(* failures and restarts anywhere.                                         *)
THEOREM NoClusterIsOrphaned == ControllerSpec => []NoOrphanCluster
<1>1. ControllerInit => HeldInv
  <2> SUFFICES ASSUME ControllerInit PROVE HeldInv
    OBVIOUS
  <2>1. /\ \A b \in Backends : api[b] = Absent /\ cache[b] = Absent
        /\ \A k \in Kinds : ~Working(k)
        /\ DOMAIN clusters = {}
    BY DEF ControllerInit, RegistryInit, Working, Idle
  <2>2. QED
    BY <2>1 DEF HeldInv, Trails, Held, Named, NamedAs
<1>2. BackendInv /\ HeldInv /\ [ControllerNext]_allVars => HeldInv'
  BY HeldSteps
<1>3. HeldInv => NoOrphanCluster
  BY DEF HeldInv, NoOrphanCluster, Exists, Held, Justified, JustifiedAs
<1>4. QED
  BY <1>1, <1>2, <1>3, BackendInvariant, PTL DEF ControllerSpec

-----------------------------------------------------------------------------
(* HealthyIsServed: what is registered agrees with the worker's progress,  *)
(* and only an object that no event is waiting for comes to rest.          *)

(* A step of a worker at b touches only what names b has had lead to.      *)
SameElsewhere(b) ==
  \A m : m \notin had[b] =>
    /\ m \in DOMAIN clusters' <=> m \in DOMAIN clusters
    /\ m \in DOMAIN clusters => clusters'[m] = clusters[m]
    /\ m \in DOMAIN routeRegistry' <=> m \in DOMAIN routeRegistry

LEMMA StepStaysHome ==
  ASSUME BackendInv, NEW k \in Kinds, Step(k)
  PROVE  SameElsewhere(worker[k].key)
<1> DEFINE w == worker[k]
<1>1. Working(k)
  BY StepIsOwn DEF OwnStep
<1>2. w.key \in Backends /\ w.obj \in Object /\ Dated(w.key, w.obj)
  BY <1>1, WorkerFacts DEF BackendInv
<1>3. w.obj.model \in had[w.key]
  BY <1>2, ObjectFacts DEF Dated
<1>4. ASSUME UNCHANGED registryVars PROVE SameElsewhere(w.key)
  BY <1>4 DEF SameElsewhere, registryVars
<1>5. CASE reconcileConfig(k) \/ reconcileValidator(k) \/ reconcileFinalDelete(k) \/ UpdateStatus(k)
  BY <1>4, <1>5 DEF reconcileConfig, reconcileValidator, reconcileFinalDelete, UpdateStatus
<1>6. CASE RegisterCluster(k)
  <2>1. \/ UNCHANGED registryVars
        \/ /\ clusters' = Insert(clusters, w.obj.model, [owner |-> w.key, gen |-> w.obj.gen])
           /\ routeRegistry' = routeRegistry
    BY <1>6 DEF RegisterCluster, UpsertAndRegisterCluster
  <2>2. QED
    BY <1>3, <1>4, <2>1 DEF SameElsewhere, Insert
<1>7. CASE RegisterRoute(k)
  <2>1. /\ clusters' = clusters
        /\ DOMAIN routeRegistry' = DOMAIN routeRegistry \cup {w.obj.model}
    BY <1>7 DEF RegisterRoute, RegisterBaseRouteWithConfig, Insert
  <2>2. QED
    BY <1>3, <2>1 DEF SameElsewhere
<1>8. CASE RemoveClusterStep(k)
  <2>1. clusters' = Delete(clusters, w.obj.model) /\ routeRegistry' = routeRegistry
    BY <1>8 DEF RemoveClusterStep, DeleteCluster
  <2>2. QED
    BY <1>3, <2>1 DEF SameElsewhere, Delete
<1>9. CASE RemoveRouteStep(k)
  <2>1. /\ clusters' = clusters
        /\ DOMAIN routeRegistry' = DOMAIN routeRegistry \ {w.obj.model}
    BY <1>9 DEF RemoveRouteStep, RemoveBaseRoute, Delete
  <2>2. QED
    BY <1>3, <2>1 DEF SameElsewhere
<1>10. QED
  BY <1>5, <1>6, <1>7, <1>8, <1>9 DEF Step

(* What a turn from one place leads to.                                    *)
LEMMA TurnProgress ==
  ASSUME NEW k \in Kinds, NEW pc \in Places, NEW obj, NEW cond, Turn(k, pc, obj, cond),
         cond = NoCond => /\ pc # "route"
                          /\ pc = "status" => isBackendDeleted(obj)
  PROVE  Progress(k)'
BY DEF Turn, Progress, isBackendDeleted

LEMMA StepProgress ==
  ASSUME BackendInv, ServedInv, NEW k \in Kinds, Step(k)
  PROVE  Progress(k)'
<1> DEFINE w == worker[k]
<1>1. Working(k) /\ BackendTypeOK /\ had' = had
  BY StepIsOwn DEF OwnStep, BackendInv
<1>2. w.key \in Backends /\ w.obj \in Object /\ w.cond \in Conds /\ Staged(w)
  BY <1>1, WorkerFacts DEF BackendInv
<1>3. NoCond \notin {"config", "validator", "register", "finalDelete", "finalDeleteConflict"}
  BY NoCondIsNone DEF Handlers
<1>4. /\ \A p \in {"rmCluster", "validator", "cluster", "route", "rmRoute", "finalDelete", "status"} :
           p \in Places
      /\ \A c \in {NoCond, "config", "validator", "register", "finalDelete", "finalDeleteConflict"} :
           c \in Conds
  BY DEF Places, Conds, Handlers
<1>5. CASE reconcileConfig(k)
  <2>1. OwnStep(k) /\ worker'[k] # Idle
    <3>1. worker'[k].pc # "idle"
      BY <1>1, <1>5 DEF reconcileConfig, Goto, Fail, BackendTypeOK, Busy, Idle
    <3>2. QED
      BY <1>5, <3>1, ConfigSteps DEF Idle
  <2>2. \/ worker'[k].pc \in {"rmCluster", "validator"}
        \/ worker'[k].pc = "status" /\ worker'[k].cond = "config"
    <3>1. w \in Busy /\ worker \in [Kinds -> Busy \cup {Idle}]
      BY <1>1, WorkerFacts DEF BackendTypeOK
    <3>2. QED
      BY <1>5, <3>1 DEF reconcileConfig, Goto, Fail, Busy
  <2>3. QED
    BY <1>3, <2>2 DEF Progress
<1>6. CASE reconcileValidator(k)
  <2>1. Turn(k, "cluster", w.obj, w.cond) \/ Turn(k, "status", w.obj, "validator")
    BY <1>1, <1>4, <1>6, GotoTurns, FailTurns DEF reconcileValidator
  <2>2. QED
    BY <1>3, <1>4, <2>1, TurnProgress
<1>7. CASE RegisterCluster(k)
  <2>1. CASE /\ UpsertAndRegisterCluster(w.obj.model, [owner |-> w.key, gen |-> w.obj.gen])
             /\ Goto(k, "route")
    <3>1. Turn(k, "route", w.obj, w.cond)
      BY <1>1, <1>4, <2>1, GotoTurns
    <3>2. ClusterFrom(w.key, w.obj)'
      <4>1. /\ w.obj.model \in DOMAIN clusters'
            /\ clusters'[w.obj.model] = [owner |-> w.key, gen |-> w.obj.gen]
        BY <2>1 DEF UpsertAndRegisterCluster, Insert
      <4>2. QED
        BY <3>1, <4>1 DEF ClusterFrom, Turn
    <3>3. QED
      BY <3>1, <3>2 DEF Progress, Turn, ClusterFrom
  <2>2. CASE Fail(k, "register") \/ worker' = [worker EXCEPT ![k].pc = "route", ![k].cond = "register"]
    <3>1. Turn(k, "status", w.obj, "register") \/ Turn(k, "route", w.obj, "register")
      BY <1>1, <1>4, <2>2, FailTurns, CondTurns
    <3>2. QED
      BY <1>3, <3>1 DEF Progress, Turn
  <2>3. QED
    BY <1>7, <2>1, <2>2 DEF RegisterCluster
<1>8. CASE RegisterRoute(k)
  <2>1. /\ w.pc = "route" /\ clusters' = clusters /\ w.obj.model \in DOMAIN routeRegistry'
    BY <1>8 DEF RegisterRoute, RegisterBaseRouteWithConfig, Insert, At
  <2>2. CASE w.cond = NoCond
    <3>1. Turn(k, "status", w.obj, w.cond)
      BY <1>1, <1>4, <1>8, <2>2, GotoTurns DEF RegisterRoute
    <3>2. Exclusive(w.key, w.obj.model) => ClusterFrom(w.key, w.obj)
      BY <1>1, <2>1, <2>2 DEF ServedInv, Progress
    <3>3. QED
      BY <1>1, <2>1, <3>1, <3>2 DEF Progress, Turn, ClusterFrom, Exclusive
  <2>3. CASE w.cond # NoCond
    <3>1. Turn(k, "rmCluster", w.obj, w.cond)
      BY <1>1, <1>4, <1>8, <2>3, GotoTurns DEF RegisterRoute
    <3>2. QED
      BY <1>4, <3>1, TurnProgress
  <2>4. QED
    BY <2>2, <2>3
<1>9. CASE RemoveClusterStep(k)
  <2>1. Turn(k, "rmRoute", w.obj, w.cond)
    BY <1>1, <1>4, <1>9, GotoTurns DEF RemoveClusterStep
  <2>2. QED
    BY <1>4, <2>1, TurnProgress
<1>10. CASE RemoveRouteStep(k)
  <2>1. w.pc = "rmRoute" /\ (w.cond = NoCond => isBackendDeleted(w.obj))
    BY <1>2, <1>10 DEF RemoveRouteStep, At, Staged
  <2>2. Turn(k, "finalDelete", w.obj, w.cond) \/ Turn(k, "status", w.obj, w.cond)
    BY <1>1, <1>4, <1>10, GotoTurns DEF RemoveRouteStep
  <2>3. QED
    BY <1>4, <2>1, <2>2, TurnProgress
<1>11. CASE reconcileFinalDelete(k)
  <2>1. isBackendDeleted(w.obj)
    BY <1>2, <1>11 DEF reconcileFinalDelete, At, Staged
  <2>2. \E c \in Conds : Turn(k, "status", w.obj, c)
    <3>1. CASE Goto(k, "status")
      BY <1>1, <1>2, <1>4, <3>1, GotoTurns
    <3>2. CASE \E c \in {NoCond, "finalDelete", "finalDeleteConflict"} : Fail(k, c)
      <4>1. PICK c \in {NoCond, "finalDelete", "finalDeleteConflict"} : Fail(k, c)
        BY <3>2
      <4>2. c \in Conds
        BY <1>4, <4>1
      <4>3. QED
        BY <1>1, <4>1, <4>2, FailTurns
    <3>3. QED
      BY <1>11, <3>1, <3>2 DEF reconcileFinalDelete
  <2>3. QED
    BY <1>4, <2>1, <2>2, TurnProgress
<1>12. CASE UpdateStatus(k)
  <2>1. worker'[k] = Idle
    BY <1>1, <1>12 DEF UpdateStatus, BackendTypeOK
  <2>2. QED
    BY <2>1 DEF Progress, Working, Idle
<1>13. QED
  BY <1>5, <1>6, <1>7, <1>8, <1>9, <1>10, <1>11, <1>12 DEF Step

(* Only the last step makes a worker idle.                                 *)
LEMMA StepBusy ==
  ASSUME BackendInv, NEW k \in Kinds, Step(k), ~UpdateStatus(k)
  PROVE  worker'[k] # Idle
<1>1. Working(k) /\ worker \in [Kinds -> Busy \cup {Idle}]
  BY StepIsOwn DEF OwnStep, BackendInv, BackendTypeOK
<1>2. worker[k] \in Busy
  BY <1>1, WorkerFacts DEF BackendInv
<1>3. worker'[k].pc # "idle"
  BY <1>1, <1>2 DEF Step, reconcileConfig, reconcileValidator, RegisterCluster, RegisterRoute,
                    RemoveClusterStep, RemoveRouteStep, reconcileFinalDelete, Goto, Fail, Busy
<1>4. QED
  BY <1>3 DEF Idle

(* What is at rest after a step was at rest before it and is still served. *)
LEMMA RestStays ==
  ASSUME NEW c \in Backends, RestIsServed(c), api'[c] = api[c],
         \A d \in Backends : had[d] \subseteq had'[d],
         AtRest(c)' => AtRest(c), Alone(c) /\ Served(c) => Served(c)'
  PROVE  RestIsServed(c)'
BY DEF RestIsServed, Exists, isBackendDeleted, Alone

LEMMA EditedServes ==
  ASSUME BackendInv, ServedInv, NEW b \in Backends, NEW o, Edited(b, o)
  PROVE  ServedInv'
<1>1. /\ api \in [Backends -> Stored] /\ api' = [api EXCEPT ![b] = o] /\ Dated(b, cache[b])
      /\ UNCHANGED <<cache, queue, worker, clusters, routeRegistry>>
      /\ \A d \in Backends : had[d] \subseteq had'[d]
  BY EditedHistory DEF BackendInv, BackendTypeOK, Edited, registryVars
<1>2. ASSUME NEW k \in Kinds PROVE Progress(k)'
  BY <1>1 DEF ServedInv, Progress, Working, ClusterFrom, isBackendDeleted, Exclusive
<1>3. RestIsServed(b)'
  <2>1. api'[b] = o
    BY <1>1
  <2>2. CASE o = Absent
    BY <2>1, <2>2 DEF RestIsServed, Exists
  <2>3. CASE o # Absent
    <3>1. cache[b] # o
      <4>1. used.edits \in Int /\ (o.gen = used.edits \/ o.deletedAt = used.edits)
        BY <2>3, ControllerAssumption DEF Edited, Counts
      <4>2. QED
        BY <1>1, <2>3, <4>1 DEF Dated
    <3>2. QED
      BY <1>1, <2>1, <3>1 DEF RestIsServed, AtRest
  <2>4. QED
    BY <2>2, <2>3
<1>4. ASSUME NEW c \in Backends, c # b PROVE RestIsServed(c)'
  <2>1. api'[c] = api[c]
    BY <1>1, <1>4
  <2>2. AtRest(c)' => AtRest(c)
    BY <1>1, <2>1 DEF AtRest, Working
  <2>3. Served(c) => Served(c)'
    BY <1>1, <2>1 DEF Served
  <2>4. QED
    BY <1>1, <2>1, <2>2, <2>3, RestStays DEF ServedInv
<1>5. QED
  BY <1>2, <1>3, <1>4 DEF ServedInv

LEMMA DeliverServes ==
  ASSUME BackendInv, ServedInv, NEW b \in Backends, Deliver(b)
  PROVE  ServedInv'
<1>1. /\ cache \in [Backends -> Stored] /\ cache' = [cache EXCEPT ![b] = api[b]]
      /\ queue' = queue \cup {b} /\ UNCHANGED <<api, worker, clusters, routeRegistry, had>>
  BY DEF BackendInv, BackendTypeOK, Deliver, registryVars
<1>2. ASSUME NEW k \in Kinds PROVE Progress(k)'
  BY <1>1 DEF ServedInv, Progress, Working, ClusterFrom, isBackendDeleted, Exclusive
<1>3. ASSUME NEW c \in Backends PROVE RestIsServed(c)'
  <2>1. CASE c = b
    BY <1>1, <2>1 DEF RestIsServed, AtRest
  <2>2. CASE c # b
    <3>1. cache'[c] = cache[c]
      BY <1>1, <2>2
    <3>2. AtRest(c)' => AtRest(c)
      BY <1>1, <3>1 DEF AtRest, Working
    <3>3. Served(c) => Served(c)'
      BY <1>1 DEF Served
    <3>4. QED
      BY <1>1, <3>2, <3>3, RestStays DEF ServedInv
  <2>3. QED
    BY <2>1, <2>2
<1>4. QED
  BY <1>2, <1>3 DEF ServedInv

LEMMA BeginServes ==
  ASSUME BackendInv, ServedInv, NEW b \in Backends, Begin(b)
  PROVE  ServedInv'
<1> DEFINE k == KindOf[b]
<1>1. /\ UNCHANGED <<api, cache, clusters, routeRegistry, had>> /\ queue' = queue \ {b}
      /\ ~Working(k) /\ k \in Kinds
  BY BeginFacts DEF registryVars, Begin
<1>2. CASE cache[b] = Absent
  <2>1. worker' = worker
    BY <1>2, BeginFacts
  <2>2. ASSUME NEW j \in Kinds PROVE Progress(j)'
    BY <1>1, <2>1 DEF ServedInv, Progress, Working, ClusterFrom, isBackendDeleted, Exclusive
  <2>3. ASSUME NEW c \in Backends PROVE RestIsServed(c)'
    <3>1. CASE c = b
      BY <1>1, <1>2, <3>1 DEF RestIsServed, AtRest, Exists
    <3>2. CASE c # b
      <4>1. AtRest(c)' => AtRest(c)
        BY <1>1, <2>1, <3>2 DEF AtRest, Working
      <4>2. Served(c) => Served(c)'
        BY <1>1 DEF Served
      <4>3. QED
        BY <1>1, <4>1, <4>2, RestStays DEF ServedInv
    <3>3. QED
      BY <3>1, <3>2
  <2>4. QED
    BY <2>2, <2>3 DEF ServedInv
<1>3. CASE cache[b] # Absent
  <2>1. /\ \A j \in Kinds \ {k} : worker'[j] = worker[j]
        /\ worker'[k] = [pc |-> "config", key |-> b, obj |-> cache[b], cond |-> NoCond]
    BY <1>3, BeginFacts
  <2> HIDE DEF k
  <2>2. ASSUME NEW j \in Kinds PROVE Progress(j)'
    <3>1. CASE j = k
      BY <2>1, <3>1 DEF Progress
    <3>2. CASE j # k
      BY <1>1, <2>1, <3>2
      DEF ServedInv, Progress, Working, ClusterFrom, isBackendDeleted, Exclusive
    <3>3. QED
      BY <3>1, <3>2
  <2>3. ASSUME NEW c \in Backends PROVE RestIsServed(c)'
    <3>1. CASE c = b
      BY <1>1, <2>1, <3>1 DEF RestIsServed, AtRest, Working
    <3>2. CASE c # b
      <4>1. AtRest(c)' => AtRest(c)
        BY <1>1, <2>1, <3>2 DEF AtRest, Working
      <4>2. Served(c) => Served(c)'
        BY <1>1 DEF Served
      <4>3. QED
        BY <1>1, <4>1, <4>2, RestStays DEF ServedInv
    <3>3. QED
      BY <3>1, <3>2
  <2>4. QED
    BY <2>2, <2>3 DEF ServedInv
<1>4. QED
  BY <1>2, <1>3

LEMMA RestartServes ==
  ASSUME Restart
  PROVE  ServedInv'
<1>1. ASSUME NEW k \in Kinds PROVE Progress(k)'
  BY DEF Restart, Progress, Working, Idle
<1>2. ASSUME NEW b \in Backends PROVE RestIsServed(b)'
  BY DEF Restart, RestIsServed, AtRest, Exists
<1>3. QED
  BY <1>1, <1>2 DEF ServedInv

(* What a step of one worker does not touch.                               *)
LEMMA OtherModels ==
  ASSUME NEW b \in Backends, NEW c \in Backends, b # c, SameElsewhere(b),
         NEW o, Exclusive(c, o.model)
  PROVE  /\ ClusterFrom(c, o) => ClusterFrom(c, o)'
         /\ o.model \in DOMAIN routeRegistry => (o.model \in DOMAIN routeRegistry)'
BY DEF SameElsewhere, Exclusive, ClusterFrom

(* A worker that ends leaves its object at rest as Healthy only when no    *)
(* handler failed and the last event is the one it has seen.               *)
LEMMA StatusSettles ==
  ASSUME BackendInv, NEW k \in Kinds, UpdateStatus(k), NEW b, b = worker[k].key,
         Exists(b)', AtRest(b)', ~isBackendDeleted(api'[b]), api'[b].status.phase = "Healthy"
  PROVE  /\ b \notin queue /\ cache[b] = api'[b] /\ SameSpec(cache[b], worker[k].obj)
         /\ worker[k].cond = NoCond /\ ~isBackendDeleted(worker[k].obj)
<1> DEFINE w == worker[k]
           status == StatusOf(w.cond, isBackendDeleted(w.obj))
<1>1. Working(k) /\ cache' = cache
  BY DEF UpdateStatus, At, Working
<1>2. Copied(w)
  BY <1>1 DEF BackendInv
<1>3. cache[b] = api'[b] /\ b \notin queue' /\ api'[b] # Absent
  BY <1>1 DEF AtRest, Exists
<1>4. b \notin queue
  BY <1>3 DEF UpdateStatus
<1>5. SameSpec(cache[b], w.obj)
  BY <1>2, <1>4 DEF Copied
<1>6. ~isBackendDeleted(w.obj)
  BY <1>3, <1>5 DEF SameSpec, isBackendDeleted
<1>7. ASSUME w.cond # NoCond PROVE FALSE
  <2>1. status.phase = "Failed"
    BY <1>6, <1>7 DEF StatusOf
  <2>2. CASE cache[b].status = status
    BY <1>3, <2>1, <2>2
  <2>3. CASE cache[b].status # status
    BY <1>3, <2>1, <2>3 DEF UpdateStatus
  <2>4. QED
    BY <2>2, <2>3
<1>8. QED
  BY <1>3, <1>4, <1>5, <1>6, <1>7

LEMMA StatusServes ==
  ASSUME BackendInv, ServedInv, NEW k \in Kinds, UpdateStatus(k), NEW b, b = worker[k].key
  PROVE  RestIsServed(b)'
<1> SUFFICES ASSUME Exists(b)', AtRest(b)', Alone(b)', ~isBackendDeleted(api'[b]),
                    api'[b].status.phase = "Healthy"
             PROVE  Served(b)'
  BY DEF RestIsServed, isBackendDeleted
<1>1. Working(k) /\ worker[k].pc = "status" /\ UNCHANGED <<clusters, routeRegistry, had>>
  BY DEF UpdateStatus, At, Working, registryVars
<1>2. /\ cache[b] = api'[b] /\ SameSpec(cache[b], worker[k].obj)
      /\ worker[k].cond = NoCond /\ ~isBackendDeleted(worker[k].obj)
  BY StatusSettles
<1>3. ClusterFrom(b, worker[k].obj) /\ worker[k].obj.model \in DOMAIN routeRegistry
  <2>1. Exclusive(b, worker[k].obj.model)
    BY <1>1, <1>2 DEF Alone, Exclusive, SameSpec
  <2>2. QED
    BY <1>1, <1>2, <2>1 DEF ServedInv, Progress
<1>4. QED
  BY <1>1, <1>2, <1>3 DEF Served, ClusterFrom, SameSpec

LEMMA StepServes ==
  ASSUME BackendInv, ServedInv, NEW k \in Kinds, Step(k)
  PROVE  ServedInv'
<1> PICK b : b = worker[k].key
  OBVIOUS
<1>1. OwnStep(k) /\ SameElsewhere(b) /\ Progress(k)'
  BY StepIsOwn, StepStaysHome, StepProgress
<1>2. /\ Working(k) /\ b \in Backends /\ cache' = cache
      /\ queue \subseteq queue' /\ queue' \subseteq queue \cup {b}
      /\ \A c \in Backends \ {b} : api'[c] = api[c]
      /\ \A j \in Kinds \ {k} : worker'[j] = worker[j]
      /\ had' = had
  BY <1>1, WorkerFacts DEF OwnStep, BackendInv
<1>3. ASSUME NEW j \in Kinds PROVE Progress(j)'
  <2>1. CASE j = k
    BY <1>1, <2>1
  <2>2. CASE j # k /\ Working(j)
    <3>1. worker[j].key \in Backends /\ worker[j].key # b
      BY <1>2, <2>2, OneWorkerEach, WorkerFacts DEF BackendInv
    <3>2. worker'[j] = worker[j]
      BY <1>2, <2>2
    <3>3. PICK c, o : c = worker[j].key /\ o = worker[j].obj
      OBVIOUS
    <3>4. Exclusive(c, o.model) =>
            /\ ClusterFrom(c, o) => ClusterFrom(c, o)'
            /\ o.model \in DOMAIN routeRegistry => (o.model \in DOMAIN routeRegistry)'
      BY <1>1, <1>2, <3>1, <3>3, OtherModels
    <3>5. Exclusive(c, o.model)' <=> Exclusive(c, o.model)
      BY <1>2 DEF Exclusive
    <3>6. QED
      BY <3>2, <3>3, <3>4, <3>5
      DEF ServedInv, Progress, Working, isBackendDeleted, ClusterFrom, Exclusive
  <2>3. CASE j # k /\ ~Working(j)
    BY <1>2, <2>3 DEF Progress, Working
  <2>4. QED
    BY <2>1, <2>2, <2>3
<1>4. ASSUME NEW c \in Backends, c # b PROVE RestIsServed(c)'
  <2>1. api'[c] = api[c]
    BY <1>2, <1>4
  <2>2. AtRest(c)' => AtRest(c)
    BY <1>2, <1>4, <2>1 DEF AtRest, Working
  <2>3. CASE api[c] = Absent
    BY <2>1, <2>3 DEF RestIsServed, Exists
  <2>4. CASE api[c] # Absent
    <3>1. PICK o : o = api[c]
      OBVIOUS
    <3>2. Alone(c) => Exclusive(c, o.model)
      BY <3>1 DEF Alone, Exclusive
    <3>3. Alone(c) =>
            /\ ClusterFrom(c, o) => ClusterFrom(c, o)'
            /\ o.model \in DOMAIN routeRegistry => (o.model \in DOMAIN routeRegistry)'
      BY <1>1, <1>2, <1>4, <3>2, OtherModels
    <3>4. Alone(c) /\ Served(c) => Served(c)'
      BY <2>1, <3>1, <3>3 DEF Served, ClusterFrom
    <3>5. QED
      BY <1>2, <2>1, <2>2, <3>4, RestStays DEF ServedInv
  <2>5. QED
    BY <2>3, <2>4
<1>5. RestIsServed(b)'
  <2>1. CASE UpdateStatus(k)
    BY <2>1, StatusServes
  <2>2. CASE ~UpdateStatus(k)
    <3>1. worker'[k].key = b /\ Working(k)'
      <4>1. worker'[k] # Idle
        BY <1>2, <2>2, StepBusy
      <4>2. QED
        BY <1>1, <4>1 DEF OwnStep, Busy, Places, Working
    <3>2. QED
      BY <3>1 DEF RestIsServed, AtRest
  <2>3. QED
    BY <2>1, <2>2
<1>6. QED
  BY <1>3, <1>4, <1>5 DEF ServedInv

LEMMA ServedSteps ==
  ASSUME BackendInv, ServedInv, [ControllerNext]_allVars
  PROVE  ServedInv'
<1>1. ASSUME NEW b \in Backends, Create(b) \/ EditSpec(b) \/ DeleteObject(b) PROVE ServedInv'
  <2>1. PICK o : Edited(b, o)
    BY <1>1, CreateEdits, EditSpecEdits, DeleteEdits
  <2>2. QED
    BY <2>1, EditedServes
<1>2. ASSUME NEW b \in Backends, Deliver(b) PROVE ServedInv'
  BY <1>2, DeliverServes
<1>3. ASSUME NEW b \in Backends, Begin(b) PROVE ServedInv'
  BY <1>3, BeginServes
<1>4. ASSUME NEW k \in Kinds, Step(k) PROVE ServedInv'
  BY <1>4, StepServes
<1>5. ASSUME UNCHANGED <<api, cache, queue, worker, clusters, routeRegistry, had>> PROVE ServedInv'
  BY <1>5 DEF ServedInv, RestIsServed, Progress, AtRest, Exists, Served, Working, ClusterFrom,
              isBackendDeleted, Alone, Exclusive
<1>6. CASE GraceEnds
  BY <1>5, <1>6 DEF GraceEnds, registryVars
<1>7. CASE Restart
  BY <1>7, RestartServes
<1>8. CASE UNCHANGED allVars
  BY <1>5, <1>8 DEF allVars, controlVars, registryVars
<1>9. QED
  BY <1>1, <1>2, <1>3, <1>4, <1>6, <1>7, <1>8 DEF ControllerNext

(* A backend whose status has come to rest as Healthy, and whose name no   *)
(* other backend has asked for so far, is served, and from its current     *)
(* spec, for any number of backends of any number of kinds, whatever names *)
(* the others share: a Healthy status is only written, or found to be      *)
(* right, by a Reconcile that registered what the cache has, and whatever  *)
(* the cache learns meanwhile is queued.                                   *)
THEOREM HealthyBackendsAreServed == ControllerSpec => []HealthyIsServed
<1>1. ControllerInit => ServedInv
  BY DEF ControllerInit, ServedInv, RestIsServed, Progress, Exists, Working, Idle
<1>2. BackendInv /\ ServedInv /\ [ControllerNext]_allVars => ServedInv'
  BY ServedSteps
<1>3. ServedInv => HealthyIsServed
  BY DEF ServedInv, RestIsServed, HealthyIsServed, Settled, AtRest
<1>4. QED
  BY <1>1, <1>2, <1>3, BackendInvariant, PTL DEF ControllerSpec

-----------------------------------------------------------------------------
(* UniqueGlobally: an object is accepted only by its validator, which sees *)
(* every other accepted one in the cache.                                  *)

LEMMA AcceptedStays ==
  ASSUME UniqueInv,
         \A c \in Backends : Accepted(c)' => Accepted(c) /\ cache'[c] = cache[c]
  PROVE  UniqueInv'
BY DEF UniqueInv

(* Only the worker of its kind is at an object.                            *)
LEMMA OwnWorker ==
  ASSUME BackendInv, NEW j \in Kinds, Working(j), NEW b, worker[j].key = b
  PROVE  j = KindOf[b]
BY DEF BackendInv

LEMMA EditedUnique ==
  ASSUME BackendInv, UniqueInv, NEW b \in Backends, NEW o, Edited(b, o)
  PROVE  UniqueInv'
<1>1. /\ api \in [Backends -> Stored] /\ api' = [api EXCEPT ![b] = o] /\ Dated(b, cache[b])
      /\ UNCHANGED <<cache, queue, worker>>
  BY DEF BackendInv, BackendTypeOK, Edited
<1>2. ASSUME NEW c \in Backends, cache[c] # Absent, AtRest(c)' PROVE AtRest(c)
  <2>1. CASE c = b
    <3>1. o = cache[b] /\ o # Absent
      BY <1>1, <1>2, <2>1 DEF AtRest
    <3>2. used.edits \in Int /\ (o.gen = used.edits \/ o.deletedAt = used.edits)
      BY <3>1, ControllerAssumption DEF Edited, Counts
    <3>3. QED
      BY <1>1, <3>1, <3>2 DEF Dated
  <2>2. CASE c # b
    <3>1. api'[c] = api[c]
      BY <1>1, <2>2
    <3>2. QED
      BY <1>1, <1>2, <3>1 DEF AtRest, Working
  <2>3. QED
    BY <2>1, <2>2
<1>3. ASSUME NEW c \in Backends, Accepted(c)' PROVE Accepted(c)
  BY <1>1, <1>2, <1>3 DEF Accepted, isBackendDeleted
<1>4. QED
  BY <1>1, <1>3, AcceptedStays

LEMMA DeliverUnique ==
  ASSUME BackendInv, UniqueInv, NEW b \in Backends, Deliver(b)
  PROVE  UniqueInv'
<1>1. /\ cache \in [Backends -> Stored] /\ cache' = [cache EXCEPT ![b] = api[b]]
      /\ queue' = queue \cup {b} /\ UNCHANGED <<api, worker>>
  BY DEF BackendInv, BackendTypeOK, Deliver
<1>2. ASSUME NEW c \in Backends, Accepted(c)' PROVE Accepted(c) /\ cache'[c] = cache[c]
  <2>1. c # b /\ c \notin queue
    BY <1>1, <1>2 DEF Accepted
  <2>2. cache'[c] = cache[c]
    BY <1>1, <2>1
  <2>3. AtRest(c)' => AtRest(c)
    BY <1>1, <2>1, <2>2 DEF AtRest, Working
  <2>4. QED
    BY <1>1, <1>2, <2>1, <2>2, <2>3 DEF Accepted, isBackendDeleted
<1>3. QED
  BY <1>2, AcceptedStays

LEMMA BeginUnique ==
  ASSUME BackendInv, UniqueInv, NEW b \in Backends, Begin(b)
  PROVE  UniqueInv'
<1> PICK k : k = KindOf[b]
  OBVIOUS
<1>1. /\ UNCHANGED <<api, cache>> /\ queue' = queue \ {b} /\ ~Working(k) /\ k \in Kinds
      /\ cache[b] = Absent => worker' = worker
      /\ cache[b] # Absent =>
           /\ \A j \in Kinds \ {k} : worker'[j] = worker[j]
           /\ worker'[k] = [pc |-> "config", key |-> b, obj |-> cache[b], cond |-> NoCond]
  BY BeginFacts
<1>2. ~Accepted(b)'
  <2>1. CASE cache[b] = Absent
    BY <1>1, <2>1 DEF Accepted
  <2>2. CASE cache[b] # Absent
    <3>1. ~AtRest(b)'
      BY <1>1, <2>2 DEF AtRest, Working
    <3>2. ASSUME NEW j \in Kinds, worker'[j].key = b, worker'[j].pc \in {"cluster", "route", "status"}
          PROVE  FALSE
      <4>1. j # k /\ worker'[j] = worker[j] /\ Working(j)
        BY <1>1, <2>2, <3>2 DEF Working
      <4>2. QED
        BY <3>2, <4>1, OwnWorker
    <3>3. QED
      BY <3>1, <3>2 DEF Accepted
  <2>3. QED
    BY <2>1, <2>2
<1>3. ASSUME NEW c \in Backends, Accepted(c)' PROVE Accepted(c)
  <2>1. c # b /\ c \notin queue
    BY <1>1, <1>2, <1>3 DEF Accepted
  <2>2. AtRest(c)' => AtRest(c)
    BY <1>1, <2>1 DEF AtRest, Working
  <2>3. ASSUME NEW j \in Kinds, worker'[j].pc \in {"cluster", "route", "status"}
        PROVE  worker'[j] = worker[j]
    BY <1>1, <2>3
  <2>4. QED
    BY <1>1, <1>3, <2>1, <2>2, <2>3 DEF Accepted, isBackendDeleted
<1>4. QED
  BY <1>1, <1>3, AcceptedStays

LEMMA RestartUnique ==
  ASSUME Restart
  PROVE  UniqueInv'
<1>1. ASSUME NEW c \in Backends PROVE ~Accepted(c)'
  <2>1. c \in queue' \/ cache'[c] = Absent
    BY DEF Restart
  <2>2. QED
    BY <2>1 DEF Accepted
<1>2. QED
  BY <1>1 DEF UniqueInv

(* The object of the worker is accepted after a step only if it was before *)
(* it, or by the validator.                                                *)
LEMMA AcceptedBefore ==
  ASSUME BackendInv, NEW k \in Kinds, Step(k), NEW b, b = worker[k].key, Accepted(b)'
  PROVE  Accepted(b) \/ (reconcileValidator(k) /\ Goto(k, "cluster"))
<1> DEFINE w == worker[k]
<1>1. OwnStep(k) /\ Working(k) /\ b \in Backends /\ cache' = cache /\ queue \subseteq queue'
      /\ \A j \in Kinds \ {k} : worker'[j] = worker[j]
  BY StepIsOwn, WorkerFacts DEF OwnStep, BackendInv
<1>2. w \in Busy /\ w.cond \in Conds /\ Staged(w) /\ Copied(w) /\ BackendTypeOK
  BY <1>1, WorkerFacts DEF BackendInv
<1>3. /\ b \notin queue /\ cache[b] # Absent /\ ~isBackendDeleted(cache[b])
      /\ ~isBackendDeleted(w.obj)
  <2>1. b \notin queue /\ cache[b] # Absent /\ ~isBackendDeleted(cache[b])
    BY <1>1 DEF Accepted, isBackendDeleted
  <2>2. QED
    BY <1>2, <2>1 DEF Copied, SameSpec, isBackendDeleted
<1>4. ASSUME NEW j \in Kinds \ {k} PROVE ~(Working(j)' /\ worker'[j].key = b)
  BY <1>1, OneWorkerEach DEF Working
<1>5. SUFFICES ASSUME ~(w.pc \in {"cluster", "route", "status"} /\ w.cond = NoCond)
               PROVE  reconcileValidator(k) /\ Goto(k, "cluster")
  BY <1>3 DEF Accepted
<1>6. CASE UpdateStatus(k)
  <2>1. w.pc = "status" /\ worker'[k] = Idle
    BY <1>2, <1>6 DEF UpdateStatus, At, BackendTypeOK
  <2>2. AtRest(b)' /\ cache[b].status.phase = "Healthy"
    BY <1>1, <1>4, <2>1 DEF Accepted, Working, Idle
  <2>3. cache[b] = api'[b]
    BY <1>1, <2>2 DEF AtRest
  <2>4. w.cond = NoCond
    BY <1>3, <1>6, <2>2, <2>3, StatusSettles DEF Exists
  <2>5. QED
    BY <1>5, <2>1, <2>4
<1>7. CASE ~UpdateStatus(k)
  <2>1. worker'[k].key = b /\ Working(k)'
    <3>1. worker'[k] # Idle
      BY <1>7, StepBusy
    <3>2. QED
      BY <1>1, <3>1 DEF OwnStep, Busy, Places, Working
  <2>2. worker'[k].pc \in {"cluster", "route", "status"} /\ worker'[k].cond = NoCond
    BY <1>4, <2>1 DEF Accepted, AtRest, Working
  <2>3. NoCond \notin {"config", "validator", "register", "finalDelete", "finalDeleteConflict"}
    BY NoCondIsNone DEF Handlers
  <2>4. \A pc \in {"rmCluster", "validator", "cluster", "route", "rmRoute", "finalDelete", "status"} :
          pc \in Places
    BY DEF Places
  <2>5. \A c \in {"config", "validator", "register"} : c \in Conds
    BY DEF Conds, Handlers
  <2>6. ASSUME NEW pc \in Places, Goto(k, pc) PROVE pc = worker'[k].pc /\ w.cond = NoCond
    BY <1>1, <1>2, <2>2, <2>6, GotoTurns DEF Turn
  <2>7. ASSUME NEW c \in {"config", "validator", "register"}, Fail(k, c) PROVE FALSE
    BY <1>1, <1>2, <2>2, <2>3, <2>5, <2>7, FailTurns DEF Turn
  <2>8. ~reconcileConfig(k)
    <3>1. ASSUME NEW p \in Places, p \notin {"cluster", "route", "status"},
                 worker' = [worker EXCEPT ![k].pc = p, ![k].obj.finalizer = TRUE]
          PROVE  FALSE
      <4>1. worker'[k].pc = p
        BY <1>2, <3>1 DEF BackendTypeOK, Busy
      <4>2. QED
        BY <2>2, <3>1, <4>1
    <3>2. PICK p : p = IF isBackendDeleted(w.obj) THEN "rmCluster" ELSE "validator"
      OBVIOUS
    <3>3. p \in Places /\ p \notin {"cluster", "route", "status"}
      BY <2>4, <3>2
    <3>4. ~Goto(k, p)
      BY <2>2, <2>6, <3>3
    <3>5. QED
      BY <2>7, <3>1, <3>2, <3>3, <3>4 DEF reconcileConfig
  <2>9. ~RegisterCluster(k)
    <3>1. ASSUME w.pc = "cluster" PROVE FALSE
      BY <1>2, <1>5, <3>1 DEF Staged
    <3>2. QED
      BY <3>1 DEF RegisterCluster, At
  <2>10. ~RegisterRoute(k)
    <3>1. ASSUME RegisterRoute(k) PROVE w.pc = "route" /\ w.cond = NoCond
      <4>1. w.pc = "route" /\ (Goto(k, "status") \/ Goto(k, "rmCluster"))
        BY <3>1 DEF RegisterRoute, At
      <4>2. QED
        BY <2>4, <2>6, <4>1
    <3>2. QED
      BY <1>5, <3>1
  <2>11. ~RemoveClusterStep(k)
    BY <2>2, <2>4, <2>6 DEF RemoveClusterStep
  <2>12. ~RemoveRouteStep(k)
    <3>1. ASSUME RemoveRouteStep(k) PROVE w.pc = "rmRoute" /\ w.cond = NoCond
      <4>1. w.pc = "rmRoute" /\ (Goto(k, "status") \/ Goto(k, "finalDelete"))
        BY <3>1 DEF RemoveRouteStep, At
      <4>2. QED
        BY <2>4, <2>6, <4>1
    <3>2. QED
      BY <1>2, <1>3, <3>1 DEF Staged
  <2>13. ~reconcileFinalDelete(k)
    BY <1>2, <1>3 DEF reconcileFinalDelete, At, Staged
  <2>14. reconcileValidator(k)
    BY <1>7, <2>8, <2>9, <2>10, <2>11, <2>12, <2>13 DEF Step
  <2>15. Goto(k, "cluster")
    BY <2>7, <2>14 DEF reconcileValidator
  <2>16. QED
    BY <2>14, <2>15
<1>8. QED
  BY <1>6, <1>7

(* The validator accepts a name that no other object of the cache has.     *)
LEMMA ValidatorSees ==
  ASSUME NamesTellApart, BackendInv, NEW k \in Kinds, reconcileValidator(k), Goto(k, "cluster"),
         NEW b, b = worker[k].key, b \notin queue,
         NEW c \in Backends, c # b, KindOf[c] = KindOf[b], cache[c] # Absent
  PROVE  cache[c].model # cache[b].model
<1>1. Working(k) /\ BackendTypeOK /\ "cluster" \in Places /\ "validator" \in Conds
  BY DEF BackendInv, reconcileValidator, At, Working, Places, Conds, Handlers
<1>2. b \in Backends /\ Copied(worker[k])
  BY <1>1, WorkerFacts DEF BackendInv
<1>3. worker'[k].pc = "cluster"
  BY <1>1, GotoTurns DEF Turn
<1>4. ~Fail(k, "validator")
  BY <1>1, <1>3, FailTurns DEF Turn
<1>5. ~NameTaken(b, worker[k].obj.model)
  BY <1>4 DEF reconcileValidator
<1>6. cache[c].model # worker[k].obj.model
  BY <1>2, <1>5 DEF NameTaken, NamesTellApart
<1>7. QED
  BY <1>2, <1>6 DEF Copied, SameSpec

LEMMA StepUnique ==
  ASSUME NamesTellApart, BackendInv, UniqueInv, NEW k \in Kinds, Step(k)
  PROVE  UniqueInv'
<1> PICK b : b = worker[k].key
  OBVIOUS
<1>1. OwnStep(k) /\ Working(k) /\ b \in Backends /\ cache' = cache /\ queue \subseteq queue'
      /\ \A c \in Backends \ {b} : api'[c] = api[c]
      /\ \A j \in Kinds \ {k} : worker'[j] = worker[j]
  BY StepIsOwn, WorkerFacts DEF OwnStep, BackendInv
<1>2. worker'[k].key = b \/ ~Working(k)'
  BY <1>1 DEF OwnStep, Working, Idle
<1>3. ASSUME NEW c \in Backends, c # b, Accepted(c)' PROVE Accepted(c)
  <2>1. AtRest(c)' => AtRest(c)
    <3>1. api'[c] = api[c]
      BY <1>1, <1>3
    <3>2. QED
      BY <1>1, <1>3, <3>1 DEF AtRest, Working
  <2>2. ASSUME NEW j \in Kinds, worker'[j].key = c, worker'[j].pc \in {"cluster", "route", "status"}
        PROVE  worker'[j] = worker[j]
    BY <1>1, <1>2, <1>3, <2>2 DEF Working
  <2>3. QED
    BY <1>1, <1>3, <2>1, <2>2 DEF Accepted, isBackendDeleted
<1>4. CASE Accepted(b)' => Accepted(b)
  <2>1. \A c \in Backends : Accepted(c)' => Accepted(c) /\ cache'[c] = cache[c]
    BY <1>1, <1>3, <1>4
  <2>2. QED
    BY <2>1, AcceptedStays
<1>5. CASE Accepted(b)' /\ ~Accepted(b)
  <2>1. reconcileValidator(k) /\ Goto(k, "cluster")
    BY <1>5, AcceptedBefore
  <2>2. b \notin queue
    BY <1>1, <1>5 DEF Accepted
  <2>3. ASSUME NEW c \in Backends, c # b, KindOf[c] = KindOf[b], Accepted(c)'
        PROVE  cache'[c].model # cache'[b].model
    <3>1. cache[c] # Absent
      BY <1>1, <2>3 DEF Accepted
    <3>2. QED
      BY <1>1, <2>1, <2>2, <2>3, <3>1, ValidatorSees
  <2>4. ASSUME NEW c \in Backends, NEW d \in Backends, c # d, c # b, d # b,
               KindOf[c] = KindOf[d], Accepted(c)', Accepted(d)'
        PROVE  cache'[c].model # cache'[d].model
    BY <1>1, <1>3, <2>4 DEF UniqueInv
  <2>5. QED
    BY <2>3, <2>4 DEF UniqueInv
<1>6. QED
  BY <1>4, <1>5

(* When objects of a kind differ in metadata.name, of two backends of one  *)
(* kind with one model name at most one comes to rest as Healthy, for any  *)
(* number of backends, with spec edits, failures and restarts anywhere:    *)
(* although the cache lags, the validator never misses one that rests.     *)
THEOREM NamesAreUnique ==
  ASSUME NamesTellApart
  PROVE  ControllerSpec => []UniqueGlobally
<1>1. ControllerInit => UniqueInv
  BY DEF ControllerInit, UniqueInv, Accepted
<1>2. BackendInv /\ UniqueInv /\ [ControllerNext]_allVars => UniqueInv'
  <2> SUFFICES ASSUME BackendInv, UniqueInv, [ControllerNext]_allVars PROVE UniqueInv'
    OBVIOUS
  <2>1. ASSUME NEW b \in Backends, Create(b) \/ EditSpec(b) \/ DeleteObject(b) PROVE UniqueInv'
    <3>1. PICK o : Edited(b, o)
      BY <2>1, CreateEdits, EditSpecEdits, DeleteEdits
    <3>2. QED
      BY <3>1, EditedUnique
  <2>2. ASSUME NEW b \in Backends, Deliver(b) PROVE UniqueInv'
    BY <2>2, DeliverUnique
  <2>3. ASSUME NEW b \in Backends, Begin(b) PROVE UniqueInv'
    BY <2>3, BeginUnique
  <2>4. ASSUME NEW k \in Kinds, Step(k) PROVE UniqueInv'
    BY <2>4, StepUnique
  <2>5. ASSUME UNCHANGED <<api, cache, queue, worker>> PROVE UniqueInv'
    BY <2>5 DEF UniqueInv, Accepted, AtRest, Working, isBackendDeleted
  <2>6. CASE GraceEnds
    BY <2>5, <2>6 DEF GraceEnds
  <2>7. CASE Restart
    BY <2>7, RestartUnique
  <2>8. CASE UNCHANGED allVars
    BY <2>5, <2>8 DEF allVars, controlVars
  <2>9. QED
    BY <2>1, <2>2, <2>3, <2>4, <2>6, <2>7, <2>8 DEF ControllerNext
<1>3. BackendInv /\ UniqueInv => UniqueGlobally
  <2> SUFFICES ASSUME UniqueInv, NEW b \in Backends, NEW c \in Backends,
                      b # c, Exists(b), Exists(c), Settled(b), Settled(c),
                      KindOf[b] = KindOf[c], api[b].model = api[c].model,
                      ~isBackendDeleted(api[b]), ~isBackendDeleted(api[c]),
                      api[b].status.phase = "Healthy", api[c].status.phase = "Healthy"
               PROVE  FALSE
    BY DEF UniqueGlobally
  <2>1. Accepted(b) /\ Accepted(c)
    BY DEF Settled, Accepted, AtRest, Exists
  <2>2. cache[b] = api[b] /\ cache[c] = api[c]
    BY DEF Settled
  <2>3. QED
    BY <2>1, <2>2 DEF UniqueInv
<1>4. QED
  BY <1>1, <1>2, <1>3, BackendInvariant, PTL DEF ControllerSpec
============================================================================
