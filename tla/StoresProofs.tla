---------------------------- MODULE StoresProofs ----------------------------
(***************************************************************************)
(* Proofs about the parts of Stores: SessionSafe of the SQL session for    *)
(* any number of tasks, connections and statements; StaysWhole of MongoDB  *)
(* for any entities, documents and tasks; SchemaRight of the startup, for  *)
(* any processes, entities and databases; and the type invariant and       *)
(* Tripped of the circuit breaker, for any number of calls, any threshold  *)
(* and any reset time.                                                     *)
(***************************************************************************)
EXTENDS Stores, SequencesExt, FiniteSetTheorems, SequenceTheorems, TLAPS

-----------------------------------------------------------------------------
(* SQL sessions. *)
SessionPlaces == {"absent", "run", "emit", "connect", "done"}
SessionWrites == SessionTasks \X Int
SessionBlocks == [conn : Nat, own : BOOLEAN, before : Nat \cup {NULL}, mark : SUBSET SessionWrites]
SessionConns == [open : BOOLEAN, log : SUBSET SessionWrites]
SessionContexts ==
  [pc : SessionPlaces, scope : SessionTasks \cup {NULL}, tx : Nat \cup {NULL}, blocks : Seq(SessionBlocks),
   for : {NULL, "write", "tx"}, parent : SessionTasks \cup {NULL}]
SessionType ==
  /\ sTask \in [SessionTasks -> SessionContexts]
  /\ sConns \in Seq(SessionConns)
  /\ sUow \in [SessionTasks -> Nat \cup {NULL}]
  /\ sDurable \subseteq SessionWrites
  /\ sOutcome \in [SessionTasks -> {"open", "ok", "error"}]
  /\ sMeant \in [SessionTasks -> SUBSET SessionWrites]
  /\ sOps \in Nat

Scope(t) == sTask[t].scope
Live(t) == sTask[t].pc \in {"run", "emit", "connect"}
Shares(t, s) == Live(t) /\ Scope(t) = s
Opened == {c \in DOMAIN sConns : sConns[c].open}

(* A scope begins and ends with the task it is named after. *)
SessionScopes == \A t \in SessionTasks :
  /\ sTask[t].pc = "absent" => sTask[t] = Session!Absent
  /\ Scope(t) # NULL => sTask[Scope(t)].pc # "absent" /\ Scope(Scope(t)) = Scope(t)
  /\ Live(t) /\ Scope(t) # NULL => Live(Scope(t))
  /\ sOutcome[t] # "open" <=> sTask[t].pc = "done" /\ Scope(t) = t

(* Whoever works in a scope was called, through listeners of listeners, by *)
(* tasks that wait for him: waiting[t]. With one listener the tasks of a   *)
(* scope are a path, and one of them works.                                *)
Waits(waiting) == \A t \in SessionTasks : Live(t) =>
  /\ \A p \in waiting[t] :
       /\ sTask[p].pc = "emit" /\ Scope(p) = Scope(t)
       /\ \E q \in waiting[t] \cup {t} : Shares(q, Scope(p)) /\ sTask[q].parent = p
  /\ Scope(t) \notin {NULL, t} => Scope(t) \in waiting[t]
  /\ SessionListeners <= 1 /\ Scope(t) # NULL =>
       \A u \in SessionTasks : Shares(u, Scope(t)) => u = t \/ u \in waiting[t] \/ t \in waiting[u]
SessionPath == \E waiting \in [SessionTasks -> SUBSET SessionTasks] : Waits(waiting)

(* A task is in blocks of one connection: its request's, or one of its own *)
(* where there is no request.                                              *)
InBlocks(k) ==
  /\ k.tx = NULL <=> k.blocks = << >>
  /\ k.pc = "connect" /\ k.scope = NULL => k.for = "tx"
  /\ \A i \in DOMAIN k.blocks :
       /\ k.blocks[i].conn = k.tx
       /\ k.blocks[i].before = IF i = 1 THEN NULL ELSE k.tx
       /\ k.blocks[i].own <=> i = 1 /\ k.scope = NULL
OnOpen(k) == k.tx # NULL =>
  k.pc = "run" /\ k.tx \in Opened /\ (k.scope # NULL => k.tx = sUow[k.scope])
OnOwn(t) == sTask[t].tx # NULL /\ Scope(t) = NULL => \A u \in SessionTasks :
  /\ sUow[u] # sTask[t].tx
  /\ u # t /\ Scope(u) = NULL => sTask[u].tx # sTask[t].tx
Inside(t) == InBlocks(sTask[t]) /\ OnOpen(sTask[t]) /\ OnOwn(t)
SessionInside == \A t \in SessionTasks : Inside(t)

(* Every open connection is held, and a scope has one.                     *)
SessionHeld ==
  /\ \A s \in SessionTasks : sUow[s] # NULL =>
       /\ sUow[s] \in Opened /\ Live(s) /\ Scope(s) = s
       /\ \A r \in SessionTasks : sUow[r] = sUow[s] => r = s
  /\ \A c \in Opened : \/ \E s \in SessionTasks : sUow[s] = c
                       \/ \E t \in SessionTasks : Scope(t) = NULL /\ sTask[t].tx = c
  /\ SessionListeners <= 1 => \A t \in SessionTasks :
       sTask[t].pc = "connect" /\ Scope(t) # NULL => sUow[Scope(t)] = NULL

(* A write is where the scope of its task puts it.                         *)
Written(w, s) == w[1] \in SessionTasks /\ sTask[w[1]].pc # "absent" /\ Scope(w[1]) = s
ScopeKept(s) ==
  /\ \A w \in sMeant[s] : Written(w, s)
  /\ sUow[s] # NULL => sMeant[s] \subseteq sConns[sUow[s]].log /\ \A w \in sConns[sUow[s]].log : Written(w, s)
  /\ sUow[s] = NULL /\ sOutcome[s] = "open" => sMeant[s] = {}
  /\ sOutcome[s] = "ok" => sMeant[s] \subseteq sDurable
BlocksKept(t) ==
  /\ sTask[t].tx # NULL /\ Scope(t) = NULL => \A w \in sConns[sTask[t].tx].log : Written(w, NULL)
  /\ \A i \in DOMAIN sTask[t].blocks : \A w \in sTask[t].blocks[i].mark : Written(w, Scope(t))
DiskKept == \A w \in sDurable :
  \E s \in SessionTasks \cup {NULL} : Written(w, s) /\ (s # NULL => sOutcome[s] = "ok")
SessionKept == (\A t \in SessionTasks : ScopeKept(t) /\ BlocksKept(t)) /\ DiskKept

SessionInv == SessionType /\ SessionScopes /\ SessionPath /\ SessionInside /\ SessionHeld /\ SessionKept

LEMMA SessionStarts == Session!Init => SessionInv
<1> SUFFICES ASSUME Session!Init PROVE SessionInv
  OBVIOUS
<1> USE SessionAssumption DEF Session!Init, Session!Absent, Scope, Live, Shares, Opened, Written
<1>1. SessionType
  BY DEF SessionType, SessionContexts, SessionPlaces
<1>2. SessionScopes
  BY DEF SessionScopes
<1>3. SessionPath
  <2>1. Waits([t \in SessionTasks |-> {}])
    BY DEF Waits
  <2> QED BY <2>1 DEF SessionPath
<1>4. SessionInside
  BY DEF SessionInside, Inside, InBlocks, OnOpen, OnOwn
<1>5. SessionHeld
  BY DEF SessionHeld
<1>6. SessionKept
  BY DEF SessionKept, ScopeKept, BlocksKept, DiskKept
<1> QED BY <1>1, <1>2, <1>3, <1>4, <1>5, <1>6 DEF SessionInv

SessionBesides == << sConns, sUow, sDurable, sOutcome, sMeant, sOps >>

LEMMA SessionStart ==
  ASSUME SessionInv, NEW t \in SessionTasks, Session!Start(t)
  PROVE  SessionInv'
<1> USE SessionAssumption DEF Session!Start, Session!Absent, Scope, Live, Shares, Opened, Written
<1>1. SessionType'
  BY DEF SessionInv, SessionType, SessionContexts, SessionPlaces
<1>a. /\ sTask' = [sTask EXCEPT ![t] = [sTask[t] EXCEPT !.pc = "run", !.scope = t]]
      /\ sTask[t] = Session!Absent /\ sTask \in [SessionTasks -> SessionContexts]
      /\ sTask'[t] = [Session!Absent EXCEPT !.pc = "run", !.scope = t]
      /\ \A u \in SessionTasks : u # t => sTask'[u] = sTask[u]
      /\ UNCHANGED SessionBesides
  BY DEF SessionInv, SessionType, SessionBesides
<1>b. sTask'[t].pc = "run" /\ sTask'[t].scope = t /\ sTask'[t].tx = NULL /\ sTask'[t].blocks = << >>
  BY <1>a
<1>2. SessionScopes'
  BY <1>a, <1>b DEF SessionInv, SessionScopes, SessionContexts, SessionBesides
<1>3. SessionPath'
  <2>1. PICK waiting \in [SessionTasks -> SUBSET SessionTasks] : Waits(waiting)
    BY DEF SessionInv, SessionPath
  <2>2. Waits([waiting EXCEPT ![t] = {}])'
    BY <1>a, <1>b, <2>1 DEF SessionInv, SessionScopes, Waits, SessionContexts, SessionBesides
  <2> QED BY <2>2 DEF SessionPath
<1>4. SessionInside'
  BY <1>a, <1>b DEF SessionInv, SessionInside, Inside, InBlocks, OnOpen, OnOwn, SessionContexts, SessionHeld, SessionBesides
<1>5. SessionHeld'
  BY <1>a, <1>b DEF SessionInv, SessionHeld, SessionContexts, SessionBesides
<1>6. SessionKept'
  <2>1. \A w, s : Written(w, s) => Written(w, s)'
    BY <1>a
  <2>2. \A u \in SessionTasks : ScopeKept(u)'
    BY <1>a, <1>b, <2>1 DEF SessionInv, SessionKept, ScopeKept, SessionBesides, SessionType
  <2>3. \A u \in SessionTasks : BlocksKept(u)'
    BY <1>a, <1>b, <2>1 DEF SessionInv, SessionKept, BlocksKept, SessionInside, Inside, InBlocks, OnOpen, OnOwn, SessionType, SessionBesides
  <2>4. DiskKept'
    BY <1>a, <1>b, <2>1 DEF SessionInv, SessionKept, DiskKept, SessionBesides, SessionType
  <2> QED BY <2>2, <2>3, <2>4 DEF SessionKept
<1> QED BY <1>1, <1>2, <1>3, <1>4, <1>5, <1>6 DEF SessionInv

(* A task whose place changes and nothing else. *)
SessionGoes(t, place) ==
  /\ sTask[t].pc # "absent" /\ UNCHANGED SessionBesides
  /\ sTask'[t] = [sTask[t] EXCEPT !.pc = place]
  /\ \A u \in SessionTasks : /\ u # t => sTask'[u] = sTask[u]
                             /\ sTask'[u].scope = sTask[u].scope /\ sTask'[u].tx = sTask[u].tx
                             /\ sTask'[u].blocks = sTask[u].blocks /\ sTask'[u].parent = sTask[u].parent
                             /\ u # t => sTask'[u].pc = sTask[u].pc
  /\ sTask'[t].pc = place

LEMMA SessionGoesOn ==
  ASSUME SessionInv, NEW t \in SessionTasks, NEW place \in SessionPlaces,
         sTask[t].pc # "absent", UNCHANGED SessionBesides,
         sTask' = [sTask EXCEPT ![t].pc = place]
  PROVE  SessionType' /\ SessionGoes(t, place)
<1>1. sTask \in [SessionTasks -> SessionContexts] /\ sTask[t] \in SessionContexts
  BY DEF SessionInv, SessionType
<1>2. /\ sTask'[t] = [sTask[t] EXCEPT !.pc = place]
      /\ \A u \in SessionTasks : u # t => sTask'[u] = sTask[u]
  BY <1>1
<1>3. [sTask[t] EXCEPT !.pc = place] \in SessionContexts
  BY <1>1 DEF SessionContexts
<1>4. sTask' \in [SessionTasks -> SessionContexts]
  BY <1>1, <1>3
<1>5. SessionType'
  BY <1>4 DEF SessionInv, SessionType, SessionBesides
<1>6. /\ sTask'[t].pc = place /\ sTask'[t].scope = sTask[t].scope /\ sTask'[t].tx = sTask[t].tx
      /\ sTask'[t].blocks = sTask[t].blocks /\ sTask'[t].parent = sTask[t].parent
  BY <1>1, <1>2 DEF SessionContexts
<1> QED BY <1>2, <1>5, <1>6 DEF SessionGoes

LEMMA SessionEmitted ==
  ASSUME SessionInv, NEW t \in SessionTasks, Session!Emitted(t)
  PROVE  SessionInv'
<1> USE SessionAssumption DEF Session!Emitted, Scope, Live, Shares, Opened, Written
<1>a. SessionType' /\ SessionGoes(t, "run") /\ sTask[t].pc = "emit"
  BY SessionGoesOn DEF SessionPlaces, SessionBesides
<1>b. \A c \in SessionTasks : sTask[c].parent = t /\ sTask[c].scope = sTask[t].scope => sTask[c].pc = "done"
  OBVIOUS
<1>2. SessionScopes'
  BY <1>a DEF SessionInv, SessionScopes, SessionBesides, SessionGoes
<1>3. SessionPath'
  <2>1. PICK waiting \in [SessionTasks -> SUBSET SessionTasks] : Waits(waiting)
    BY DEF SessionInv, SessionPath
  <2>2. \A u \in SessionTasks : Live(u) => t \notin waiting[u]
    BY <1>b, <2>1 DEF Waits
  <2>3. Waits(waiting)'
    BY <1>a, <2>1, <2>2 DEF Waits, SessionBesides, SessionGoes
  <2> QED BY <2>3 DEF SessionPath
<1>4. SessionInside'
  BY <1>a DEF SessionInv, SessionInside, Inside, InBlocks, OnOpen, OnOwn, SessionBesides, SessionGoes
<1>5. SessionHeld'
  BY <1>a DEF SessionInv, SessionHeld, SessionBesides, SessionGoes
<1>6. SessionKept'
  <2>1. \A w, s : Written(w, s) => Written(w, s)'
    BY <1>a DEF SessionGoes
  <2>2. \A u \in SessionTasks : ScopeKept(u)'
    BY <1>a, <2>1 DEF SessionInv, SessionKept, ScopeKept, SessionBesides, SessionGoes, SessionType
  <2>3. \A u \in SessionTasks : BlocksKept(u)'
    BY <1>a, <2>1 DEF SessionInv, SessionKept, BlocksKept, SessionInside, Inside, InBlocks, OnOpen, OnOwn, SessionType, SessionBesides, SessionGoes
  <2>4. DiskKept'
    BY <1>a, <2>1 DEF SessionInv, SessionKept, DiskKept, SessionBesides, SessionType
  <2> QED BY <2>2, <2>3, <2>4 DEF SessionKept
<1> QED BY <1>a, <1>2, <1>3, <1>4, <1>5, <1>6 DEF SessionInv

LEMMA SessionReturn ==
  ASSUME SessionInv, NEW t \in SessionTasks, Session!Return(t)
  PROVE  SessionInv'
<1> USE SessionAssumption DEF Session!Return, Session!Runs, Scope, Live, Shares, Opened, Written
<1>a. /\ SessionType' /\ SessionGoes(t, "done")
      /\ sTask[t].pc = "run" /\ sTask[t].scope # t /\ sTask[t].tx = NULL
  BY SessionGoesOn DEF SessionPlaces, SessionBesides, SessionInv, SessionInside, Inside, InBlocks, OnOpen, OnOwn
<1>2. SessionScopes'
  BY <1>a DEF SessionInv, SessionScopes, SessionBesides, SessionGoes
<1>3. SessionPath'
  <2>1. PICK waiting \in [SessionTasks -> SUBSET SessionTasks] : Waits(waiting)
    BY DEF SessionInv, SessionPath
  <2>2. \A u \in SessionTasks : Live(u) => t \notin waiting[u]
    BY <1>a, <2>1 DEF Waits
  <2>3. Waits(waiting)'
    BY <1>a, <2>1, <2>2 DEF Waits, SessionBesides, SessionGoes
  <2> QED BY <2>3 DEF SessionPath
<1>4. SessionInside'
  BY <1>a DEF SessionInv, SessionInside, Inside, InBlocks, OnOpen, OnOwn, SessionBesides, SessionGoes
<1>5. SessionHeld'
  BY <1>a DEF SessionInv, SessionHeld, SessionBesides, SessionGoes
<1>6. SessionKept'
  <2>1. \A w, s : Written(w, s) => Written(w, s)'
    BY <1>a DEF SessionGoes
  <2>2. \A u \in SessionTasks : ScopeKept(u)'
    BY <1>a, <2>1 DEF SessionInv, SessionKept, ScopeKept, SessionBesides, SessionGoes, SessionType
  <2>3. \A u \in SessionTasks : BlocksKept(u)'
    BY <1>a, <2>1 DEF SessionInv, SessionKept, BlocksKept, SessionInside, Inside, InBlocks, OnOpen, OnOwn, SessionType, SessionBesides, SessionGoes
  <2>4. DiskKept'
    BY <1>a, <2>1 DEF SessionInv, SessionKept, DiskKept, SessionBesides, SessionType
  <2> QED BY <2>2, <2>3, <2>4 DEF SessionKept
<1> QED BY <1>a, <1>2, <1>3, <1>4, <1>5, <1>6 DEF SessionInv

(* A new task: one that was absent begins, called by t.                    *)
SessionCalls(t, c, scope) ==
  /\ sTask[c] = Session!Absent /\ c # t /\ scope \in {NULL, c, Scope(t)}
  /\ sTask'[c].pc = "run" /\ sTask'[c].scope = scope /\ sTask'[c].tx = NULL
  /\ sTask'[c].blocks = << >> /\ sTask'[c].parent = t

SessionCallee(k, t, scope) ==
  /\ k \in SessionContexts
  /\ k.pc = "run" /\ k.scope = scope /\ k.tx = NULL /\ k.blocks = << >> /\ k.parent = t

LEMMA SessionChild ==
  ASSUME NEW t \in SessionTasks, sTask[t].tx = NULL, NEW scope \in SessionTasks \cup {NULL}
  PROVE  SessionCallee(Session!Child(t, scope), t, scope)
<1>1. Session!Absent \in SessionContexts /\ Session!Absent.blocks = << >>
  BY DEF Session!Absent, SessionContexts, SessionPlaces
<1>2. PICK k : k = Session!Absent
  OBVIOUS
<1>3. Session!Child(t, scope) = [k EXCEPT !.pc = "run", !.scope = scope, !.tx = NULL, !.parent = t]
  BY <1>2 DEF Session!Child
<1> QED BY <1>1, <1>2, <1>3 DEF SessionCallee, SessionContexts, SessionPlaces

LEMMA SessionSpawn ==
  ASSUME SessionInv, NEW t \in SessionTasks, NEW scoped \in BOOLEAN, Session!Spawn(t, scoped)
  PROVE  SessionInv'
<1> USE SessionAssumption DEF Scope, Live, Shares, Opened, Written
<1> DEFINE Callee(c) == Session!Child(t, IF scoped THEN c ELSE NULL)
<1>1. PICK c \in SessionTasks : /\ sTask[c] = Session!Absent /\ sTask[t].pc = "run" /\ sTask[t].tx = NULL
                                /\ sTask' = [sTask EXCEPT ![c] = Callee(c)]
  BY DEF Session!Spawn, Session!MaySpawn, Session!Runs, Session!Idle
<1> DEFINE scope == IF scoped THEN c ELSE NULL
<1>2. SessionCallee(Callee(c), t, scope)
  BY <1>1, SessionChild DEF SessionInv, SessionType
<1> HIDE DEF scope, Callee
<1>t. SessionType'
  BY <1>1, <1>2 DEF SessionInv, SessionType, SessionCallee, Session!Spawn
<1>a. /\ SessionCalls(t, c, scope) /\ scope \in {NULL, c} /\ UNCHANGED SessionBesides
      /\ \A u \in SessionTasks : u # c => sTask'[u] = sTask[u]
      /\ sTask[c].pc = "absent" /\ sTask[c].scope = NULL /\ sTask[c].tx = NULL /\ sTask[c].blocks = << >>
  <2>1. sTask'[c] = Callee(c) /\ \A u \in SessionTasks : u # c => sTask'[u] = sTask[u]
    BY <1>1 DEF SessionInv, SessionType
  <2>2. UNCHANGED SessionBesides
    BY DEF Session!Spawn, SessionBesides
  <2>3. scope \in {NULL, c}
    BY DEF scope
  <2> QED BY <1>1, <1>2, <2>1, <2>2, <2>3 DEF SessionCalls, Session!Absent, SessionCallee
<1>3. SessionScopes'
  <2> SUFFICES ASSUME NEW u \in SessionTasks
               PROVE  /\ sTask'[u].pc = "absent" => sTask'[u] = Session!Absent
                      /\ Scope(u)' # NULL => sTask'[Scope(u)'].pc # "absent" /\ sTask'[Scope(u)'].scope = Scope(u)'
                      /\ Live(u)' /\ Scope(u)' # NULL => sTask'[Scope(u)'].pc \in {"run", "emit", "connect"}
                      /\ sOutcome'[u] # "open" <=> sTask'[u].pc = "done" /\ Scope(u)' = u
    BY DEF SessionScopes, Session!Absent
  <2>1. CASE u = c
    BY <1>a, <2>1 DEF SessionInv, SessionScopes, SessionBesides, SessionCalls
  <2>2. CASE u # c
    <3>1. Scope(u) # c /\ Scope(u) \in SessionTasks \cup {NULL}
      BY <1>a, <2>2 DEF SessionInv, SessionScopes, SessionType, SessionContexts
    <3>2. Scope(u) # NULL => sTask'[Scope(u)] = sTask[Scope(u)]
      BY <1>a, <3>1
    <3> QED BY <1>a, <2>2, <3>1, <3>2 DEF SessionInv, SessionScopes, SessionBesides
  <2> QED BY <2>1, <2>2
<1>7. SessionPath'
  <2>1. PICK waiting \in [SessionTasks -> SUBSET SessionTasks] : Waits(waiting)
    BY DEF SessionInv, SessionPath
  <2>2. Waits([waiting EXCEPT ![c] = {}])'
    BY <1>a, <2>1 DEF SessionInv, SessionScopes, Waits, SessionBesides, SessionCalls
  <2> QED BY <2>2 DEF SessionPath
<1>4. SessionInside'
  BY <1>a DEF SessionInv, SessionInside, Inside, InBlocks, OnOpen, OnOwn, SessionBesides, SessionCalls, SessionHeld
<1>5. SessionHeld'
  BY <1>a DEF SessionInv, SessionHeld, SessionBesides, SessionCalls
<1>6. SessionKept'
  <2>1. \A w, s : Written(w, s) => Written(w, s)'
    BY <1>a
  <2>2. \A u \in SessionTasks : ScopeKept(u)'
    BY <1>a, <2>1 DEF SessionInv, SessionKept, ScopeKept, SessionBesides, SessionCalls, SessionType
  <2>3. \A u \in SessionTasks : BlocksKept(u)'
    <3>1. BlocksKept(c)'
      BY <1>a DEF BlocksKept, SessionCalls
    <3>2. ASSUME NEW u \in SessionTasks, u # c PROVE BlocksKept(u)'
      BY <1>a, <2>1, <3>2 DEF SessionInv, SessionKept, BlocksKept, SessionBesides
    <3> QED BY <3>1, <3>2
  <2>4. DiskKept'
    BY <1>a, <2>1 DEF SessionInv, SessionKept, DiskKept, SessionBesides, SessionType
  <2> QED BY <2>2, <2>3, <2>4 DEF SessionKept
<1> QED BY <1>t, <1>3, <1>7, <1>4, <1>5, <1>6 DEF SessionInv

(* With one listener an event calls one task. *)
LEMMA SessionOneCallee ==
  ASSUME NEW S \in SUBSET SessionTasks, NEW cs \in Session!kSubset(SessionListeners, S),
         SessionListeners <= 1, NEW c \in cs, NEW d \in cs
  PROVE  c = d
<1> USE SessionAssumption
<1>1. cs \subseteq SessionTasks /\ Cardinality(cs) = SessionListeners
  BY DEF Session!kSubset, Session!Cardinality, Cardinality
<1>2. IsFiniteSet(cs)
  BY <1>1, FS_Subset
<1>3. ASSUME c # d PROVE FALSE
  <2>1. IsFiniteSet({c, d}) /\ Cardinality({c, d}) <= Cardinality(cs)
    BY <1>2, FS_Subset, FS_CardinalityType
  <2>2. Cardinality({c, d}) = 2
    <3>1. IsFiniteSet({c}) /\ Cardinality({c}) = 1
      BY FS_Singleton
    <3>2. Cardinality({c} \cup {d}) = 1 + 1
      BY <1>3, <3>1, FS_AddElement
    <3>3. {c} \cup {d} = {c, d}
      OBVIOUS
    <3> QED BY <3>2, <3>3
  <2> QED BY <1>1, <2>1, <2>2
<1> QED BY <1>3

LEMMA SessionEmit ==
  ASSUME SessionInv, NEW t \in SessionTasks, Session!Emit(t)
  PROVE  SessionInv'
<1> USE SessionAssumption DEF Scope, Live, Shares, Opened, Written
<1> DEFINE scope == sTask[t].scope
           Callee == Session!Child(t, scope)
           Idle == {c \in SessionTasks : sTask[c] = Session!Absent}
<1>1. PICK cs \in Session!kSubset(SessionListeners, Session!Idle) :
        sTask' = [c \in SessionTasks |-> CASE c \in cs -> Callee
                                           [] c = t    -> [sTask[t] EXCEPT !.pc = "emit"]
                                           [] OTHER    -> sTask[c]]
  BY DEF Session!Emit
<1>2. /\ sTask[t].pc = "run" /\ sTask[t].tx = NULL /\ scope \in SessionTasks /\ sTask[t] \in SessionContexts
      /\ UNCHANGED SessionBesides
  BY DEF Session!Emit, Session!MaySpawn, Session!Runs, SessionInv, SessionType, SessionContexts, SessionBesides
<1>3. SessionCallee(Callee, t, scope)
  BY <1>2, SessionChild
<1>4. /\ cs \subseteq SessionTasks /\ \A c \in cs : sTask[c] = Session!Absent /\ sTask[c].pc = "absent"
      /\ \A c \in cs : sTask[c].scope = NULL /\ sTask[c].tx = NULL /\ sTask[c].blocks = << >>
      /\ t \notin cs
  BY <1>2 DEF Session!Idle, Session!kSubset, Session!Absent
<1>5. SessionListeners <= 1 => \A c, d \in cs : c = d
  BY <1>4, SessionOneCallee DEF Session!Idle
<1> HIDE DEF Callee, scope
<1>6. [sTask[t] EXCEPT !.pc = "emit"] \in SessionContexts
  BY <1>2 DEF SessionContexts, SessionPlaces
<1>t. SessionType'
  BY <1>1, <1>2, <1>3, <1>6 DEF SessionInv, SessionType, SessionCallee, SessionBesides
<1>a. /\ \A u \in SessionTasks \ cs : u # t => sTask'[u] = sTask[u]
      /\ \A c \in cs : SessionCalls(t, c, scope)
      /\ sTask'[t].pc = "emit" /\ sTask'[t].scope = scope /\ sTask'[t].parent = sTask[t].parent
      /\ sTask'[t].blocks = sTask[t].blocks /\ sTask'[t].tx = NULL
  <2>1. /\ \A c \in cs : sTask'[c] = Callee
        /\ sTask'[t] = [sTask[t] EXCEPT !.pc = "emit"]
        /\ \A u \in SessionTasks \ cs : u # t => sTask'[u] = sTask[u]
    BY <1>1, <1>4
  <2>2. \A c \in cs : SessionCalls(t, c, scope)
    BY <2>1, <1>3, <1>4 DEF SessionCalls, SessionCallee, scope
  <2> QED BY <2>1, <2>2, <1>2 DEF scope, SessionContexts
<1>b. scope = Scope(t) /\ scope \in SessionTasks
  BY <1>2 DEF scope
<1>w. \A w, s : Written(w, s) => Written(w, s)'
  BY <1>a, <1>b, <1>4
<1>7. SessionScopes'
  <2>1. \A u \in SessionTasks : /\ Scope(u) \notin cs /\ Scope(u) \in SessionTasks \cup {NULL}
                                /\ Scope(u)' = IF u \in cs THEN scope ELSE Scope(u)
    BY <1>a, <1>b, <1>2, <1>4 DEF SessionInv, SessionScopes, SessionCalls, SessionType, SessionContexts
  <2>2. scope \notin cs /\ Scope(scope) = scope /\ Live(scope)
    BY <1>b, <1>2, <2>1 DEF SessionInv, SessionScopes
  <2>3. \A u \in SessionTasks : /\ (Live(u)' <=> Live(u) \/ u \in cs)
                                /\ sTask'[u].pc = "absent" => sTask[u].pc = "absent" /\ u \notin cs /\ sTask'[u] = sTask[u]
                                /\ sTask'[u].pc = "done" <=> sTask[u].pc = "done" 
    BY <1>a, <1>2, <1>4 DEF SessionCalls
  <2> SUFFICES ASSUME NEW u \in SessionTasks
               PROVE  /\ sTask'[u].pc = "absent" => sTask'[u] = Session!Absent
                      /\ Scope(u)' # NULL => sTask'[Scope(u)'].pc # "absent" /\ sTask'[Scope(u)'].scope = Scope(u)'
                      /\ Live(u)' /\ Scope(u)' # NULL => sTask'[Scope(u)'].pc \in {"run", "emit", "connect"}
                      /\ sOutcome'[u] # "open" <=> sTask'[u].pc = "done" /\ Scope(u)' = u
    BY DEF SessionScopes, Session!Absent
  <2>4. CASE u \in cs
    BY <1>4, <1>b, <2>1, <2>2, <2>3, <2>4, <1>2 DEF SessionInv, SessionScopes, SessionBesides
  <2>5. CASE u \notin cs
    BY <2>1, <2>2, <2>3, <2>5, <1>2 DEF SessionInv, SessionScopes, SessionBesides
  <2> QED BY <2>4, <2>5
<1>8. SessionPath'
  <2>1. PICK waiting \in [SessionTasks -> SUBSET SessionTasks] : Waits(waiting)
    BY DEF SessionInv, SessionPath
  <2> DEFINE then == [u \in SessionTasks |-> IF u \in cs THEN waiting[t] \cup {t} ELSE waiting[u]]
  <2>2. Waits(then)'
    BY <1>a, <1>b, <1>2, <1>4, <1>5, <2>1 DEF SessionInv, SessionScopes, Waits, SessionBesides, SessionCalls
  <2> QED BY <2>2 DEF SessionPath
<1>9. SessionInside'
  BY <1>a, <1>b, <1>2, <1>4 DEF SessionInv, SessionInside, Inside, InBlocks, OnOpen, OnOwn, SessionBesides, SessionCalls, SessionHeld
<1>10. SessionHeld'
  BY <1>a, <1>b, <1>2, <1>4 DEF SessionInv, SessionHeld, SessionBesides, SessionCalls
<1>11. SessionKept'
  <2>2. \A u \in SessionTasks : ScopeKept(u)'
    BY <1>w, <1>2 DEF SessionInv, SessionKept, ScopeKept, SessionBesides
  <2>3. \A u \in SessionTasks : BlocksKept(u)'
    BY <1>a, <1>b, <1>2, <1>w DEF SessionInv, SessionKept, BlocksKept, SessionBesides, SessionCalls
  <2>4. DiskKept'
    BY <1>w, <1>2 DEF SessionInv, SessionKept, DiskKept, SessionBesides
  <2> QED BY <2>2, <2>3, <2>4 DEF SessionKept
<1> QED BY <1>t, <1>7, <1>8, <1>9, <1>10, <1>11 DEF SessionInv

(* What the transaction of a task is, and where its writes go. *)
LEMMA SessionConnection ==
  ASSUME SessionInv, NEW t \in SessionTasks, sTask[t].pc = "run"
  PROVE  /\ Session!ConnOf(t) = IF Scope(t) = NULL THEN sTask[t].tx ELSE sUow[Scope(t)]
         /\ sTask[t].tx \notin {NULL, Session!ConnOf(t)} => FALSE
         /\ Session!ConnOf(t) # NULL => Session!ConnOf(t) \in DOMAIN sConns /\ sConns[Session!ConnOf(t)].open
         /\ Session!Open = Opened /\ Opened \subseteq Nat
         /\ Scope(t) \in SessionTasks \cup {NULL} /\ sTask[t] \in SessionContexts
<1> USE SessionAssumption DEF Scope, Live, Shares, Opened
<1>1. Session!Open = Opened /\ Opened \subseteq Nat
  BY DEF Session!Open, SessionInv, SessionType
<1>2. Scope(t) \in SessionTasks \cup {NULL} /\ sTask[t] \in SessionContexts
  BY DEF SessionInv, SessionType, SessionContexts
<1>3. sTask[t].tx # NULL => sTask[t].tx \in Opened /\ (Scope(t) # NULL => sTask[t].tx = sUow[Scope(t)])
  BY DEF SessionInv, SessionInside, Inside, InBlocks, OnOpen, OnOwn
<1>4. Scope(t) # NULL => sUow[Scope(t)] = NULL \/ sUow[Scope(t)] \in Opened
  BY <1>2 DEF SessionInv, SessionHeld
<1> QED BY <1>1, <1>2, <1>3, <1>4 DEF Session!ConnOf

(* A statement that fails, or is counted before something else happens.    *)
LEMMA SessionCounts ==
  ASSUME SessionInv, UNCHANGED << sTask, sConns, sUow, sDurable, sOutcome, sMeant >>, sOps' \in Nat
  PROVE  SessionInv'
<1> USE DEF Scope, Live, Shares, Opened, Written
<1>1. SessionType'
  BY DEF SessionInv, SessionType
<1>2. SessionScopes' /\ SessionInside' /\ SessionHeld'
  BY DEF SessionInv, SessionScopes, SessionInside, Inside, InBlocks, OnOpen, OnOwn, SessionHeld
<1>3. SessionPath'
  BY DEF SessionInv, SessionPath, Waits
<1>4. SessionKept'
  BY DEF SessionInv, SessionKept, ScopeKept, BlocksKept, DiskKept
<1> QED BY <1>1, <1>2, <1>3, <1>4 DEF SessionInv

(* Connections, and one of them changed. *)
LEMMA ConnectionTyped ==
  ASSUME NEW q \in Seq(SessionConns), NEW c \in DOMAIN q
  PROVE  q[c] \in SessionConns /\ c \in Nat
<1>1. DOMAIN q = 1 .. Len(q) /\ Len(q) \in Nat
  BY LenProperties
<1> QED BY <1>1, ElementOfSeq

Changed(q, c, k) == [q EXCEPT ![c] = k]

LEMMA ConnectionChanges ==
  ASSUME NEW q \in Seq(SessionConns), NEW c \in DOMAIN q, NEW k \in SessionConns
  PROVE  /\ Changed(q, c, k) \in Seq(SessionConns)
         /\ DOMAIN Changed(q, c, k) = DOMAIN q
         /\ \A d \in DOMAIN q : Changed(q, c, k)[d] = IF d = c THEN k ELSE q[d]
<1>1. DOMAIN q = 1 .. Len(q) /\ Len(q) \in Nat
  BY LenProperties
<1> QED BY <1>1, ExceptSeq DEF Changed

(* The writes of one connection become another set of writes, or it is     *)
(* closed.                                                                 *)
Logging(c, log) == sConns' = [sConns EXCEPT ![c].log = log]
Closing(c) == sConns' = [sConns EXCEPT ![c].open = FALSE]

LEMMA ConnectionLogs ==
  ASSUME sConns \in Seq(SessionConns), NEW c \in DOMAIN sConns, NEW log \in SUBSET SessionWrites,
         Logging(c, log)
  PROVE  /\ sConns' \in Seq(SessionConns) /\ DOMAIN sConns' = DOMAIN sConns
         /\ \A d \in DOMAIN sConns : /\ sConns'[d].open = sConns[d].open
                                     /\ sConns'[d].log = IF d = c THEN log ELSE sConns[d].log
<1>1. PICK k \in SessionConns : k = sConns[c]
  BY ConnectionTyped
<1> DEFINE then == [k EXCEPT !.log = log]
<1>2. then \in SessionConns /\ then.open = k.open /\ then.log = log
  BY DEF SessionConns
<1>3. sConns' = Changed(sConns, c, then)
  BY <1>1 DEF Changed, Logging, Closing
<1> HIDE DEF then
<1>4. /\ sConns' \in Seq(SessionConns) /\ DOMAIN sConns' = DOMAIN sConns
      /\ sConns'[c] = then /\ \A d \in DOMAIN sConns : d # c => sConns'[d] = sConns[d]
  BY <1>2, <1>3, ConnectionChanges
<1> QED BY <1>1, <1>2, <1>4

LEMMA ConnectionCloses ==
  ASSUME sConns \in Seq(SessionConns), NEW c \in DOMAIN sConns,
         Closing(c)
  PROVE  /\ sConns' \in Seq(SessionConns) /\ DOMAIN sConns' = DOMAIN sConns
         /\ ~sConns'[c].open
         /\ \A d \in DOMAIN sConns : d # c => sConns'[d].open = sConns[d].open
         /\ \A d \in DOMAIN sConns : sConns'[d].log = sConns[d].log
<1>1. PICK k \in SessionConns : k = sConns[c]
  BY ConnectionTyped
<1> DEFINE then == [k EXCEPT !.open = FALSE]
<1>2. then \in SessionConns /\ then.open = FALSE /\ then.log = k.log
  BY DEF SessionConns
<1>3. sConns' = Changed(sConns, c, then)
  BY <1>1 DEF Changed, Logging, Closing
<1> HIDE DEF then
<1>4. /\ sConns' \in Seq(SessionConns) /\ DOMAIN sConns' = DOMAIN sConns
      /\ sConns'[c] = then /\ \A d \in DOMAIN sConns : d # c => sConns'[d] = sConns[d]
  BY <1>2, <1>3, ConnectionChanges
<1> QED BY <1>1, <1>2, <1>4

(* A statement on the connection there is. *)
LEMMA SessionWriteHere ==
  ASSUME SessionInv, NEW t \in SessionTasks, sTask[t].pc = "run",
         NEW c \in Nat, c = Session!ConnOf(t), c \in Session!Open,
         sConns' = [sConns EXCEPT ![c].log = sConns[c].log \cup {<< t, sOps >>}],
         Session!Note(t, << t, sOps >>), sOps' = sOps + 1,
         UNCHANGED << sTask, sUow, sDurable, sOutcome >>
  PROVE  SessionInv'
<1> USE SessionAssumption DEF Scope, Live, Shares, Opened
<1> DEFINE w == << t, sOps >>
<1>1. /\ c = IF Scope(t) = NULL THEN sTask[t].tx ELSE sUow[Scope(t)]
      /\ c \in DOMAIN sConns /\ c \in Opened /\ c # NULL
      /\ Scope(t) \in SessionTasks \cup {NULL}
  BY SessionConnection
<1>2. /\ DOMAIN sConns' = DOMAIN sConns
      /\ \A d \in DOMAIN sConns : /\ sConns'[d].open = sConns[d].open
                                  /\ sConns'[d].log = IF d = c THEN sConns[d].log \cup {w} ELSE sConns[d].log
      /\ sConns' \in Seq(SessionConns)
  <2>1. w \in SessionWrites /\ sConns \in Seq(SessionConns)
    BY DEF SessionInv, SessionType, SessionWrites, SessionConns
  <2>2. sConns[c].log \in SUBSET SessionWrites
    BY <1>1, <2>1, ConnectionTyped DEF SessionConns
  <2>3. sConns[c].log \cup {w} \in SUBSET SessionWrites
    BY <2>1, <2>2
  <2>4. sConns' = [sConns EXCEPT ![c].log = sConns[c].log \cup {w}] /\ c \in DOMAIN sConns
    BY <1>1
  <2> HIDE DEF w
  <2> DEFINE log == sConns[c].log \cup {w}
  <2>5. Logging(c, log) /\ log \in SUBSET SessionWrites
    BY <2>3, <2>4 DEF Logging
  <2> HIDE DEF log
  <2>6. /\ sConns' \in Seq(SessionConns) /\ DOMAIN sConns' = DOMAIN sConns
        /\ \A d \in DOMAIN sConns : /\ sConns'[d].open = sConns[d].open
                                    /\ sConns'[d].log = IF d = c THEN log ELSE sConns[d].log
    BY <2>1, <2>4, <2>5, ConnectionLogs
  <2> QED BY <2>6 DEF log
<1>3. /\ sMeant' \in [SessionTasks -> SUBSET SessionWrites]
      /\ \A s \in SessionTasks : sMeant'[s] = IF s = Scope(t) THEN sMeant[s] \cup {w} ELSE sMeant[s]
  <2>1. w \in SessionWrites /\ sMeant \in [SessionTasks -> SUBSET SessionWrites]
    BY DEF SessionInv, SessionType, SessionWrites
  <2>2. sMeant' = IF Scope(t) = NULL THEN sMeant ELSE [sMeant EXCEPT ![Scope(t)] = sMeant[Scope(t)] \cup {w}]
    BY DEF Session!Note
  <2> HIDE DEF w
  <2> QED BY <1>1, <2>1, <2>2
<1>4. \A v, s : Written(v, s)' <=> Written(v, s)
  BY DEF Written
<1>5. Written(w, Scope(t))
  BY DEF Written
<1>6. Opened' = Opened
  BY <1>2
<1> HIDE DEF w
<1>7. SessionType'
  BY <1>2, <1>3 DEF SessionInv, SessionType
<1>8. SessionScopes'
  BY DEF SessionInv, SessionScopes
<1>9. SessionPath'
  BY DEF SessionInv, SessionPath, Waits
<1>10. SessionInside'
  BY <1>6 DEF SessionInv, SessionInside, Inside, InBlocks, OnOpen, OnOwn
<1>11. SessionHeld'
  BY <1>6 DEF SessionInv, SessionHeld
<1>12. SessionKept'
  <2>1. ASSUME NEW s \in SessionTasks PROVE ScopeKept(s)'
    <3>1. sUow[s] # NULL => sUow[s] \in DOMAIN sConns /\ (sUow[s] = c <=> s = Scope(t))
      BY <1>1 DEF SessionInv, SessionHeld, SessionInside, Inside, InBlocks, OnOpen, OnOwn
    <3>0. ScopeKept(s) /\ Scope(t) \in SessionTasks \cup {NULL}
      BY <1>1 DEF SessionInv, SessionKept
    <3>2. CASE s = Scope(t)
      <4>1. sUow[s] = c /\ sMeant'[s] = sMeant[s] \cup {w} /\ sConns'[c].log = sConns[c].log \cup {w}
        BY <1>1, <1>2, <1>3, <3>2
      <4>2. sOutcome[s] = "open"
        BY <1>1, <4>1, <3>2 DEF SessionInv, SessionHeld, SessionScopes
      <4> QED BY <4>1, <4>2, <1>1, <1>4, <1>5, <3>0, <3>2 DEF ScopeKept
    <3>3. CASE s # Scope(t)
      BY <1>2, <1>3, <1>4, <3>1, <3>3 DEF SessionInv, SessionKept, ScopeKept
    <3> QED BY <3>2, <3>3
  <2>2. ASSUME NEW u \in SessionTasks PROVE BlocksKept(u)'
    <3>1. sTask[u].tx # NULL /\ Scope(u) = NULL => sTask[u].tx \in DOMAIN sConns /\ (sTask[u].tx = c => Scope(t) = NULL)
      BY <1>1 DEF SessionInv, SessionInside, Inside, InBlocks, OnOpen, OnOwn
    <3>2. BlocksKept(u)
      BY DEF SessionInv, SessionKept
    <3>3. ASSUME sTask[u].tx # NULL, Scope(u) = NULL
          PROVE  \A v \in sConns'[sTask[u].tx].log : Written(v, NULL)
      <4>1. /\ sConns'[sTask[u].tx].log \subseteq sConns[sTask[u].tx].log \cup {w}
            /\ w \in sConns'[sTask[u].tx].log => Scope(t) = NULL \/ w \in sConns[sTask[u].tx].log
        <5>1. sTask[u].tx \in DOMAIN sConns /\ (sTask[u].tx = c => Scope(t) = NULL)
          BY <3>1, <3>3
        <5>2. sConns'[sTask[u].tx].log = IF sTask[u].tx = c THEN sConns[sTask[u].tx].log \cup {w} ELSE sConns[sTask[u].tx].log
          BY <1>2, <5>1
        <5> QED BY <5>1, <5>2
      <4>2. \A v \in sConns[sTask[u].tx].log : Written(v, NULL)
        BY <3>2, <3>3 DEF BlocksKept
      <4> QED BY <1>5, <4>1, <4>2
    <3> QED BY <1>4, <3>2, <3>3 DEF BlocksKept
  <2>3. DiskKept'
    BY <1>4 DEF SessionInv, SessionKept, DiskKept
  <2> QED BY <2>1, <2>2, <2>3 DEF SessionKept
<1> QED BY <1>7, <1>8, <1>9, <1>10, <1>11, <1>12 DEF SessionInv

(* A statement with no connection: one for itself, outside requests, or    *)
(* the task waits for one.                                                 *)
LEMMA SessionWriteAlone ==
  ASSUME SessionInv, NEW t \in SessionTasks, sTask[t].pc = "run", Scope(t) = NULL,
         sDurable' = sDurable \cup {<< t, sOps >>}, sOps' = sOps + 1,
         UNCHANGED << sTask, sConns, sUow, sOutcome, sMeant >>
  PROVE  SessionInv'
<1> USE SessionAssumption DEF Scope, Live, Shares, Opened
<1>1. SessionType'
  BY DEF SessionInv, SessionType, SessionWrites
<1>2. SessionScopes' /\ SessionInside' /\ SessionHeld'
  BY DEF SessionInv, SessionScopes, SessionInside, Inside, InBlocks, OnOpen, OnOwn, SessionHeld
<1>3. SessionPath'
  BY DEF SessionInv, SessionPath, Waits
<1>4. \A v, s : Written(v, s)' <=> Written(v, s)
  BY DEF Written
<1>5. Written(<< t, sOps >>, NULL)
  BY DEF Written
<1>6. SessionKept'
  <2>1. \A s \in SessionTasks : ScopeKept(s)' /\ BlocksKept(s)'
    BY <1>4 DEF SessionInv, SessionKept, ScopeKept, BlocksKept
  <2>2. DiskKept'
    BY <1>4, <1>5 DEF SessionInv, SessionKept, DiskKept
  <2> QED BY <2>1, <2>2 DEF SessionKept
<1> QED BY <1>1, <1>2, <1>3, <1>6 DEF SessionInv

(* A step that starts no task and ends none leaves the scopes as they are. *)
LEMMA SessionSameScopes ==
  ASSUME SessionInv, sOutcome' = sOutcome,
         \A u \in SessionTasks :
            /\ sTask'[u].scope = sTask[u].scope
            /\ sTask'[u].pc = sTask[u].pc \/ {sTask[u].pc, sTask'[u].pc} \subseteq {"run", "emit", "connect"}
            /\ sTask[u].pc = "absent" => sTask'[u] = sTask[u]
  PROVE  SessionScopes'
<1> SUFFICES ASSUME NEW u \in SessionTasks
             PROVE  /\ sTask'[u].pc = "absent" => sTask'[u] = Session!Absent
                    /\ Scope(u)' # NULL => sTask'[Scope(u)'].pc # "absent" /\ sTask'[Scope(u)'].scope = Scope(u)'
                    /\ Live(u)' /\ Scope(u)' # NULL => sTask'[Scope(u)'].pc \in {"run", "emit", "connect"}
                    /\ sOutcome'[u] # "open" <=> sTask'[u].pc = "done" /\ Scope(u)' = u
  BY DEF SessionScopes, Session!Absent, Scope, Live
<1>1. /\ sTask[u].pc = "absent" => sTask[u] = Session!Absent
      /\ Scope(u) # NULL => sTask[Scope(u)].pc # "absent" /\ Scope(Scope(u)) = Scope(u)
      /\ Live(u) /\ Scope(u) # NULL => Live(Scope(u))
      /\ sOutcome[u] # "open" <=> sTask[u].pc = "done" /\ Scope(u) = u
      /\ Scope(u) \in SessionTasks \cup {NULL}
  BY DEF SessionInv, SessionScopes, SessionType, SessionContexts, Scope
<1>2. Scope(u)' = Scope(u) /\ (Live(u)' <=> Live(u))
  BY DEF Scope, Live
<1>3. CASE Scope(u) = NULL
  BY <1>1, <1>2, <1>3 DEF Scope
<1>4. CASE Scope(u) # NULL
  BY <1>1, <1>2, <1>4 DEF Scope, Live
<1> QED BY <1>3, <1>4

LEMMA SessionWaits ==
  ASSUME SessionInv, NEW t \in SessionTasks, sTask[t].pc = "run", Session!ConnOf(t) = NULL,
         NEW for \in {"write", "tx"}, Scope(t) = NULL => for = "tx",
         sTask' = [sTask EXCEPT ![t] = [sTask[t] EXCEPT !.pc = "connect", !.for = for]],
         sOps' \in Nat, UNCHANGED << sConns, sUow, sDurable, sOutcome, sMeant >>
  PROVE  SessionInv'
<1> USE SessionAssumption DEF Scope, Live, Shares, Opened, Written
<1>1. /\ sTask[t].tx = NULL /\ sTask[t] \in SessionContexts
      /\ Scope(t) \in SessionTasks \cup {NULL} /\ (Scope(t) # NULL => sUow[Scope(t)] = NULL)
  BY SessionConnection
<1>t. SessionType'
  BY <1>1 DEF SessionInv, SessionType, SessionContexts, SessionPlaces
<1>a. /\ \A u \in SessionTasks : /\ u # t => sTask'[u] = sTask[u]
                                 /\ sTask'[u].scope = sTask[u].scope /\ sTask'[u].tx = sTask[u].tx
                                 /\ sTask'[u].blocks = sTask[u].blocks /\ sTask'[u].parent = sTask[u].parent
      /\ sTask'[t].pc = "connect" /\ sTask'[t].for = for
  BY <1>1 DEF SessionInv, SessionType, SessionContexts
<1>2. SessionScopes'
  BY <1>a DEF SessionInv, SessionScopes
<1>3. SessionPath'
  <2>1. PICK waiting \in [SessionTasks -> SUBSET SessionTasks] : Waits(waiting)
    BY DEF SessionInv, SessionPath
  <2>2. Waits(waiting)'
    BY <1>a, <2>1 DEF Waits
  <2> QED BY <2>2 DEF SessionPath
<1>4. SessionInside'
  BY <1>a, <1>1 DEF SessionInv, SessionInside, Inside, InBlocks, OnOpen, OnOwn
<1>5. SessionHeld'
  BY <1>a, <1>1 DEF SessionInv, SessionHeld
<1>6. SessionKept'
  <2>1. \A v, s : Written(v, s) => Written(v, s)'
    BY <1>a
  <2>2. \A s \in SessionTasks : ScopeKept(s)'
    BY <2>1 DEF SessionInv, SessionKept, ScopeKept
  <2>3. \A s \in SessionTasks : BlocksKept(s)'
    BY <2>1, <1>a DEF SessionInv, SessionKept, BlocksKept
  <2>4. DiskKept'
    BY <2>1 DEF SessionInv, SessionKept, DiskKept
  <2> QED BY <2>2, <2>3, <2>4 DEF SessionKept
<1> QED BY <1>t, <1>2, <1>3, <1>4, <1>5, <1>6 DEF SessionInv

LEMMA SessionWrite ==
  ASSUME SessionInv, NEW t \in SessionTasks, Session!Write(t)
  PROVE  SessionInv'
<1> USE SessionAssumption
<1> DEFINE c == Session!ConnOf(t)
           w == << t, sOps >>
<1>1. sTask[t].pc = "run" /\ sOps' = sOps + 1 /\ sOps \in Nat /\ UNCHANGED << sUow, sOutcome >>
  BY DEF Session!Write, Session!Runs, SessionInv, SessionType
<1>2. \/ /\ c # NULL /\ c \in Session!Open
         /\ sConns' = [sConns EXCEPT ![c].log = @ \cup {w}]
         /\ Session!Note(t, w)
         /\ UNCHANGED << sTask, sDurable >>
      \/ UNCHANGED << sTask, sConns, sDurable, sMeant >>
      \/ /\ c = NULL /\ sTask[t].scope = NULL
         /\ sDurable' = sDurable \cup {w}
         /\ UNCHANGED << sTask, sConns, sMeant >>
      \/ /\ c = NULL /\ sTask[t].scope # NULL
         /\ sTask' = [sTask EXCEPT ![t] = [sTask[t] EXCEPT !.pc = "connect", !.for = "write"]]
         /\ UNCHANGED << sConns, sDurable, sMeant >>
  BY DEF Session!Write
<1>3. c # NULL => c \in Nat
  BY <1>1, SessionConnection DEF SessionInv, SessionType
<1> HIDE DEF c
<1>4. CASE /\ c # NULL /\ c \in Session!Open
           /\ sConns' = [sConns EXCEPT ![c].log = @ \cup {w}]
           /\ Session!Note(t, w)
           /\ UNCHANGED << sTask, sDurable >>
  BY <1>1, <1>3, <1>4, SessionWriteHere DEF c
<1>5. CASE UNCHANGED << sTask, sConns, sDurable, sMeant >>
  BY <1>1, <1>5, SessionCounts
<1>6. CASE /\ c = NULL /\ sTask[t].scope = NULL
           /\ sDurable' = sDurable \cup {w}
           /\ UNCHANGED << sTask, sConns, sMeant >>
  BY <1>1, <1>6, SessionWriteAlone DEF Scope
<1>7. CASE /\ c = NULL /\ sTask[t].scope # NULL
           /\ sTask' = [sTask EXCEPT ![t] = [sTask[t] EXCEPT !.pc = "connect", !.for = "write"]]
           /\ UNCHANGED << sConns, sDurable, sMeant >>
  <2>1. "write" \in {"write", "tx"} /\ sOps' \in Nat
    BY <1>1
  <2>2. /\ sTask' = [sTask EXCEPT ![t] = [sTask[t] EXCEPT !.pc = "connect", !.for = "write"]]
        /\ Scope(t) # NULL /\ Session!ConnOf(t) = NULL
        /\ UNCHANGED << sConns, sUow, sDurable, sOutcome, sMeant >>
    BY <1>1, <1>7 DEF Scope, c
  <2> QED BY <1>1, <2>1, <2>2, SessionWaits
<1> QED BY <1>2, <1>4, <1>5, <1>6, <1>7

SavepointOf(c, before, mark) == [conn |-> c, own |-> FALSE, before |-> before, mark |-> mark]

LEMMA SavepointTyped ==
  ASSUME NEW c \in Nat, NEW before \in Nat \cup {NULL}, NEW mark \in SUBSET SessionWrites
  PROVE  /\ SavepointOf(c, before, mark) \in SessionBlocks
         /\ SavepointOf(c, before, mark).conn = c /\ ~SavepointOf(c, before, mark).own
         /\ SavepointOf(c, before, mark).before = before /\ SavepointOf(c, before, mark).mark = mark
BY DEF SessionBlocks, SavepointOf

Added(q, b) == Append(q, b)

LEMMA SessionBlockAdded ==
  ASSUME NEW q \in Seq(SessionBlocks), NEW b \in SessionBlocks
  PROVE  /\ Len(q) \in Nat /\ DOMAIN q = 1 .. Len(q) /\ (q = << >> <=> Len(q) = 0)
         /\ Added(q, b) \in Seq(SessionBlocks) /\ Added(q, b) # << >> /\ DOMAIN Added(q, b) = 1 .. Len(q) + 1
         /\ \A i \in 1 .. Len(q) : Added(q, b)[i] = q[i]
         /\ Added(q, b)[Len(q) + 1] = b
<1>1. Len(q) \in Nat /\ DOMAIN q = 1 .. Len(q) /\ (q = << >> <=> Len(q) = 0)
  BY LenProperties, EmptySeq
<1>2. /\ Added(q, b) \in Seq(SessionBlocks) /\ Added(q, b) # << >> /\ Len(Added(q, b)) = Len(q) + 1
      /\ \A i \in 1 .. Len(q) : Added(q, b)[i] = q[i]
      /\ Added(q, b)[Len(q) + 1] = b
  BY AppendProperties DEF Added
<1>3. DOMAIN Added(q, b) = 1 .. Len(Added(q, b))
  BY <1>2, LenProperties
<1> QED BY <1>1, <1>2, <1>3

(* A block opened on the connection there is: a savepoint. *)
SessionNests(t, c) ==
  /\ sTask[t].pc = "run" /\ c = Session!ConnOf(t) /\ c \in Session!Open
  /\ sTask' = [sTask EXCEPT ![t] = Session!Within(sTask[t], Session!Block(t, c, FALSE))]
  /\ sOps' \in Nat /\ UNCHANGED << sConns, sUow, sDurable, sOutcome, sMeant >>

LEMMA SessionEnterHere ==
  ASSUME SessionInv, NEW t \in SessionTasks, NEW c \in Nat, SessionNests(t, c)
  PROVE  SessionInv'
<1> USE DEF Scope, Live, Shares, Opened
<1>0. PICK b : b = Session!Block(t, c, FALSE)
  OBVIOUS
<1>n. UNCHANGED << sConns, sUow, sDurable, sOutcome, sMeant >> /\ sTask[t].pc = "run" /\ sOps' \in Nat
  BY DEF SessionNests
<1>1. /\ c = IF Scope(t) = NULL THEN sTask[t].tx ELSE sUow[Scope(t)]
      /\ c \in DOMAIN sConns /\ c \in Opened /\ c # NULL
      /\ Scope(t) \in SessionTasks \cup {NULL} /\ sTask[t].tx \in {NULL, c}
      /\ sTask[t] \in SessionContexts
  BY SessionAssumption, SessionConnection DEF SessionNests
<1>2. /\ b \in SessionBlocks
      /\ b.conn = c /\ ~b.own /\ b.before = sTask[t].tx /\ b.mark = sConns[c].log
  <2>1. sConns[c] \in SessionConns
    BY <1>1, ConnectionTyped DEF SessionInv, SessionType
  <2>2. b = SavepointOf(c, sTask[t].tx, sConns[c].log)
    BY <1>0 DEF Session!Block, SavepointOf
  <2>3. sConns[c].log \in SUBSET SessionWrites /\ sTask[t].tx \in Nat \cup {NULL}
    BY <1>1, <2>1 DEF SessionConns
  <2>4. PICK x \in Nat \cup {NULL} : x = sTask[t].tx
    BY <2>3
  <2>5. PICK y \in SUBSET SessionWrites : y = sConns[c].log
    BY <2>3
  <2>6. b = SavepointOf(c, x, y)
    BY <2>2, <2>4, <2>5
  <2>7. SavepointOf(c, x, y) \in SessionBlocks
    BY SavepointTyped
  <2>8. /\ SavepointOf(c, x, y).conn = c /\ ~SavepointOf(c, x, y).own
        /\ SavepointOf(c, x, y).before = x /\ SavepointOf(c, x, y).mark = y
    BY SavepointTyped
  <2> QED BY <2>4, <2>5, <2>6, <2>7, <2>8
<1> DEFINE blocks == sTask[t].blocks
           n == Len(blocks)
           more == Added(blocks, b)
           k == Session!Within(sTask[t], b)
<1>3. blocks \in Seq(SessionBlocks)
  BY <1>1 DEF SessionContexts
<1>4. /\ n \in Nat /\ DOMAIN blocks = 1 .. n /\ (blocks = << >> <=> n = 0)
      /\ more \in Seq(SessionBlocks) /\ more # << >> /\ DOMAIN more = 1 .. n + 1
      /\ \A i \in 1 .. n : more[i] = blocks[i]
      /\ more[n + 1] = b
  <2> HIDE DEF blocks
  <2> QED BY <1>2, <1>3, SessionBlockAdded
<1>5. /\ k.scope = sTask[t].scope /\ k.pc = sTask[t].pc /\ k.for = sTask[t].for
      /\ k.parent = sTask[t].parent /\ k.tx = c /\ k.blocks = more
      /\ k \in SessionContexts
  <2>1. k = [sTask[t] EXCEPT !.tx = c, !.blocks = more]
    BY <1>2 DEF Session!Within, Added
  <2> HIDE DEF k
  <2> QED BY <1>1, <1>4, <2>1 DEF SessionContexts
<1> HIDE DEF k
<1>6. sTask' = [sTask EXCEPT ![t] = k]
  BY <1>0 DEF k, SessionNests
<1> HIDE DEF more, n
<1>t. SessionType'
  BY <1>n, <1>5, <1>6 DEF SessionInv, SessionType
<1>a. /\ \A u \in SessionTasks : /\ u # t => sTask'[u] = sTask[u]
                                 /\ sTask'[u].scope = sTask[u].scope /\ sTask'[u].pc = sTask[u].pc
                                 /\ sTask'[u].for = sTask[u].for /\ sTask'[u].parent = sTask[u].parent
      /\ sTask'[t].tx = c /\ sTask'[t].blocks = more
      /\ Opened' = Opened /\ sTask'[t].pc = "run" /\ sTask'[t].scope = sTask[t].scope
  <2>1. sTask'[t] = k /\ \A u \in SessionTasks : u # t => sTask'[u] = sTask[u]
    BY <1>6 DEF SessionInv, SessionType
  <2> QED BY <1>n, <1>5, <2>1
<1>7. SessionScopes'
  <2>1. \A u \in SessionTasks : sTask[u].pc = "absent" => sTask'[u] = sTask[u]
    BY <1>n, <1>a
  <2> QED BY <1>n, <1>a, <2>1, SessionSameScopes
<1>8. SessionPath'
  <2>1. PICK waiting \in [SessionTasks -> SUBSET SessionTasks] : Waits(waiting)
    BY DEF SessionInv, SessionPath
  <2>2. Waits(waiting)'
    BY <1>a, <2>1 DEF Waits
  <2> QED BY <2>2 DEF SessionPath
<1>i. /\ sTask[t].tx = NULL <=> blocks = << >>
      /\ \A i \in 1 .. n : /\ blocks[i].conn = sTask[t].tx
                           /\ blocks[i].before = IF i = 1 THEN NULL ELSE sTask[t].tx
                           /\ blocks[i].own <=> i = 1 /\ Scope(t) = NULL
  BY <1>4 DEF SessionInv, SessionInside, Inside, InBlocks, OnOpen, OnOwn
<1> HIDE DEF blocks
<1>9. SessionInside'
  <2>1. \A i \in 1 .. n + 1 :
           /\ more[i].conn = c
           /\ more[i].before = IF i = 1 THEN NULL ELSE c
           /\ more[i].own <=> i = 1 /\ Scope(t) = NULL
    <3> SUFFICES ASSUME NEW i \in 1 .. n + 1
                 PROVE  /\ more[i].conn = c
                        /\ more[i].before = IF i = 1 THEN NULL ELSE c
                        /\ more[i].own <=> i = 1 /\ Scope(t) = NULL
      OBVIOUS
    <3>1. CASE i = n + 1
      <4>1. i = 1 <=> sTask[t].tx = NULL
        BY <1>4, <1>i, <3>1
      <4> QED BY <1>1, <1>2, <1>4, <3>1, <4>1
    <3>2. CASE i # n + 1
      <4>1. i \in 1 .. n /\ n # 0
        BY <1>4, <3>2
      <4>2. sTask[t].tx = c
        BY <1>1, <1>4, <1>i, <4>1
      <4> QED BY <1>4, <1>i, <4>1, <4>2
    <3> QED BY <3>1, <3>2
  <2>2. ASSUME NEW u \in SessionTasks, u # t, sTask[u].tx # NULL, Scope(u) = NULL, Scope(t) = NULL
        PROVE  sTask[u].tx # c
    BY <1>1, <2>2 DEF SessionInv, SessionInside, Inside, InBlocks, OnOpen, OnOwn
  <2>3. ASSUME Scope(t) = NULL
        PROVE  \A u \in SessionTasks : sUow[u] # c /\ (u # t /\ Scope(u) = NULL => sTask[u].tx # c)
    BY <1>1, <2>3 DEF SessionInv, SessionInside, Inside, InBlocks, OnOpen, OnOwn
  <2> SUFFICES ASSUME NEW u \in SessionTasks PROVE Inside(u)'
    BY DEF SessionInside
  <2>4. CASE u = t
    <3>0. /\ sTask'[t].tx = c /\ sTask'[t].blocks = more /\ sTask'[t].pc = "run" /\ sTask'[t].scope = Scope(t)
      BY <1>a
    <3>1. InBlocks(sTask'[t])
      <4>1. /\ sTask'[t].tx = NULL <=> sTask'[t].blocks = << >>
            /\ sTask'[t].pc = "connect" => FALSE
        BY <1>1, <1>4, <3>0
      <4>2. \A i \in DOMAIN sTask'[t].blocks :
               /\ sTask'[t].blocks[i].conn = sTask'[t].tx
               /\ sTask'[t].blocks[i].before = IF i = 1 THEN NULL ELSE sTask'[t].tx
               /\ sTask'[t].blocks[i].own <=> i = 1 /\ sTask'[t].scope = NULL
        BY <1>4, <2>1, <3>0
      <4> QED BY <4>1, <4>2 DEF InBlocks
    <3>2. OnOpen(sTask[t])'
      BY <1>n, <1>1, <1>a DEF OnOpen
    <3>3. OnOwn(t)'
      BY <1>n, <1>a, <2>3 DEF OnOwn
    <3> QED BY <2>4, <3>1, <3>2, <3>3 DEF Inside
  <2>5. CASE u # t
    <3>1. sTask'[u] = sTask[u] /\ Inside(u)
      BY <1>a, <2>5 DEF SessionInv, SessionInside
    <3>2. OnOpen(sTask[u])'
      BY <1>n, <1>a, <3>1 DEF Inside, OnOpen
    <3>3. OnOwn(u)'
      BY <1>n, <1>a, <2>2, <2>5, <3>1 DEF Inside, OnOwn
    <3> QED BY <3>1, <3>2, <3>3 DEF Inside
  <2> QED BY <2>4, <2>5
<1>10. SessionHeld'
  BY <1>n, <1>1, <1>a DEF SessionInv, SessionHeld
<1>11. SessionKept'
  <2>1. \A v, s : Written(v, s) => Written(v, s)'
    BY <1>a DEF Written
  <2>2. \A s \in SessionTasks : ScopeKept(s)'
    BY <1>n, <2>1 DEF SessionInv, SessionKept, ScopeKept
  <2>3. ASSUME NEW u \in SessionTasks PROVE BlocksKept(u)'
    <3>1. BlocksKept(u) /\ Scope(u)' = Scope(u)
      BY <1>a DEF SessionInv, SessionKept
    <3>2. CASE u # t
      BY <1>n, <1>a, <2>1, <3>1, <3>2 DEF BlocksKept
    <3>3. CASE u = t
      <4>1. \A v \in sConns[c].log : Written(v, Scope(t))
        <5>1. CASE Scope(t) = NULL
          BY <1>1, <3>1, <3>3, <5>1 DEF BlocksKept
        <5>2. CASE Scope(t) # NULL
          BY <1>1, <5>2 DEF SessionInv, SessionKept, ScopeKept
        <5> QED BY <5>1, <5>2
      <4>2. \A i \in 1 .. n + 1 : \A v \in more[i].mark : Written(v, Scope(t))
        <5> SUFFICES ASSUME NEW i \in 1 .. n + 1 PROVE \A v \in more[i].mark : Written(v, Scope(t))
          OBVIOUS
        <5>1. CASE i = n + 1
          BY <1>2, <1>4, <4>1, <5>1
        <5>2. CASE i # n + 1
          <6>1. i \in 1 .. n
            BY <1>4, <5>2
          <6> QED BY <1>4, <3>1, <3>3, <6>1 DEF BlocksKept, blocks
        <5> QED BY <5>1, <5>2
      <4>3. sConns' = sConns /\ \A v \in sConns[c].log : Written(v, Scope(t))'
        BY <1>n, <2>1, <4>1, <1>a
      <4>4. \A i \in DOMAIN more : \A v \in more[i].mark : Written(v, Scope(t))'
        BY <1>4, <1>a, <2>1, <4>2
      <4>5. Scope(t)' = Scope(t) /\ sTask'[t].tx = c /\ sTask'[t].blocks = more
        BY <1>a
      <4> QED BY <3>3, <4>3, <4>4, <4>5 DEF BlocksKept
    <3> QED BY <3>2, <3>3
  <2>4. DiskKept'
    BY <1>n, <2>1 DEF SessionInv, SessionKept, DiskKept
  <2> QED BY <2>2, <2>3, <2>4 DEF SessionKept
<1> QED BY <1>t, <1>7, <1>8, <1>9, <1>10, <1>11 DEF SessionInv

LEMMA SessionEnter ==
  ASSUME SessionInv, NEW t \in SessionTasks, Session!Enter(t)
  PROVE  SessionInv'
<1> USE SessionAssumption
<1> DEFINE c == Session!ConnOf(t)
           b == Session!Block(t, c, FALSE)
<1>1. sTask[t].pc = "run" /\ sOps' \in Nat /\ UNCHANGED << sConns, sUow, sDurable, sOutcome, sMeant >>
  BY DEF Session!Enter, Session!Runs, SessionInv, SessionType
<1>2. \/ /\ c # NULL /\ c \in Session!Open
         /\ sTask' = [sTask EXCEPT ![t] = Session!Within(sTask[t], b)]
      \/ /\ c = NULL
         /\ sTask' = [sTask EXCEPT ![t] = [@ EXCEPT !.pc = "connect", !.for = "tx"]]
  BY DEF Session!Enter
<1>3. c # NULL => c \in Nat
  BY <1>1, SessionConnection, LenProperties DEF SessionInv, SessionType
<1>4. CASE /\ c # NULL /\ c \in Session!Open
           /\ sTask' = [sTask EXCEPT ![t] = Session!Within(sTask[t], b)]
  <2>1. SessionNests(t, c) /\ c \in Nat
    BY <1>1, <1>3, <1>4 DEF SessionNests
  <2> HIDE DEF c
  <2> QED BY <2>1, SessionEnterHere
<1>5. CASE /\ c = NULL
           /\ sTask' = [sTask EXCEPT ![t] = [@ EXCEPT !.pc = "connect", !.for = "tx"]]
  <2>1. "tx" \in {"write", "tx"}
    OBVIOUS
  <2> QED BY <1>1, <1>5, <2>1, SessionWaits
<1> QED BY <1>2, <1>4, <1>5

(* The connection a task waited for. Nobody else opened one for its scope  *)
(* meanwhile: with one listener nobody else of the scope works, with one   *)
(* connection nothing was open.                                            *)
LEMMA SessionUnopened ==
  ASSUME SessionInv, NEW t \in SessionTasks, sTask[t].pc = "connect", Scope(t) # NULL,
         Cardinality(Opened) < SessionPool
  PROVE  sUow[Scope(t)] = NULL
<1>1. Scope(t) \in SessionTasks
  BY DEF SessionInv, SessionType, SessionContexts, Scope
<1>2. CASE SessionListeners <= 1
  BY <1>2 DEF SessionInv, SessionHeld, Scope
<1>3. CASE SessionPool <= 1
  <2>1. Opened \subseteq 1 .. Len(sConns) /\ Len(sConns) \in Nat
    BY LenProperties DEF SessionInv, SessionType, Opened
  <2>2. IsFiniteSet(Opened)
    <3>1. IsFiniteSet(1 .. Len(sConns))
      BY <2>1, FS_Interval
    <3> QED BY <2>1, <3>1, FS_Subset
  <2>3. Cardinality(Opened) \in Nat
    BY <2>2, FS_CardinalityType
  <2>4. Cardinality(Opened) = 0
    BY <1>3, <2>3, SessionAssumption
  <2>5. Opened = {}
    BY <2>2, <2>4, FS_EmptySet
  <2> QED BY <1>1, <2>5 DEF SessionInv, SessionHeld
<1> QED BY <1>2, <1>3, SessionAssumption

(* Nobody else of the scope waits for a connection. *)
LEMMA SessionOnlyOne ==
  ASSUME SessionInv, NEW t \in SessionTasks, sTask[t].pc # "emit", Live(t), Scope(t) # NULL,
         NEW u \in SessionTasks, u # t, Shares(u, Scope(t)), SessionListeners <= 1
  PROVE  sTask[u].pc = "emit"
<1>1. PICK waiting \in [SessionTasks -> SUBSET SessionTasks] : Waits(waiting)
  BY DEF SessionInv, SessionPath
<1>2. u \in waiting[t] \/ t \in waiting[u]
  BY <1>1 DEF Waits, Live, Shares, Scope
<1>3. t \notin waiting[u]
  BY <1>1 DEF Waits, Live, Shares, Scope
<1> QED BY <1>1, <1>2, <1>3 DEF Waits

OpenedOf(log) == [open |-> TRUE, log |-> log]
Grown(q, k) == Append(q, k)

LEMMA ConnectionOpens ==
  ASSUME NEW q \in Seq(SessionConns), NEW log \in SUBSET SessionWrites
  PROVE  LET c == Len(q) + 1
             then == Grown(q, OpenedOf(log))
         IN  /\ c \in Nat /\ c \notin DOMAIN q
             /\ then \in Seq(SessionConns) /\ DOMAIN then = DOMAIN q \cup {c}
             /\ \A d \in DOMAIN q : then[d] = q[d]
             /\ then[c].open /\ then[c].log = log
<1> DEFINE k == OpenedOf(log)
<1>1. k \in SessionConns /\ k.open /\ k.log = log
  BY DEF SessionConns, OpenedOf
<1> HIDE DEF k
<1> DEFINE then == Grown(q, k)
<1>2. Len(q) \in Nat /\ DOMAIN q = 1 .. Len(q)
  BY LenProperties
<1>3. /\ then \in Seq(SessionConns) /\ Len(then) = Len(q) + 1
      /\ \A i \in 1 .. Len(q) : then[i] = q[i]
      /\ then[Len(q) + 1] = k
  BY <1>1, AppendProperties DEF Grown
<1> HIDE DEF then
<1>4. DOMAIN then = 1 .. Len(then)
  BY <1>3, LenProperties
<1>5. DOMAIN then = DOMAIN q \cup {Len(q) + 1}
  BY <1>2, <1>3, <1>4
<1> QED BY <1>1, <1>2, <1>3, <1>5 DEF then, k


(* What a task has once it is connected: a statement on the connection, or *)
(* a first block.                                                          *)
SessionHas(t, c, log) ==
  /\ c \in Nat /\ c \notin DOMAIN sConns
  /\ sConns' \in Seq(SessionConns) /\ DOMAIN sConns' = DOMAIN sConns \cup {c}
  /\ \A d \in DOMAIN sConns : sConns'[d] = sConns[d]
  /\ sConns'[c].open /\ sConns'[c].log = log
  /\ sUow' \in [SessionTasks -> Nat \cup {NULL}]
  /\ \A u \in SessionTasks : sUow'[u] = IF u = Scope(t) THEN c ELSE sUow[u]
  /\ sTask' \in [SessionTasks -> SessionContexts]
  /\ \A u \in SessionTasks : /\ u # t => sTask'[u] = sTask[u]
                             /\ sTask'[u].scope = sTask[u].scope /\ sTask'[u].parent = sTask[u].parent
  /\ sTask'[t].pc = "run"
  /\ UNCHANGED << sDurable, sOutcome, sOps >>
SessionWrote(t, log) ==
  /\ sTask'[t].tx = NULL /\ sTask'[t].blocks = << >> /\ Scope(t) # NULL
  /\ log = {<< t, sOps - 1 >>}
  /\ sMeant' \in [SessionTasks -> SUBSET SessionWrites]
  /\ \A s \in SessionTasks : sMeant'[s] = IF s = Scope(t) THEN sMeant[s] \cup log ELSE sMeant[s]
SessionBegan(t, c, log) ==
  /\ sTask'[t].tx = c /\ log = {} /\ sMeant' = sMeant
  /\ DOMAIN sTask'[t].blocks = {1} /\ sTask'[t].blocks # << >>
  /\ sTask'[t].blocks[1].conn = c /\ sTask'[t].blocks[1].before = NULL
  /\ sTask'[t].blocks[1].mark = {}
  /\ sTask'[t].blocks[1].own <=> Scope(t) = NULL

LEMMA SessionHasIt ==
  ASSUME SessionInv, NEW t \in SessionTasks, sTask[t].pc = "connect", NEW c, NEW log,
         SessionHas(t, c, log), SessionWrote(t, log) \/ SessionBegan(t, c, log),
         Cardinality(Opened) < SessionPool
  PROVE  SessionInv'
<1> USE DEF Scope, Live, Shares
<1>1. /\ sTask[t].tx = NULL /\ sTask[t] \in SessionContexts /\ Scope(t) \in SessionTasks \cup {NULL}
      /\ Scope(t) # NULL => sUow[Scope(t)] = NULL /\ sMeant[Scope(t)] = {} /\ sOutcome[Scope(t)] = "open"
  <2>1. sTask[t].tx = NULL /\ sTask[t] \in SessionContexts /\ Scope(t) \in SessionTasks \cup {NULL}
    BY DEF SessionInv, SessionType, SessionContexts, SessionInside, Inside, OnOpen
  <2>2. ASSUME Scope(t) # NULL PROVE sUow[Scope(t)] = NULL
    BY <2>2, SessionUnopened
  <2>3. ASSUME Scope(t) # NULL PROVE sOutcome[Scope(t)] = "open"
    BY <2>1, <2>3 DEF SessionInv, SessionScopes
  <2>4. ASSUME Scope(t) # NULL PROVE sMeant[Scope(t)] = {}
    BY <2>1, <2>2, <2>3, <2>4 DEF SessionInv, SessionKept, ScopeKept
  <2> QED BY <2>1, <2>2, <2>3, <2>4
<1>n. NULL \notin SessionTasks \cup Nat
  BY SessionAssumption
<1>o. /\ Opened' = Opened \cup {c} /\ c \notin Opened /\ Opened \subseteq DOMAIN sConns /\ c \in Nat
      /\ \A u \in SessionTasks : sUow[u] # NULL => sUow[u] \in Opened
      /\ \A u \in SessionTasks : sTask[u].tx # NULL => sTask[u].tx \in Opened /\ u # t
  <2>1. Opened' = Opened \cup {c} /\ c \notin Opened /\ Opened \subseteq DOMAIN sConns /\ c \in Nat
    BY DEF SessionHas, Opened
  <2>2. \A u \in SessionTasks : sTask[u].tx # NULL => sTask[u].tx \in Opened
    BY DEF SessionInv, SessionInside, Inside, OnOpen
  <2>3. \A u \in SessionTasks : sUow[u] # NULL => sUow[u] \in Opened
    BY DEF SessionInv, SessionHeld
  <2> QED BY <1>1, <2>1, <2>2, <2>3
<1>a. /\ \A u \in SessionTasks : /\ u # t => sTask'[u] = sTask[u]
                                 /\ sTask'[u].scope = sTask[u].scope /\ sTask'[u].parent = sTask[u].parent
                                 /\ sUow'[u] = IF u = Scope(t) THEN c ELSE sUow[u]
      /\ sTask'[t].pc = "run" /\ UNCHANGED << sDurable, sOutcome, sOps >>
      /\ sTask'[t].tx \in {NULL, c}
  BY DEF SessionHas, SessionWrote, SessionBegan
<1>t. SessionType'
  <2>1. sMeant' \in [SessionTasks -> SUBSET SessionWrites]
    BY DEF SessionInv, SessionType, SessionWrote, SessionBegan
  <2> QED BY <2>1, <1>a DEF SessionInv, SessionType, SessionHas
<1>7. SessionScopes'
  <2>1. \A u \in SessionTasks : sTask[u].pc = "absent" => sTask'[u] = sTask[u]
    BY <1>a
  <2> QED BY <1>a, <2>1, SessionSameScopes
<1>8. SessionPath'
  <2>1. PICK waiting \in [SessionTasks -> SUBSET SessionTasks] : Waits(waiting)
    BY DEF SessionInv, SessionPath
  <2>2. \A u \in SessionTasks : (Live(u)' <=> Live(u)) /\ (sTask'[u].pc = "emit" <=> sTask[u].pc = "emit")
    BY <1>a
  <2>3. Waits(waiting)'
    BY <1>a, <2>1, <2>2 DEF Waits
  <2> QED BY <2>3 DEF SessionPath
<1>9. SessionInside'
  <2> SUFFICES ASSUME NEW u \in SessionTasks PROVE Inside(u)'
    BY DEF SessionInside
  <2>1. CASE u = t
    <3>1. CASE SessionWrote(t, log)
      <4>1. sTask'[t].tx = NULL /\ sTask'[t].blocks = << >> /\ sTask'[t].pc = "run"
        BY <1>a, <3>1 DEF SessionWrote
      <4>2. InBlocks(sTask'[t]) /\ OnOpen(sTask[t])' /\ OnOwn(t)'
        BY <4>1 DEF InBlocks, OnOpen, OnOwn
      <4> QED BY <2>1, <4>2 DEF Inside
    <3>2. CASE SessionBegan(t, c, log)
      <4>1. InBlocks(sTask'[t])
        <5>1. sTask'[t].tx = c /\ sTask'[t].blocks # << >> /\ sTask'[t].pc = "run" /\ c # NULL
          BY <1>a, <1>o, <1>n, <3>2 DEF SessionBegan
        <5>2. \A i \in DOMAIN sTask'[t].blocks : i = 1
          BY <3>2 DEF SessionBegan
        <5>3. /\ sTask'[t].blocks[1].conn = c /\ sTask'[t].blocks[1].before = NULL
              /\ sTask'[t].blocks[1].own <=> sTask'[t].scope = NULL
          BY <1>a, <3>2 DEF SessionBegan
        <5> QED BY <5>1, <5>2, <5>3 DEF InBlocks
      <4>2. OnOpen(sTask[t])'
        BY <1>1, <1>a, <1>o, <3>2 DEF OnOpen, SessionBegan
      <4>3. OnOwn(t)'
        BY <1>a, <1>o, <1>n, <3>2 DEF OnOwn, SessionBegan
      <4> QED BY <2>1, <4>1, <4>2, <4>3 DEF Inside
    <3> QED BY <3>1, <3>2
  <2>2. CASE u # t
    <3>1. sTask'[u] = sTask[u] /\ Inside(u)
      BY <1>a, <2>2 DEF SessionInv, SessionInside
    <3>2. OnOpen(sTask[u])'
      <4>1. OnOpen(sTask[u]) /\ Scope(u) \in SessionTasks \cup {NULL}
        BY <3>1 DEF Inside, SessionInv, SessionType, SessionContexts
      <4> QED BY <1>1, <1>a, <1>o, <3>1, <4>1 DEF OnOpen
    <3>3. OnOwn(u)'
      BY <1>a, <1>o, <2>2, <3>1 DEF Inside, OnOwn
    <3> QED BY <3>1, <3>2, <3>3 DEF Inside
  <2> QED BY <2>1, <2>2
<1>10. SessionHeld'
  <2>1. ASSUME NEW s \in SessionTasks, sUow'[s] # NULL
        PROVE  /\ sUow'[s] \in Opened' /\ Live(s)' /\ Scope(s)' = s
               /\ \A r \in SessionTasks : sUow'[r] = sUow'[s] => r = s
    <3>1. CASE s = Scope(t)
      <4>1. Live(s) /\ Scope(s) = s
        BY <1>n, <3>1 DEF SessionInv, SessionScopes
      <4> QED BY <1>a, <1>n, <1>o, <3>1, <4>1
    <3>2. CASE s # Scope(t)
      <4>1. /\ sUow[s] \in Opened /\ Live(s) /\ Scope(s) = s
            /\ \A r \in SessionTasks : sUow[r] = sUow[s] => r = s
        BY <1>a, <2>1, <3>2 DEF SessionInv, SessionHeld
      <4> QED BY <1>a, <1>n, <1>o, <3>2, <4>1
    <3> QED BY <3>1, <3>2
  <2>2. ASSUME NEW d \in Opened'
        PROVE  \/ \E s \in SessionTasks : sUow'[s] = d
               \/ \E u \in SessionTasks : Scope(u)' = NULL /\ sTask'[u].tx = d
    <3>1. CASE d = c
      BY <1>1, <1>a, <3>1 DEF SessionWrote, SessionBegan
    <3>2. CASE d # c
      <4>1. d \in Opened /\ d # NULL
        BY <1>o, <1>n, <2>2, <3>2 DEF SessionInv, SessionType, Opened
      <4>2. CASE \E s \in SessionTasks : sUow[s] = d
        BY <1>n, <1>1, <1>a, <4>1, <4>2
      <4>3. CASE \E u \in SessionTasks : Scope(u) = NULL /\ sTask[u].tx = d
        BY <1>1, <1>a, <4>1, <4>3
      <4> QED BY <4>1, <4>2, <4>3 DEF SessionInv, SessionHeld
    <3> QED BY <3>1, <3>2
  <2>3. ASSUME SessionListeners <= 1, NEW u \in SessionTasks, sTask'[u].pc = "connect", Scope(u)' # NULL
        PROVE  sUow'[Scope(u)'] = NULL
    <3>1. u # t /\ sTask[u].pc = "connect" /\ Scope(u)' = Scope(u) /\ Scope(u) \in SessionTasks
      BY <1>a, <2>3 DEF SessionInv, SessionType, SessionContexts
    <3>2. sUow[Scope(u)] = NULL
      BY <2>3, <3>1 DEF SessionInv, SessionHeld
    <3>3. Scope(u) # Scope(t)
      BY <2>3, <3>1, SessionOnlyOne
    <3> QED BY <1>a, <3>1, <3>2, <3>3
  <2> QED BY <2>1, <2>2, <2>3 DEF SessionHeld
<1>11. SessionKept'
  <2>1. \A v, s : Written(v, s) => Written(v, s)'
    BY <1>a DEF Written
  <2>2. ASSUME NEW s \in SessionTasks PROVE ScopeKept(s)'
    <3>1. ScopeKept(s)
      BY DEF SessionInv, SessionKept
    <3>2. CASE s = Scope(t)
      <4>1. sUow'[s] = c /\ sOutcome'[s] = "open" /\ sConns'[c].log = log
        BY <1>n, <1>1, <1>a, <3>2 DEF SessionHas
      <4>2. sMeant'[s] = log
        BY <1>n, <1>1, <3>2 DEF SessionWrote, SessionBegan
      <4>3. \A v \in log : Written(v, s)'
        BY <1>a, <3>2 DEF SessionWrote, SessionBegan, Written
      <4> QED BY <4>1, <4>2, <4>3, <1>n, <1>o DEF ScopeKept
    <3>3. CASE s # Scope(t)
      <4>1. sUow'[s] = sUow[s] /\ sMeant'[s] = sMeant[s]
        BY <1>a, <3>3 DEF SessionWrote, SessionBegan
      <4>2. sUow[s] # NULL => sConns'[sUow[s]] = sConns[sUow[s]]
        BY <1>o DEF SessionHas
      <4> QED BY <1>a, <2>1, <3>1, <4>1, <4>2 DEF ScopeKept
    <3> QED BY <3>2, <3>3
  <2>3. ASSUME NEW u \in SessionTasks PROVE BlocksKept(u)'
    <3>1. CASE u = t
      <4>1. CASE SessionWrote(t, log)
        BY <3>1, <4>1 DEF SessionWrote, BlocksKept
      <4>2. CASE SessionBegan(t, c, log)
        BY <3>1, <4>2 DEF SessionBegan, SessionHas, BlocksKept
      <4> QED BY <4>1, <4>2
    <3>2. CASE u # t
      <4>1. BlocksKept(u) /\ sTask'[u] = sTask[u]
        BY <1>a, <3>2 DEF SessionInv, SessionKept
      <4>2. sTask[u].tx # NULL => sConns'[sTask[u].tx] = sConns[sTask[u].tx]
        BY <1>o DEF SessionHas
      <4> QED BY <2>1, <4>1, <4>2 DEF BlocksKept
    <3> QED BY <3>1, <3>2
  <2>4. DiskKept'
    BY <1>a, <2>1 DEF SessionInv, SessionKept, DiskKept
  <2> QED BY <2>2, <2>3, <2>4 DEF SessionKept
<1> QED BY <1>t, <1>7, <1>8, <1>9, <1>10, <1>11 DEF SessionInv

LEMMA SessionConnected ==
  ASSUME SessionInv, NEW t \in SessionTasks, Session!Connected(t)
  PROVE  SessionInv'
<1> DEFINE c == Len(sConns) + 1
           w == << t, sOps - 1 >>
           writing == sTask[t].for = "write"
           scope == sTask[t].scope
           k == [sTask[t] EXCEPT !.pc = "run", !.for = NULL]
           b == [conn |-> c, own |-> scope = NULL, before |-> NULL, mark |-> {}]
           log == IF writing THEN {w} ELSE {}
<1>1. /\ sTask[t].pc = "connect" /\ Cardinality(Opened) < SessionPool
      /\ sTask[t] \in SessionContexts /\ scope \in SessionTasks \cup {NULL}
      /\ sTask[t].tx = NULL /\ sTask[t].blocks = << >> /\ (writing => scope # NULL)
  <2>1. sTask[t].pc = "connect" /\ Cardinality(Opened) < SessionPool
    <3>1. Session!Open = Opened
      BY DEF Session!Open, Opened
    <3> QED BY <3>1 DEF Session!Connected, Session!Cardinality, Cardinality
  <2>2. sTask[t] \in SessionContexts /\ scope \in SessionTasks \cup {NULL}
    BY DEF SessionInv, SessionType, SessionContexts
  <2> QED BY <2>1, <2>2 DEF SessionInv, SessionInside, Inside, InBlocks, OnOpen
<1>2. /\ sConns' = Grown(sConns, OpenedOf(log))
      /\ sUow' = IF scope = NULL THEN sUow ELSE [sUow EXCEPT ![scope] = c]
      /\ writing => Session!Note(t, w)
      /\ ~writing => sMeant' = sMeant
      /\ sTask' = [sTask EXCEPT ![t] = IF writing THEN k ELSE Session!Within(k, b)]
      /\ UNCHANGED << sDurable, sOutcome, sOps >>
  BY DEF Session!Connected, Grown, OpenedOf
<1>3. w \in SessionWrites /\ log \in SUBSET SessionWrites
  <2>1. w \in SessionWrites
    BY DEF SessionWrites, SessionInv, SessionType
  <2> QED BY <2>1
<1>4. /\ k \in SessionContexts /\ k.pc = "run" /\ k.for = NULL /\ k.scope = scope
      /\ k.parent = sTask[t].parent /\ k.tx = NULL /\ k.blocks = << >>
  BY <1>1 DEF SessionContexts, SessionPlaces
<1> HIDE DEF k, log, w
<1>5. /\ c \in Nat /\ c \notin DOMAIN sConns
      /\ sConns' \in Seq(SessionConns) /\ DOMAIN sConns' = DOMAIN sConns \cup {c}
      /\ \A d \in DOMAIN sConns : sConns'[d] = sConns[d]
      /\ sConns'[c].open /\ sConns'[c].log = log
  <2>1. PICK q \in Seq(SessionConns) : q = sConns
    BY DEF SessionInv, SessionType
  <2>2. PICK l \in SUBSET SessionWrites : l = log
    BY <1>3
  <2>3. sConns' = Grown(q, OpenedOf(l))
    BY <1>2, <2>1, <2>2
  <2>4. /\ Len(q) + 1 \in Nat /\ Len(q) + 1 \notin DOMAIN q
        /\ Grown(q, OpenedOf(l)) \in Seq(SessionConns)
        /\ DOMAIN Grown(q, OpenedOf(l)) = DOMAIN q \cup {Len(q) + 1}
        /\ \A d \in DOMAIN q : Grown(q, OpenedOf(l))[d] = q[d]
        /\ Grown(q, OpenedOf(l))[Len(q) + 1].open /\ Grown(q, OpenedOf(l))[Len(q) + 1].log = l
    BY ConnectionOpens
  <2> QED BY <2>1, <2>2, <2>3, <2>4
<1> DEFINE blocks == Session!Within(k, b).blocks
<1>6. /\ b \in SessionBlocks /\ b.conn = c /\ b.before = NULL /\ b.mark = {} /\ (b.own <=> scope = NULL)
  BY <1>5 DEF SessionBlocks
<1> HIDE DEF b, c
<1>7. /\ Session!Within(k, b) \in SessionContexts
      /\ Session!Within(k, b).pc = "run" /\ Session!Within(k, b).scope = scope
      /\ Session!Within(k, b).parent = sTask[t].parent /\ Session!Within(k, b).tx = c
      /\ blocks = Added(k.blocks, b)
  <2>1. Added(k.blocks, b) \in Seq(SessionBlocks)
    BY <1>4, <1>6, SessionBlockAdded DEF SessionContexts
  <2>2. Session!Within(k, b) = [k EXCEPT !.tx = c, !.blocks = Added(k.blocks, b)]
    BY <1>6 DEF Session!Within, Added
  <2> QED BY <1>4, <1>5, <2>1, <2>2 DEF SessionContexts
<1>8. DOMAIN blocks = {1} /\ blocks # << >> /\ blocks[1] = b
  <2>1. k.blocks \in Seq(SessionBlocks) /\ Len(k.blocks) = 0
    BY <1>4 DEF SessionContexts
  <2>2. /\ DOMAIN Added(k.blocks, b) = 1 .. 0 + 1 /\ Added(k.blocks, b) # << >>
        /\ Added(k.blocks, b)[0 + 1] = b
    BY <1>6, <2>1, SessionBlockAdded
  <2> QED BY <1>7, <2>2
<1> HIDE DEF blocks
<1>9. SessionHas(t, c, log)
  <2>1. /\ sUow' \in [SessionTasks -> Nat \cup {NULL}]
        /\ \A u \in SessionTasks : sUow'[u] = IF u = Scope(t) THEN c ELSE sUow[u]
    BY <1>1, <1>2, <1>5, SessionAssumption DEF SessionInv, SessionType, Scope
  <2>2. PICK l \in SessionContexts : /\ sTask' = [sTask EXCEPT ![t] = l]
                                    /\ l.pc = "run" /\ l.scope = scope /\ l.parent = sTask[t].parent
    BY <1>2, <1>4, <1>7
  <2>3. /\ sTask' \in [SessionTasks -> SessionContexts]
        /\ sTask'[t] = l /\ \A u \in SessionTasks : u # t => sTask'[u] = sTask[u]
    BY <2>2 DEF SessionInv, SessionType
  <2>4. /\ \A u \in SessionTasks : sTask'[u].scope = sTask[u].scope /\ sTask'[u].parent = sTask[u].parent
        /\ sTask'[t].pc = "run"
    BY <2>2, <2>3
  <2> QED BY <1>2, <1>5, <2>1, <2>3, <2>4 DEF SessionHas
<1>10. CASE writing
  <2>1. sTask'[t] = k
    BY <1>2, <1>10 DEF SessionInv, SessionType
  <2>2. sMeant' = [sMeant EXCEPT ![scope] = sMeant[scope] \cup {w}] /\ log = {w}
    BY <1>1, <1>2, <1>10 DEF Session!Note, log
  <2>3. /\ sMeant' \in [SessionTasks -> SUBSET SessionWrites]
        /\ \A s \in SessionTasks : sMeant'[s] = IF s = Scope(t) THEN sMeant[s] \cup log ELSE sMeant[s]
    BY <1>1, <1>3, <1>10, <2>2 DEF SessionInv, SessionType, Scope
  <2>4. SessionWrote(t, log)
    BY <1>1, <1>4, <1>10, <2>1, <2>2, <2>3 DEF SessionWrote, Scope, w
  <2> QED BY <1>1, <1>9, <2>4, SessionHasIt
<1>11. CASE ~writing
  <2>1. sTask'[t] = Session!Within(k, b)
    BY <1>2, <1>11 DEF SessionInv, SessionType
  <2>2. log = {} /\ sMeant' = sMeant
    BY <1>2, <1>11 DEF log
  <2>3. SessionBegan(t, c, log)
    BY <1>6, <1>7, <1>8, <2>1, <2>2 DEF SessionBegan, Scope, blocks
  <2> QED BY <1>1, <1>9, <2>3, SessionHasIt
<1> QED BY <1>10, <1>11

(* The last block of a task, and the rest of them. *)
LEMMA SessionBlockLeft ==
  ASSUME NEW q \in Seq(SessionBlocks), q # << >>
  PROVE  /\ Len(q) \in Nat \ {0} /\ DOMAIN q = 1 .. Len(q)
         /\ Session!Last(q) = q[Len(q)] /\ q[Len(q)] \in SessionBlocks
         /\ Session!Front(q) \in Seq(SessionBlocks) /\ DOMAIN Session!Front(q) = 1 .. Len(q) - 1
         /\ \A i \in 1 .. Len(q) - 1 : Session!Front(q)[i] = q[i]
         /\ Session!Front(q) = << >> <=> Len(q) = 1
<1> DEFINE n == Len(q)
           f == SubSeq(q, 1, n - 1)
<1>1. n \in Nat \ {0} /\ DOMAIN q = 1 .. n
  BY LenProperties, EmptySeq
<1>2. Session!Last(q) = q[n] /\ Session!Front(q) = f
  BY DEF Session!Last, Session!Front
<1>3. q[n] \in SessionBlocks
  BY <1>1, ElementOfSeq
<1>4. f \in Seq(SessionBlocks) /\ Len(f) = n - 1 /\ \A i \in 1 .. n - 1 : f[i] = q[i]
  <2>1. /\ \A i \in 1 .. n - 1 : q[i] \in SessionBlocks
        /\ 1 \in Nat /\ n - 1 \in Nat
    BY <1>1, ElementOfSeq
  <2> QED BY <1>1, <2>1, SubSeqProperties
<1> HIDE DEF f
<1>5. DOMAIN f = 1 .. Len(f) /\ (f = << >> <=> Len(f) = 0)
  BY <1>4, LenProperties, EmptySeq
<1>6. DOMAIN f = 1 .. n - 1 /\ (f = << >> <=> n = 1)
  BY <1>1, <1>4, <1>5
<1> QED BY <1>1, <1>2, <1>3, <1>4, <1>6

(* What a task is once it left its last block, b. *)
SessionLeft(t, b, n) ==
  /\ sTask[t].pc = "run" /\ sTask[t] \in SessionContexts /\ Scope(t) \in SessionTasks \cup {NULL}
  /\ b \in SessionBlocks /\ n \in Nat \ {0} /\ DOMAIN sTask[t].blocks = 1 .. n /\ b = sTask[t].blocks[n]
  /\ sTask[t].tx = b.conn /\ b.conn \in Opened
  /\ b.before = (IF n = 1 THEN NULL ELSE b.conn) /\ (b.own <=> n = 1 /\ Scope(t) = NULL)
  /\ \A w \in b.mark : Written(w, Scope(t))
  /\ sTask' \in [SessionTasks -> SessionContexts]
  /\ \A u \in SessionTasks : /\ u # t => sTask'[u] = sTask[u]
                             /\ sTask'[u].scope = sTask[u].scope /\ sTask'[u].pc = sTask[u].pc
                             /\ sTask'[u].for = sTask[u].for /\ sTask'[u].parent = sTask[u].parent
  /\ sTask'[t].tx = b.before /\ DOMAIN sTask'[t].blocks = 1 .. n - 1
  /\ (sTask'[t].blocks = << >> <=> n = 1)
  /\ \A i \in 1 .. n - 1 : sTask'[t].blocks[i] = sTask[t].blocks[i]
  /\ UNCHANGED << sUow, sOutcome, sOps >>

LEMMA SessionLeaves ==
  ASSUME SessionInv, NEW t \in SessionTasks, NEW rollback \in BOOLEAN, Session!Leave(t, rollback)
  PROVE  \E b, n : /\ SessionLeft(t, b, n)
                   /\ b = Session!Last(sTask[t].blocks)
<1> USE DEF Scope, Live, Shares
<1> DEFINE q == sTask[t].blocks
           n == Len(q)
           b == Session!Last(q)
           k == [sTask[t] EXCEPT !.tx = b.before, !.blocks = Session!Front(q)]
<1>1. /\ sTask[t].pc = "run" /\ q # << >> /\ q \in Seq(SessionBlocks)
      /\ sTask[t] \in SessionContexts /\ Scope(t) \in SessionTasks \cup {NULL}
  BY DEF Session!Leave, Session!Runs, SessionInv, SessionType, SessionContexts
<1>2. /\ n \in Nat \ {0} /\ DOMAIN q = 1 .. n
      /\ b = q[n] /\ b \in SessionBlocks
      /\ Session!Front(q) \in Seq(SessionBlocks) /\ DOMAIN Session!Front(q) = 1 .. n - 1
      /\ \A i \in 1 .. n - 1 : Session!Front(q)[i] = q[i]
      /\ Session!Front(q) = << >> <=> n = 1
  <2> HIDE DEF q
  <2> QED BY <1>1, SessionBlockLeft
<1>3. /\ b.conn = sTask[t].tx /\ sTask[t].tx \in Opened
      /\ b.before = (IF n = 1 THEN NULL ELSE b.conn) /\ (b.own <=> n = 1 /\ Scope(t) = NULL)
  <2>1. Inside(t) /\ n \in DOMAIN q
    BY <1>2 DEF SessionInv, SessionInside
  <2> HIDE DEF b, n
  <2> QED BY <1>1, <1>2, <2>1 DEF Inside, InBlocks, OnOpen
<1>4. \A w \in b.mark : Written(w, Scope(t))
  <2>1. BlocksKept(t) /\ n \in DOMAIN q
    BY <1>2 DEF SessionInv, SessionKept
  <2> HIDE DEF b, n
  <2> QED BY <1>2, <2>1 DEF BlocksKept
<1>5. b.before \in Nat \cup {NULL}
  BY <1>2 DEF SessionBlocks
<1>6. sTask' = [sTask EXCEPT ![t].tx = b.before, ![t].blocks = Session!Front(q)]
  BY DEF Session!Leave
<1> HIDE DEF b, n
<1>7. /\ k \in SessionContexts /\ k.scope = sTask[t].scope /\ k.pc = sTask[t].pc /\ k.for = sTask[t].for
      /\ k.parent = sTask[t].parent /\ k.tx = b.before /\ k.blocks = Session!Front(q)
  BY <1>1, <1>2, <1>5 DEF SessionContexts
<1>8. /\ sTask'[t] = k /\ \A u \in SessionTasks : u # t => sTask'[u] = sTask[u]
      /\ DOMAIN sTask' = SessionTasks
  BY <1>6 DEF SessionInv, SessionType
<1>9. sTask' \in [SessionTasks -> SessionContexts]
  BY <1>6, <1>7, <1>8 DEF SessionInv, SessionType
<1> HIDE DEF k
<1>10. UNCHANGED << sUow, sOutcome, sOps >>
  BY DEF Session!Leave
<1> HIDE DEF q
<1>11. SessionLeft(t, b, n)
  BY <1>1, <1>2, <1>3, <1>4, <1>7, <1>8, <1>9, <1>10 DEF SessionLeft, q
<1> QED BY <1>11 DEF b, q

(* The places and the contexts of the others stay as they are. *)
LEMMA SessionLeftScopes ==
  ASSUME SessionInv, NEW t \in SessionTasks, NEW b, NEW n, SessionLeft(t, b, n)
  PROVE  /\ SessionScopes' /\ SessionPath'
         /\ \A w, s : Written(w, s) => Written(w, s)'
<1>1. /\ \A u \in SessionTasks : /\ u # t => sTask'[u] = sTask[u]
                                 /\ sTask'[u].scope = sTask[u].scope /\ sTask'[u].pc = sTask[u].pc
                                 /\ sTask'[u].parent = sTask[u].parent
      /\ sTask[t].pc = "run" /\ sOutcome' = sOutcome
  BY DEF SessionLeft
<1>2. SessionScopes'
  <2>1. \A u \in SessionTasks : sTask[u].pc = "absent" => sTask'[u] = sTask[u]
    BY <1>1
  <2> QED BY <1>1, <2>1, SessionSameScopes
<1>3. SessionPath'
  <2>1. PICK waiting \in [SessionTasks -> SUBSET SessionTasks] : Waits(waiting)
    BY DEF SessionInv, SessionPath
  <2>2. Waits(waiting)'
    BY <1>1, <2>1 DEF Waits, Live, Shares, Scope
  <2> QED BY <2>2 DEF SessionPath
<1>4. \A w, s : Written(w, s) => Written(w, s)'
  BY <1>1 DEF Written, Scope
<1> QED BY <1>2, <1>3, <1>4

(* A savepoint: RELEASE, or ROLLBACK TO. *)
SessionReleases(t, b, rollback) ==
  /\ sConns' = IF rollback THEN [sConns EXCEPT ![b.conn].log = b.mark] ELSE sConns
  /\ sDurable' = sDurable
  /\ sMeant' \in [SessionTasks -> SUBSET SessionWrites]
  /\ \A s \in SessionTasks : sMeant'[s] =
        IF rollback /\ s = Scope(t) THEN sMeant[s] \ (sConns[b.conn].log \ b.mark) ELSE sMeant[s]

LEMMA SessionReleased ==
  ASSUME SessionInv, NEW t \in SessionTasks, NEW b, NEW n, SessionLeft(t, b, n), ~b.own,
         NEW rollback \in BOOLEAN, SessionReleases(t, b, rollback)
  PROVE  SessionInv'
<1> USE DEF Scope, Live, Shares
<1> DEFINE c == b.conn
<1>n. NULL \notin SessionTasks \cup Nat
  BY SessionAssumption
<1>1. /\ c \in Nat /\ c # NULL /\ c \in DOMAIN sConns /\ c \in Opened /\ sTask[t].tx = c
      /\ b.mark \in SUBSET SessionWrites
  BY <1>n DEF SessionLeft, SessionBlocks, Opened
<1>2. \A w \in b.mark : Written(w, Scope(t))
  BY DEF SessionLeft
<1> HIDE DEF c
<1>c. /\ sConns' \in Seq(SessionConns) /\ DOMAIN sConns' = DOMAIN sConns
      /\ \A d \in DOMAIN sConns : /\ sConns'[d].open = sConns[d].open
                                  /\ sConns'[d].log = IF d = c /\ rollback THEN b.mark ELSE sConns[d].log
  <2>1. sConns \in Seq(SessionConns)
    BY DEF SessionInv, SessionType
  <2>2. CASE rollback
    <3>1. Logging(c, b.mark)
      BY <2>2 DEF SessionReleases, Logging, c
    <3>2. /\ sConns' \in Seq(SessionConns) /\ DOMAIN sConns' = DOMAIN sConns
          /\ \A d \in DOMAIN sConns : /\ sConns'[d].open = sConns[d].open
                                      /\ sConns'[d].log = IF d = c THEN b.mark ELSE sConns[d].log
      BY <1>1, <2>1, <3>1, ConnectionLogs
    <3> QED BY <2>2, <3>2
  <2>3. CASE ~rollback
    BY <2>1, <2>3 DEF SessionReleases
  <2> QED BY <2>2, <2>3
<1>o. Opened' = Opened
  BY <1>c DEF Opened
<1>a. /\ \A u \in SessionTasks : /\ u # t => sTask'[u] = sTask[u]
                                 /\ sTask'[u].scope = sTask[u].scope /\ sTask'[u].pc = sTask[u].pc
      /\ sTask'[t].tx = (IF n = 1 THEN NULL ELSE c) /\ sTask[t].pc = "run"
      /\ n = 1 => Scope(t) # NULL
      /\ UNCHANGED << sUow, sOutcome, sDurable >>
      /\ \A i \in 1 .. n - 1 : sTask'[t].blocks[i] = sTask[t].blocks[i]
      /\ DOMAIN sTask[t].blocks = 1 .. n /\ DOMAIN sTask'[t].blocks = 1 .. n - 1
      /\ (sTask'[t].blocks = << >> <=> n = 1) /\ n \in Nat \ {0}
  BY DEF SessionLeft, SessionReleases, c
<1>t. SessionType'
  BY <1>c DEF SessionInv, SessionType, SessionLeft, SessionReleases
<1>7. SessionScopes' /\ SessionPath' /\ \A w, s : Written(w, s) => Written(w, s)'
  BY SessionLeftScopes
<1>9. SessionInside'
  <2> SUFFICES ASSUME NEW u \in SessionTasks PROVE Inside(u)'
    BY DEF SessionInside
  <2>0. /\ InBlocks(sTask[t]) /\ OnOpen(sTask[t]) /\ OnOwn(t)
    BY DEF SessionInv, SessionInside, Inside
  <2>1. CASE u = t
    <3>1. InBlocks(sTask'[t])
      <4>1. \A i \in 1 .. n - 1 : /\ sTask'[t].blocks[i].conn = c
                                  /\ sTask'[t].blocks[i].before = IF i = 1 THEN NULL ELSE c
                                  /\ sTask'[t].blocks[i].own <=> i = 1 /\ Scope(t) = NULL
        <5> SUFFICES ASSUME NEW i \in 1 .. n - 1
                     PROVE  /\ sTask'[t].blocks[i].conn = c
                            /\ sTask'[t].blocks[i].before = IF i = 1 THEN NULL ELSE c
                            /\ sTask'[t].blocks[i].own <=> i = 1 /\ Scope(t) = NULL
          OBVIOUS
        <5>1. i \in DOMAIN sTask[t].blocks /\ sTask'[t].blocks[i] = sTask[t].blocks[i]
          BY <1>a
        <5> QED BY <1>1, <2>0, <5>1 DEF InBlocks
      <4>2. \A i \in 1 .. n - 1 : n # 1
        BY <1>a
      <4> HIDE DEF InBlocks
      <4>3. /\ sTask'[t].tx = NULL <=> sTask'[t].blocks = << >>
            /\ sTask'[t].pc # "connect"
        BY <1>1, <1>a
      <4>4. \A i \in DOMAIN sTask'[t].blocks :
               /\ sTask'[t].blocks[i].conn = sTask'[t].tx
               /\ sTask'[t].blocks[i].before = IF i = 1 THEN NULL ELSE sTask'[t].tx
               /\ sTask'[t].blocks[i].own <=> i = 1 /\ sTask'[t].scope = NULL
        BY <1>a, <4>1, <4>2
      <4> QED BY <4>3, <4>4 DEF InBlocks
    <3>2. OnOpen(sTask[t])'
      BY <1>1, <1>a, <1>o, <2>0 DEF OnOpen
    <3>3. OnOwn(t)'
      BY <1>1, <1>a, <2>0 DEF OnOwn
    <3> QED BY <2>1, <3>1, <3>2, <3>3 DEF Inside
  <2>2. CASE u # t
    <3>1. sTask'[u] = sTask[u] /\ Inside(u)
      BY <1>a, <2>2 DEF SessionInv, SessionInside
    <3>2. OnOpen(sTask[u])'
      BY <1>a, <1>o, <3>1 DEF Inside, OnOpen
    <3>3. OnOwn(u)'
      BY <1>1, <1>a, <2>2, <3>1 DEF Inside, OnOwn
    <3> QED BY <3>1, <3>2, <3>3 DEF Inside
  <2> QED BY <2>1, <2>2
<1>10. SessionHeld'
  <2>0. sTask[t].scope # NULL \/ sTask'[t].tx = c
    BY <1>a
  <2>1. ASSUME NEW d \in Opened
        PROVE  \/ \E s \in SessionTasks : sUow'[s] = d
               \/ \E u \in SessionTasks : Scope(u)' = NULL /\ sTask'[u].tx = d
    <3>1. CASE \E s \in SessionTasks : sUow[s] = d
      BY <1>a, <3>1
    <3>2. CASE \E u \in SessionTasks : Scope(u) = NULL /\ sTask[u].tx = d
      BY <1>1, <1>a, <2>0, <3>2
    <3> QED BY <3>1, <3>2 DEF SessionInv, SessionHeld
  <2> QED BY <1>a, <1>o, <2>1 DEF SessionInv, SessionHeld
<1>11. SessionKept'
  <2>2. ASSUME NEW s \in SessionTasks PROVE ScopeKept(s)'
    <3>1. ScopeKept(s) /\ sUow' = sUow /\ sOutcome' = sOutcome /\ sDurable' = sDurable
      BY <1>a DEF SessionInv, SessionKept
    <3>2. sMeant'[s] \subseteq sMeant[s]
      BY DEF SessionReleases
    <3>3. sUow[s] # NULL => sUow[s] \in DOMAIN sConns
      BY DEF SessionInv, SessionHeld, Opened
    <3>4. sUow[s] # NULL /\ sUow[s] = c => s = Scope(t)
      <4>1. Inside(t) /\ Scope(t) \in SessionTasks \cup {NULL}
        BY DEF SessionInv, SessionInside, SessionType, SessionContexts
      <4> QED BY <1>1, <4>1 DEF Inside, OnOpen, OnOwn, SessionInv, SessionHeld
    <3>5. CASE rollback /\ sUow[s] # NULL /\ sUow[s] = c
      <4>1. sMeant'[s] \subseteq b.mark /\ sConns'[c].log = b.mark
        BY <1>1, <1>c, <3>1, <3>4, <3>5 DEF ScopeKept, SessionReleases, c
      <4> QED BY <1>2, <1>7, <3>1, <3>2, <3>4, <3>5, <4>1 DEF ScopeKept
    <3>6. CASE ~(rollback /\ sUow[s] # NULL /\ sUow[s] = c)
      <4>1. sUow[s] # NULL => sConns'[sUow[s]].log = sConns[sUow[s]].log
        BY <1>c, <3>3, <3>6
      <4> QED BY <1>7, <3>1, <3>2, <4>1 DEF ScopeKept
    <3> QED BY <3>5, <3>6
  <2>3. ASSUME NEW u \in SessionTasks PROVE BlocksKept(u)'
    <3>1. BlocksKept(u) /\ Scope(u)' = Scope(u)
      BY <1>a DEF SessionInv, SessionKept
    <3>2. \A i \in DOMAIN sTask'[u].blocks : \A w \in sTask'[u].blocks[i].mark : Written(w, Scope(u))'
      <4>1. CASE u = t
        BY <1>7, <1>a, <3>1, <4>1 DEF BlocksKept
      <4>2. CASE u # t
        BY <1>7, <1>a, <3>1, <4>2 DEF BlocksKept
      <4> QED BY <4>1, <4>2
    <3>3. ASSUME sTask'[u].tx # NULL, Scope(u) = NULL
          PROVE  \A w \in sConns'[sTask'[u].tx].log : Written(w, NULL)'
      <4>1. sTask'[u].tx = sTask[u].tx
        BY <1>1, <1>a, <3>3
      <4>2. sTask[u].tx \in DOMAIN sConns
        BY <3>3, <4>1 DEF SessionInv, SessionInside, Inside, OnOpen, Opened
      <4>3. \A w \in sConns[sTask[u].tx].log : Written(w, NULL)
        BY <3>1, <3>3, <4>1 DEF BlocksKept
      <4>4. CASE rollback /\ sTask[u].tx = c
        <5>1. Scope(t) = NULL
          <6>1. u # t => OnOwn(u) /\ OnOpen(sTask[t])
            BY DEF SessionInv, SessionInside, Inside
          <6> QED BY <1>1, <3>3, <4>1, <4>4, <6>1 DEF OnOwn, OnOpen, SessionInv, SessionType, SessionContexts
        <5> QED BY <1>2, <1>7, <1>c, <4>1, <4>2, <4>4, <5>1
      <4>5. CASE ~(rollback /\ sTask[u].tx = c)
        BY <1>7, <1>c, <4>1, <4>2, <4>3, <4>5
      <4> QED BY <4>4, <4>5
    <3> QED BY <3>1, <3>2, <3>3 DEF BlocksKept
  <2>4. DiskKept'
    BY <1>a, <1>7 DEF SessionInv, SessionKept, DiskKept
  <2> QED BY <2>2, <2>3, <2>4 DEF SessionKept
<1> QED BY <1>t, <1>7, <1>9, <1>10, <1>11 DEF SessionInv

(* A transaction outside requests: COMMIT or ROLLBACK, and its connection  *)
(* goes back.                                                              *)
LEMMA SessionCommits ==
  ASSUME SessionInv, NEW t \in SessionTasks, NEW b, NEW n, SessionLeft(t, b, n), b.own,
         Closing(b.conn), sMeant' = sMeant,
         sDurable' = sDurable \/ sDurable' = sDurable \cup sConns[b.conn].log
  PROVE  SessionInv'
<1> USE DEF Scope, Live, Shares
<1> DEFINE c == b.conn
<1>n. NULL \notin SessionTasks \cup Nat
  BY SessionAssumption
<1>1. /\ c \in Nat /\ c # NULL /\ c \in DOMAIN sConns /\ c \in Opened /\ sTask[t].tx = c
      /\ Scope(t) = NULL /\ n = 1
  BY <1>n DEF SessionLeft, SessionBlocks, Opened
<1>2. sConns[c].log \in SUBSET SessionWrites /\ \A w \in sConns[c].log : Written(w, NULL)
  <2>1. sConns[c] \in SessionConns
    BY <1>1, ConnectionTyped DEF SessionInv, SessionType
  <2> QED BY <1>1, <2>1 DEF SessionConns, SessionInv, SessionKept, BlocksKept
<1> HIDE DEF c
<1>c. /\ sConns' \in Seq(SessionConns) /\ DOMAIN sConns' = DOMAIN sConns
      /\ Opened' = Opened \ {c}
      /\ \A d \in DOMAIN sConns : sConns'[d].log = sConns[d].log
  <2>1. sConns \in Seq(SessionConns) /\ Closing(c)
    BY DEF SessionInv, SessionType, c
  <2>2. /\ sConns' \in Seq(SessionConns) /\ DOMAIN sConns' = DOMAIN sConns
        /\ ~sConns'[c].open
        /\ \A d \in DOMAIN sConns : d # c => sConns'[d].open = sConns[d].open
        /\ \A d \in DOMAIN sConns : sConns'[d].log = sConns[d].log
    BY <1>1, <2>1, ConnectionCloses
  <2>3. Opened' = Opened \ {c}
    BY <2>2 DEF Opened
  <2> QED BY <2>2, <2>3
<1>a. /\ \A u \in SessionTasks : /\ u # t => sTask'[u] = sTask[u]
                                 /\ sTask'[u].scope = sTask[u].scope /\ sTask'[u].pc = sTask[u].pc
      /\ sTask'[t].tx = NULL /\ sTask[t].pc = "run" /\ sTask'[t].blocks = << >>
      /\ UNCHANGED << sUow, sOutcome, sMeant >>
  BY <1>1 DEF SessionLeft
<1>b. sDurable' = sDurable \/ sDurable' = sDurable \cup sConns[c].log
  BY DEF c
<1>e. /\ \A u \in SessionTasks : sUow[u] # c
      /\ \A u \in SessionTasks : u # t => sTask[u].tx # c
  <2>1. OnOwn(t)
    BY DEF SessionInv, SessionInside, Inside
  <2>2. \A u \in SessionTasks : sUow[u] # c
    BY <1>1, <2>1 DEF OnOwn
  <2>3. ASSUME NEW u \in SessionTasks, u # t PROVE sTask[u].tx # c
    <3>1. OnOpen(sTask[u]) /\ Scope(u) \in SessionTasks \cup {NULL}
      BY DEF SessionInv, SessionInside, Inside, SessionType, SessionContexts
    <3> QED BY <1>1, <2>1, <2>2, <2>3, <3>1 DEF OnOwn, OnOpen
  <2> QED BY <2>2, <2>3
<1>t. SessionType'
  <2>1. sDurable' \subseteq SessionWrites
    BY <1>b, <1>2 DEF SessionInv, SessionType
  <2> QED BY <1>a, <1>c, <2>1 DEF SessionInv, SessionType, SessionLeft
<1>7. SessionScopes' /\ SessionPath' /\ \A w, s : Written(w, s) => Written(w, s)'
  BY SessionLeftScopes
<1>9. SessionInside'
  <2> SUFFICES ASSUME NEW u \in SessionTasks PROVE Inside(u)'
    BY DEF SessionInside
  <2>1. CASE u = t
    BY <1>a, <2>1 DEF Inside, InBlocks, OnOpen, OnOwn
  <2>2. CASE u # t
    <3>1. sTask'[u] = sTask[u] /\ Inside(u)
      BY <1>a, <2>2 DEF SessionInv, SessionInside
    <3>2. OnOpen(sTask[u])'
      BY <1>a, <1>c, <1>e, <2>2, <3>1 DEF Inside, OnOpen
    <3>3. OnOwn(u)'
      BY <1>n, <1>a, <2>2, <3>1 DEF Inside, OnOwn
    <3> QED BY <3>1, <3>2, <3>3 DEF Inside
  <2> QED BY <2>1, <2>2
<1>10. SessionHeld'
  <2>1. ASSUME NEW d \in Opened \ {c}
        PROVE  \/ \E s \in SessionTasks : sUow'[s] = d
               \/ \E u \in SessionTasks : Scope(u)' = NULL /\ sTask'[u].tx = d
    <3>1. CASE \E s \in SessionTasks : sUow[s] = d
      BY <1>a, <3>1
    <3>2. CASE \E u \in SessionTasks : Scope(u) = NULL /\ sTask[u].tx = d
      BY <1>1, <1>a, <2>1, <3>2
    <3> QED BY <2>1, <3>1, <3>2 DEF SessionInv, SessionHeld
  <2>2. ASSUME NEW s \in SessionTasks, sUow[s] # NULL
        PROVE  sUow[s] \in Opened \ {c}
    BY <1>e, <2>2 DEF SessionInv, SessionHeld
  <2> QED BY <1>a, <1>c, <2>1, <2>2 DEF SessionInv, SessionHeld
<1>11. SessionKept'
  <2>2. ASSUME NEW s \in SessionTasks PROVE ScopeKept(s)'
    <3>1. ScopeKept(s) /\ sUow' = sUow /\ sOutcome' = sOutcome /\ sMeant' = sMeant /\ sDurable \subseteq sDurable'
      BY <1>a, <1>b DEF SessionInv, SessionKept
    <3>2. sUow[s] # NULL => sConns'[sUow[s]].log = sConns[sUow[s]].log
      BY <1>c DEF SessionInv, SessionHeld, Opened
    <3> QED BY <1>7, <3>1, <3>2 DEF ScopeKept
  <2>3. ASSUME NEW u \in SessionTasks PROVE BlocksKept(u)'
    <3>1. CASE u = t
      BY <1>a, <3>1 DEF BlocksKept
    <3>2. CASE u # t
      <4>1. BlocksKept(u) /\ sTask'[u] = sTask[u]
        BY <1>a, <3>2 DEF SessionInv, SessionKept
      <4>2. sTask[u].tx # NULL => sConns'[sTask[u].tx].log = sConns[sTask[u].tx].log
        BY <1>c DEF SessionInv, SessionInside, Inside, OnOpen, Opened
      <4> QED BY <1>7, <4>1, <4>2 DEF BlocksKept
    <3> QED BY <3>1, <3>2
  <2>4. DiskKept'
    <3> SUFFICES ASSUME NEW w \in sDurable'
                 PROVE  \E s \in SessionTasks \cup {NULL} : Written(w, s)' /\ (s # NULL => sOutcome'[s] = "ok")
      BY DEF DiskKept
    <3>1. CASE w \in sDurable
      BY <1>a, <1>7, <3>1 DEF SessionInv, SessionKept, DiskKept
    <3>2. CASE w \in sConns[c].log
      BY <1>2, <1>7, <3>2
    <3> QED BY <1>b, <3>1, <3>2
  <2> QED BY <2>2, <2>3, <2>4 DEF SessionKept
<1> QED BY <1>t, <1>7, <1>9, <1>10, <1>11 DEF SessionInv

LEMMA SessionLeave ==
  ASSUME SessionInv, NEW t \in SessionTasks, NEW rollback \in BOOLEAN, Session!Leave(t, rollback)
  PROVE  SessionInv'
<1>1. PICK b, n : SessionLeft(t, b, n) /\ b = Session!Last(sTask[t].blocks)
  BY SessionLeaves
<1> DEFINE undone == sConns[b.conn].log \ b.mark
<1>2. /\ sConns' = CASE b.own -> Session!Closed(b.conn)
                     [] ~b.own /\ rollback -> [sConns EXCEPT ![b.conn].log = b.mark]
                     [] OTHER -> sConns
      /\ sDurable' = IF b.own /\ ~rollback THEN sDurable \cup sConns[b.conn].log ELSE sDurable
      /\ sMeant' = IF rollback THEN [s \in SessionTasks |-> IF s = Scope(t) THEN sMeant[s] \ undone ELSE sMeant[s]]
                   ELSE sMeant
  BY <1>1 DEF Session!Leave, Scope
<1>3. /\ sMeant \in [SessionTasks -> SUBSET SessionWrites] /\ NULL \notin SessionTasks
      /\ b.own \in BOOLEAN /\ (b.own => Scope(t) = NULL)
  BY <1>1, SessionAssumption DEF SessionInv, SessionType, SessionLeft, SessionBlocks
<1>4. CASE b.own
  <2>1. Closing(b.conn)
    BY <1>2, <1>4 DEF Closing, Session!Closed, Session!Close
  <2>2. sMeant' = sMeant
    BY <1>2, <1>3, <1>4
  <2>3. sDurable' = sDurable \/ sDurable' = sDurable \cup sConns[b.conn].log
    BY <1>2
  <2> QED BY <1>1, <1>4, <2>1, <2>2, <2>3, SessionCommits
<1>5. CASE ~b.own
  <2>1. sMeant' \in [SessionTasks -> SUBSET SessionWrites]
    BY <1>2, <1>3
  <2>2. \A s \in SessionTasks : sMeant'[s] = IF rollback /\ s = Scope(t) THEN sMeant[s] \ undone ELSE sMeant[s]
    BY <1>2, <1>3
  <2>3. SessionReleases(t, b, rollback)
    BY <1>2, <1>5, <2>1, <2>2 DEF SessionReleases
  <2> QED BY <1>1, <1>5, <2>3, SessionReleased
<1> QED BY <1>3, <1>4, <1>5

(* The end of a request: nobody else works in it, and its connection goes  *)
(* back, with what it wrote on disk or not.                                *)
LEMMA SessionEndsAlone ==
  ASSUME SessionInv, NEW t \in SessionTasks, sTask[t].pc = "run", Scope(t) = t,
         NEW u \in SessionTasks, Live(u), Scope(u) = t
  PROVE  u = t
<1>1. PICK waiting \in [SessionTasks -> SUBSET SessionTasks] : Waits(waiting)
  BY DEF SessionInv, SessionPath
<1>2. u # t => t \in waiting[u]
  BY <1>1, SessionAssumption DEF Waits
<1> QED BY <1>1, <1>2 DEF Waits

LEMMA SessionEnd ==
  ASSUME SessionInv, NEW t \in SessionTasks, NEW error \in BOOLEAN, Session!End(t, error)
  PROVE  SessionInv'
<1> USE DEF Scope, Live, Shares
<1> DEFINE c == sUow[t]
<1>n. NULL \notin SessionTasks \cup Nat
  BY SessionAssumption
<1>1. /\ sTask[t].pc = "run" /\ Scope(t) = t /\ sTask[t].blocks = << >>
      /\ sTask' = [sTask EXCEPT ![t].pc = "done"]
      /\ sOutcome' = [sOutcome EXCEPT ![t] = IF error THEN "error" ELSE "ok"]
      /\ sUow' = [sUow EXCEPT ![t] = NULL]
      /\ UNCHANGED << sMeant, sOps >>
      /\ sDurable' = (IF c = NULL \/ error THEN sDurable ELSE sDurable \cup sConns[c].log)
      /\ c = NULL => sConns' = sConns
      /\ c # NULL => Closing(c)
  BY DEF Session!End, Session!Runs, Session!Decide, Session!Closed, Session!Close, Closing
<1>2. /\ sTask[t].tx = NULL /\ sOutcome[t] = "open" /\ ScopeKept(t) /\ c \in Nat \cup {NULL}
      /\ c # NULL => c \in DOMAIN sConns /\ c \in Opened
  <2>1. sTask[t].tx = NULL
    BY <1>1 DEF SessionInv, SessionInside, Inside, InBlocks
  <2>2. sOutcome[t] = "open"
    BY <1>1 DEF SessionInv, SessionScopes
  <2>3. ScopeKept(t) /\ c \in Nat \cup {NULL}
    BY DEF SessionInv, SessionKept, SessionType
  <2>4. c # NULL => c \in Opened
    BY DEF SessionInv, SessionHeld
  <2> QED BY <2>1, <2>2, <2>3, <2>4 DEF Opened
<1>w. c # NULL => /\ sConns[c].log \in SUBSET SessionWrites /\ \A w \in sConns[c].log : Written(w, t)
                 /\ sMeant[t] \subseteq sConns[c].log
  <2> SUFFICES ASSUME c # NULL
               PROVE  /\ sConns[c].log \in SUBSET SessionWrites /\ \A w \in sConns[c].log : Written(w, t)
                      /\ sMeant[t] \subseteq sConns[c].log
    OBVIOUS
  <2>1. sConns[c] \in SessionConns
    BY <1>2, ConnectionTyped DEF SessionInv, SessionType
  <2> QED BY <1>2, <2>1 DEF SessionConns, ScopeKept
<1>u. \A u \in SessionTasks : Live(u) /\ Scope(u) = t => u = t
  BY <1>1, SessionEndsAlone
<1> HIDE DEF c
<1>c. /\ sConns' \in Seq(SessionConns) /\ DOMAIN sConns' = DOMAIN sConns
      /\ Opened' = Opened \ {c}
      /\ \A d \in DOMAIN sConns : sConns'[d].log = sConns[d].log
  <2>1. sConns \in Seq(SessionConns)
    BY DEF SessionInv, SessionType
  <2>2. CASE c # NULL
    <3>1. Closing(c)
      BY <1>1, <2>2 DEF c
    <3>2. /\ sConns' \in Seq(SessionConns) /\ DOMAIN sConns' = DOMAIN sConns
          /\ ~sConns'[c].open
          /\ \A d \in DOMAIN sConns : d # c => sConns'[d].open = sConns[d].open
          /\ \A d \in DOMAIN sConns : sConns'[d].log = sConns[d].log
      BY <1>2, <2>1, <2>2, <3>1, ConnectionCloses
    <3>3. Opened' = Opened \ {c}
      BY <3>2 DEF Opened
    <3> QED BY <3>2, <3>3
  <2>3. CASE c = NULL
    <3>1. sConns' = sConns
      BY <1>1, <2>3 DEF c
    <3>2. c \notin Opened
      BY <1>n, <2>1, <2>3, ConnectionTyped DEF Opened
    <3>3. Opened' = Opened \ {c}
      BY <3>1, <3>2 DEF Opened
    <3> QED BY <2>1, <3>1, <3>3
  <2> QED BY <2>2, <2>3
<1>a. /\ \A u \in SessionTasks :
           /\ u # t => sTask'[u] = sTask[u]
           /\ sTask'[u].scope = sTask[u].scope /\ sTask'[u].tx = sTask[u].tx
           /\ sTask'[u].blocks = sTask[u].blocks /\ sTask'[u].parent = sTask[u].parent
           /\ sTask'[u].for = sTask[u].for
      /\ sTask'[t].pc = "done" /\ sTask' \in [SessionTasks -> SessionContexts]
  <2>1. PICK k \in SessionContexts : k = sTask[t]
    BY DEF SessionInv, SessionType
  <2> DEFINE l == [k EXCEPT !.pc = "done"]
  <2>2. /\ l \in SessionContexts /\ l.pc = "done" /\ l.scope = k.scope /\ l.tx = k.tx /\ l.blocks = k.blocks
        /\ l.parent = k.parent /\ l.for = k.for
    BY DEF SessionContexts, SessionPlaces
  <2>3. sTask' = [sTask EXCEPT ![t] = l]
    BY <1>1, <2>1
  <2> HIDE DEF l
  <2>4. /\ sTask' \in [SessionTasks -> SessionContexts]
        /\ sTask'[t] = l /\ \A u \in SessionTasks : u # t => sTask'[u] = sTask[u]
    BY <2>2, <2>3 DEF SessionInv, SessionType
  <2> QED BY <2>1, <2>2, <2>4
<1>b. /\ \A u \in SessionTasks : u # t => sUow'[u] = sUow[u] /\ sOutcome'[u] = sOutcome[u]
      /\ sUow'[t] = NULL /\ sOutcome'[t] = (IF error THEN "error" ELSE "ok")
      /\ sMeant' = sMeant /\ sOps' = sOps
      /\ sUow' \in [SessionTasks -> Nat \cup {NULL}]
      /\ sOutcome' \in [SessionTasks -> {"open", "ok", "error"}]
      /\ sDurable' = (IF c = NULL \/ error THEN sDurable ELSE sDurable \cup sConns[c].log)
  BY <1>1 DEF SessionInv, SessionType, c
<1>e. \A u \in SessionTasks : /\ u # t /\ sUow[u] # NULL => sUow[u] # c
                              /\ sTask[u].tx # NULL => sTask[u].tx # c
  <2>1. \A u \in SessionTasks : u # t /\ sUow[u] # NULL => sUow[u] # c
    BY DEF SessionInv, SessionHeld, c
  <2>2. ASSUME NEW u \in SessionTasks, sTask[u].tx # NULL PROVE sTask[u].tx # c
    <3>1. Inside(u) /\ Scope(u) \in SessionTasks \cup {NULL}
      BY DEF SessionInv, SessionInside, SessionType, SessionContexts
    <3>2. CASE Scope(u) = NULL
      BY <2>2, <3>1, <3>2 DEF Inside, OnOwn, c
    <3>3. CASE Scope(u) # NULL
      <4>1. sTask[u].tx = sUow[Scope(u)] /\ Live(u)
        BY <2>2, <3>1, <3>3 DEF Inside, OnOpen
      <4>2. Scope(u) # t
        BY <1>2, <1>u, <2>2, <4>1
      <4> QED BY <2>1, <2>2, <3>1, <3>3, <4>1, <4>2
    <3> QED BY <3>2, <3>3
  <2> QED BY <2>1, <2>2
<1>t. SessionType'
  <2>1. sDurable' \subseteq SessionWrites
    BY <1>b, <1>w DEF SessionInv, SessionType, c
  <2> QED BY <1>a, <1>b, <1>c, <2>1 DEF SessionInv, SessionType
<1>v. \A w, s : Written(w, s) => Written(w, s)'
  BY <1>a DEF Written
<1>7. SessionScopes'
  <2> SUFFICES ASSUME NEW u \in SessionTasks
               PROVE  /\ sTask'[u].pc = "absent" => sTask'[u] = Session!Absent
                      /\ Scope(u)' # NULL => sTask'[Scope(u)'].pc # "absent" /\ sTask'[Scope(u)'].scope = Scope(u)'
                      /\ Live(u)' /\ Scope(u)' # NULL => sTask'[Scope(u)'].pc \in {"run", "emit", "connect"}
                      /\ sOutcome'[u] # "open" <=> sTask'[u].pc = "done" /\ Scope(u)' = u
    BY DEF SessionScopes, Session!Absent
  <2>1. /\ sTask[u].pc = "absent" => sTask[u] = Session!Absent
        /\ Scope(u) # NULL => sTask[Scope(u)].pc # "absent" /\ Scope(Scope(u)) = Scope(u)
        /\ Live(u) /\ Scope(u) # NULL => Live(Scope(u))
        /\ sOutcome[u] # "open" <=> sTask[u].pc = "done" /\ Scope(u) = u
        /\ Scope(u) \in SessionTasks \cup {NULL}
    BY DEF SessionInv, SessionScopes, SessionType, SessionContexts
  <2>2. CASE u = t
    BY <1>1, <1>a, <1>b, <2>2
  <2>3. CASE u # t
    <3>1. sTask'[u] = sTask[u] /\ sOutcome'[u] = sOutcome[u]
      BY <1>a, <1>b, <2>3
    <3>2. CASE Scope(u) = t
      BY <1>1, <1>a, <1>u, <2>1, <2>3, <3>1, <3>2
    <3>3. CASE Scope(u) # t
      BY <1>a, <2>1, <3>1, <3>3
    <3> QED BY <3>2, <3>3
  <2> QED BY <2>2, <2>3
<1>8. SessionPath'
  <2>1. PICK waiting \in [SessionTasks -> SUBSET SessionTasks] : Waits(waiting)
    BY DEF SessionInv, SessionPath
  <2>2. \A u \in SessionTasks : (Live(u)' <=> Live(u) /\ u # t) /\ (sTask'[u].pc = "emit" <=> sTask[u].pc = "emit")
    BY <1>1, <1>a
  <2>3. \A u \in SessionTasks : Live(u) => t \notin waiting[u]
    BY <1>1, <2>1 DEF Waits
  <2>4. \A u \in SessionTasks : Live(u) /\ u # t => Scope(u) # t
    BY <1>u
  <2>5. Waits(waiting)'
    <3> SUFFICES ASSUME NEW u \in SessionTasks, Live(u)'
                 PROVE  /\ \A p \in waiting[u] :
                              /\ sTask'[p].pc = "emit" /\ Scope(p)' = Scope(u)'
                              /\ \E q \in waiting[u] \cup {u} : Shares(q, Scope(p))' /\ sTask'[q].parent = p
                        /\ Scope(u)' \notin {NULL, u} => Scope(u)' \in waiting[u]
                        /\ SessionListeners <= 1 /\ Scope(u)' # NULL =>
                             \A r \in SessionTasks : Shares(r, Scope(u))' => r = u \/ r \in waiting[u] \/ u \in waiting[r]
      BY DEF Waits
    <3>1. Live(u) /\ u # t /\ waiting[u] \in SUBSET SessionTasks
      BY <2>2
    <3>2. ASSUME NEW p \in waiting[u]
          PROVE  /\ sTask'[p].pc = "emit" /\ Scope(p)' = Scope(u)'
                 /\ \E q \in waiting[u] \cup {u} : Shares(q, Scope(p))' /\ sTask'[q].parent = p
      <4>1. /\ sTask[p].pc = "emit" /\ Scope(p) = Scope(u) /\ p \in SessionTasks /\ p # t
        BY <2>1, <2>3, <3>1 DEF Waits
      <4>2. PICK q \in waiting[u] \cup {u} : Shares(q, Scope(p)) /\ sTask[q].parent = p
        BY <2>1, <3>1 DEF Waits
      <4>3. q # t /\ q \in SessionTasks
        BY <2>3, <3>1, <4>2
      <4> QED BY <1>a, <2>2, <4>1, <4>2, <4>3
    <3>3. /\ Scope(u)' \notin {NULL, u} => Scope(u)' \in waiting[u]
          /\ SessionListeners <= 1 /\ Scope(u)' # NULL =>
               \A r \in SessionTasks : Shares(r, Scope(u))' => r = u \/ r \in waiting[u] \/ u \in waiting[r]
      BY <1>a, <2>1, <2>2, <3>1 DEF Waits
    <3> QED BY <3>2, <3>3
  <2> QED BY <2>5 DEF SessionPath
<1>9. SessionInside'
  <2> SUFFICES ASSUME NEW u \in SessionTasks PROVE Inside(u)'
    BY DEF SessionInside
  <2>1. CASE u = t
    BY <1>1, <1>2, <1>a, <2>1 DEF Inside, InBlocks, OnOpen, OnOwn
  <2>2. CASE u # t
    <3>1. sTask'[u] = sTask[u] /\ Inside(u) /\ Scope(u) \in SessionTasks \cup {NULL}
      BY <1>a, <2>2 DEF SessionInv, SessionInside, SessionType, SessionContexts
    <3>2. OnOpen(sTask[u])'
      <4>1. sTask[u].tx # NULL => Scope(u) # t
        BY <1>u, <2>2, <3>1 DEF Inside, OnOpen
      <4> QED BY <1>b, <1>c, <1>e, <3>1, <4>1 DEF Inside, OnOpen
    <3>3. OnOwn(u)'
      BY <1>a, <1>b, <2>2, <3>1 DEF Inside, OnOwn
    <3> QED BY <3>1, <3>2, <3>3 DEF Inside
  <2> QED BY <2>1, <2>2
<1>10. SessionHeld'
  <2>1. ASSUME NEW s \in SessionTasks, sUow'[s] # NULL
        PROVE  /\ sUow'[s] \in Opened' /\ Live(s)' /\ Scope(s)' = s
               /\ \A r \in SessionTasks : sUow'[r] = sUow'[s] => r = s
    <3>1. s # t /\ sUow'[s] = sUow[s]
      BY <1>b, <2>1
    <3>2. /\ sUow[s] \in Opened /\ Live(s) /\ Scope(s) = s
          /\ \A r \in SessionTasks : sUow[r] = sUow[s] => r = s
      BY <2>1, <3>1 DEF SessionInv, SessionHeld
    <3>3. \A r \in SessionTasks : sUow'[r] = sUow'[s] => r = s
      BY <1>b, <2>1, <3>1, <3>2
    <3> QED BY <1>a, <1>c, <1>e, <2>1, <3>1, <3>2, <3>3
  <2>2. ASSUME NEW d \in Opened \ {c}
        PROVE  \/ \E s \in SessionTasks : sUow'[s] = d
               \/ \E u \in SessionTasks : Scope(u)' = NULL /\ sTask'[u].tx = d
    <3>1. CASE \E s \in SessionTasks : sUow[s] = d
      BY <1>b, <2>2, <3>1 DEF c
    <3>2. CASE \E u \in SessionTasks : Scope(u) = NULL /\ sTask[u].tx = d
      BY <1>a, <3>2
    <3> QED BY <2>2, <3>1, <3>2 DEF SessionInv, SessionHeld
  <2>3. ASSUME SessionListeners <= 1, NEW u \in SessionTasks, sTask'[u].pc = "connect", Scope(u)' # NULL
        PROVE  sUow'[Scope(u)'] = NULL
    <3>1. u # t /\ sTask[u].pc = "connect" /\ Scope(u)' = Scope(u) /\ Scope(u) \in SessionTasks
      BY <1>a, <2>3 DEF SessionInv, SessionType, SessionContexts
    <3>2. sUow[Scope(u)] = NULL
      BY <2>3, <3>1 DEF SessionInv, SessionHeld
    <3> QED BY <1>b, <3>1, <3>2
  <2> QED BY <1>c, <2>1, <2>2, <2>3 DEF SessionHeld
<1>11. SessionKept'
  <2>1. sDurable \subseteq sDurable'
    BY <1>b
  <2>2. ASSUME NEW s \in SessionTasks PROVE ScopeKept(s)'
    <3>1. ScopeKept(s) /\ sMeant' = sMeant
      BY <1>b DEF SessionInv, SessionKept
    <3>2. CASE s = t
      <4>1. ~error => sMeant[t] \subseteq sDurable'
        BY <1>2, <1>b, <1>w DEF ScopeKept, c
      <4> QED BY <1>b, <1>v, <3>1, <3>2, <4>1 DEF ScopeKept
    <3>3. CASE s # t
      <4>1. sUow'[s] = sUow[s] /\ sOutcome'[s] = sOutcome[s]
        BY <1>b, <3>3
      <4>2. sUow[s] # NULL => sConns'[sUow[s]].log = sConns[sUow[s]].log
        BY <1>c DEF SessionInv, SessionHeld, Opened
      <4> QED BY <1>v, <2>1, <3>1, <4>1, <4>2 DEF ScopeKept
    <3> QED BY <3>2, <3>3
  <2>3. ASSUME NEW u \in SessionTasks PROVE BlocksKept(u)'
    <3>1. BlocksKept(u) /\ sTask'[u].tx = sTask[u].tx /\ sTask'[u].blocks = sTask[u].blocks /\ Scope(u)' = Scope(u)
      BY <1>a DEF SessionInv, SessionKept
    <3>2. sTask[u].tx # NULL => sConns'[sTask[u].tx].log = sConns[sTask[u].tx].log
      BY <1>c DEF SessionInv, SessionInside, Inside, OnOpen, Opened
    <3> QED BY <1>v, <3>1, <3>2 DEF BlocksKept
  <2>4. DiskKept'
    <3> SUFFICES ASSUME NEW w \in sDurable'
                 PROVE  \E s \in SessionTasks \cup {NULL} : Written(w, s)' /\ (s # NULL => sOutcome'[s] = "ok")
      BY DEF DiskKept
    <3>1. CASE w \in sDurable
      <4>1. PICK s \in SessionTasks \cup {NULL} : Written(w, s) /\ (s # NULL => sOutcome[s] = "ok")
        BY <3>1 DEF SessionInv, SessionKept, DiskKept
      <4>2. s # NULL => sOutcome'[s] = "ok"
        BY <1>2, <1>b, <4>1
      <4> QED BY <1>v, <4>1, <4>2
    <3>2. CASE w \notin sDurable
      <4>1. c # NULL /\ ~error /\ w \in sConns[c].log
        BY <1>b, <3>2
      <4> QED BY <1>b, <1>v, <1>w, <4>1 DEF c
    <3> QED BY <3>1, <3>2
  <2> QED BY <2>2, <2>3, <2>4 DEF SessionKept
<1> QED BY <1>t, <1>7, <1>8, <1>9, <1>10, <1>11 DEF SessionInv

LEMMA SessionNext == SessionInv /\ [Session!Next]_sessionVars => SessionInv'
<1> SUFFICES ASSUME SessionInv, [Session!Next]_sessionVars PROVE SessionInv'
  OBVIOUS
<1>1. CASE UNCHANGED sessionVars
  <2>1. UNCHANGED << sTask, sConns, sUow, sDurable, sOutcome, sMeant >> /\ sOps' \in Nat
    BY <1>1 DEF sessionVars, SessionInv, SessionType
  <2> QED BY <2>1, SessionCounts
<1>2. CASE Session!Next
  <2>1. PICK t \in SessionTasks :
          \/ Session!Start(t) \/ Session!Emit(t) \/ Session!Emitted(t)
          \/ Session!Spawn(t, TRUE) \/ Session!Spawn(t, FALSE)
          \/ Session!Write(t) \/ Session!Enter(t) \/ Session!Connected(t)
          \/ Session!Leave(t, TRUE) \/ Session!Leave(t, FALSE)
          \/ Session!End(t, TRUE) \/ Session!End(t, FALSE) \/ Session!Return(t)
    BY <1>2 DEF Session!Next
  <2>2. TRUE \in BOOLEAN /\ FALSE \in BOOLEAN
    OBVIOUS
  <2>3. CASE Session!Start(t)
    BY <2>3, SessionStart
  <2>4. CASE Session!Emit(t)
    BY <2>4, SessionEmit
  <2>5. CASE Session!Emitted(t)
    BY <2>5, SessionEmitted
  <2>6. CASE Session!Spawn(t, TRUE) \/ Session!Spawn(t, FALSE)
    BY <2>2, <2>6, SessionSpawn
  <2>7. CASE Session!Write(t)
    BY <2>7, SessionWrite
  <2>8. CASE Session!Enter(t)
    BY <2>8, SessionEnter
  <2>9. CASE Session!Connected(t)
    BY <2>9, SessionConnected
  <2>10. CASE Session!Leave(t, TRUE) \/ Session!Leave(t, FALSE)
    BY <2>2, <2>10, SessionLeave
  <2>11. CASE Session!End(t, TRUE) \/ Session!End(t, FALSE)
    BY <2>2, <2>11, SessionEnd
  <2>12. CASE Session!Return(t)
    BY <2>12, SessionReturn
  <2> QED BY <2>1, <2>3, <2>4, <2>5, <2>6, <2>7, <2>8, <2>9, <2>10, <2>11, <2>12
<1> QED BY <1>1, <1>2

LEMMA SessionInvIsSafe == SessionInv => SessionSafe
<1> SUFFICES ASSUME SessionInv PROVE SessionSafe
  OBVIOUS
<1> USE DEF Scope, Live, Opened
<1>1. Session!AllOrNothing
  <2>1. ASSUME NEW s \in SessionTasks PROVE sOutcome[s] = "ok" => sMeant[s] \subseteq sDurable
    BY DEF SessionInv, SessionKept, ScopeKept
  <2>2. ASSUME NEW s \in SessionTasks, sOutcome[s] = "error", NEW w \in sMeant[s] \cap sDurable PROVE FALSE
    <3>1. Written(w, s)
      BY DEF SessionInv, SessionKept, ScopeKept
    <3>2. PICK r \in SessionTasks \cup {NULL} : Written(w, r) /\ (r # NULL => sOutcome[r] = "ok")
      BY DEF SessionInv, SessionKept, DiskKept
    <3> QED BY <2>2, <3>1, <3>2, SessionAssumption DEF Written
  <2> QED BY <2>1, <2>2 DEF Session!AllOrNothing
<1>2. Session!PoolWhole
  <2> SUFFICES ASSUME \A t \in SessionTasks : sTask[t].pc \in {"absent", "done"},
                      NEW c \in Opened
               PROVE  FALSE
    BY DEF Session!PoolWhole, Session!Open
  <2>1. NULL # c
    BY SessionAssumption, ConnectionTyped DEF SessionInv, SessionType
  <2>2. CASE \E s \in SessionTasks : sUow[s] = c
    BY <2>1, <2>2 DEF SessionInv, SessionHeld
  <2>3. CASE \E t \in SessionTasks : Scope(t) = NULL /\ sTask[t].tx = c
    BY <2>1, <2>3 DEF SessionInv, SessionInside, Inside, OnOpen
  <2> QED BY <2>2, <2>3 DEF SessionInv, SessionHeld
<1> QED BY <1>1, <1>2 DEF SessionSafe, Session!SessionSafe

(* A step of the whole is a step of a part, or leaves it alone. *)
LEMMA StoresSteps ==
  ASSUME [StoresNext]_storesVars
  PROVE  /\ UNCHANGED part
         /\ [Session!Next]_sessionVars
BY DEF StoresNext, Rest, storesVars

(* database/sql.py, for any tasks and requests and any statements and      *)
(* blocks, with one connection or one listener of an event: what a request *)
(* wrote is on disk when it ended well and not when it failed, and every   *)
(* connection goes back.                                                   *)
THEOREM SessionIsSafe == StoresSpec => []SessionSafe
<1>1. StoresInit => SessionInv
  BY SessionStarts DEF StoresInit
<1>2. SessionInv /\ [StoresNext]_storesVars => SessionInv'
  BY StoresSteps, SessionNext
<1>3. SessionInv => SessionSafe
  BY SessionInvIsSafe
<1> QED BY <1>1, <1>2, <1>3, PTL DEF StoresSpec

-----------------------------------------------------------------------------
(* MongoDB. *)
MongoKeys == 1 .. MongoIds
MongoValues == MongoKeys \cup {NULL, ABSENT}
MongoDocuments == [MongoEntities -> [MongoKeys -> MongoValues]]
Orders == {"CASCADE", "SET NULL", "RESTRICT"}
Deletions == [cmd : Orders \cup {"drop", "remove"}, child : MongoEntities, ids : SUBSET MongoKeys]
NumberPlans == { << [cmd |-> "number"], [cmd |-> "insert"] >>,
                 << [cmd |-> "check"], [cmd |-> "number"], [cmd |-> "insert"] >> }
SaverPlans == NumberPlans \cup { << [cmd |-> "insert"] >>, << [cmd |-> "replace"] >>,
                                 << [cmd |-> "check"], [cmd |-> "replace"] >> }
MongoCallsOf == [entity : MongoEntities, id : MongoKeys \cup {NULL}, ref : MongoKeys \cup {NULL}]
MongoType ==
  /\ gDocs \in MongoDocuments
  /\ gCounter \in [MongoEntities -> Nat]
  /\ gMode \in MongoModes
  /\ gTodo \in [MongoTasks -> Seq(Deletions) \cup SaverPlans]
  /\ gCall \in [MongoTasks -> MongoCallsOf \cup {NULL}]
  /\ gSaved \in MongoDocuments

(* What a command finds, and what goes with it, in the documents d.        *)
Finds(d, c, f, i) == c.child = f /\ d[f][i] \in c.ids /\ c.cmd # "remove"
Victim(d, c, i) == \/ c.cmd = "drop" /\ d[c.child][i] \in c.ids
                   \/ c.cmd = "remove" /\ i \in c.ids
Points(d, f, i, e) == MongoRefs[f].parent = e /\ d[f][i] \in MongoKeys
Covered(d, q, p) == \A f \in DOMAIN MongoRefs : \A i \in MongoKeys :
  Points(d, f, i, q[p].child) /\ Victim(d, q[p], d[f][i]) => \E r \in 1 .. p - 1 : Finds(d, q[r], f, i)

(* A document that goes leaves no key to it: what is sent before it finds  *)
(* every document that has one.                                            *)
Covers(d, q) == \A p \in DOMAIN q : Covered(d, q, p)
Removes(q, k) == \A p \in DOMAIN q : q[p].cmd = "remove" => q[p].child = k.entity /\ q[p].ids = {k.id}
Deleting(d, q, k) == q \in Seq(Deletions) /\ Covers(d, q) /\ Removes(q, k)

(* What is saved has its parent, once it was looked up.                    *)
Saving(d, q, k) ==
  /\ q \in SaverPlans
  /\ k.id = NULL => q \in NumberPlans
  /\ k.ref # NULL => k.entity \in DOMAIN MongoRefs
  /\ k.ref # NULL => Head(q).cmd = "check" \/ d[MongoRefs[k.entity].parent][k.ref] # ABSENT

AtWork(t) == gCall[t] # NULL => \/ gMode[t] = "deleter" /\ Deleting(gDocs, gTodo[t], gCall[t])
                                \/ gMode[t] = "saver" /\ Saving(gDocs, gTodo[t], gCall[t])
Whole(d) == \A f \in DOMAIN MongoRefs : \A i \in MongoKeys :
  d[f][i] \in MongoKeys => d[MongoRefs[f].parent][d[f][i]] # ABSENT

MongoInv == MongoType /\ (\A t \in MongoTasks : AtWork(t)) /\ Whole(gDocs) /\ Documents!NewStays

(* Keys are taken out of documents, and documents out of collections.      *)
Shrunk(d, e) == \A f \in MongoEntities : \A i \in MongoKeys : e[f][i] \in {d[f][i], NULL, ABSENT}
Filled(d, e) == \A f \in MongoEntities : \A i \in MongoKeys : d[f][i] # ABSENT => e[f][i] # ABSENT

LEMMA MongoFacts ==
  /\ NULL \notin MongoKeys /\ ABSENT \notin MongoKeys /\ NULL # ABSENT
  /\ \A f \in DOMAIN MongoRefs : f \in MongoEntities /\ MongoRefs[f].parent \in MongoEntities
<1>1. NULL \notin MongoKeys /\ ABSENT \notin MongoKeys /\ NULL # ABSENT
  <2>1. NULL \notin Nat /\ ABSENT \notin Nat /\ NULL # ABSENT
    BY MongoAssumption
  <2> QED BY <2>1 DEF MongoKeys
<1>2. \A f \in DOMAIN MongoRefs : f \in MongoEntities /\ MongoRefs[f].parent \in MongoEntities
  BY MongoAssumption
<1> QED BY <1>1, <1>2

LEMMA CoversShrunk ==
  ASSUME NEW d \in MongoDocuments, NEW e \in MongoDocuments, Shrunk(d, e),
         NEW q \in Seq(Deletions), Covers(d, q)
  PROVE  Covers(e, q)
<1> SUFFICES ASSUME NEW p \in DOMAIN q, NEW f \in DOMAIN MongoRefs, NEW i \in MongoKeys,
                    Points(e, f, i, q[p].child), Victim(e, q[p], e[f][i])
             PROVE  \E r \in 1 .. p - 1 : Finds(e, q[r], f, i)
  BY DEF Covers, Covered
<1>1. e[f][i] = d[f][i] /\ e[f][i] \in MongoKeys
  BY MongoFacts DEF Points, Shrunk
<1>2. q[p] \in Deletions
  BY ElementOfSeq
<1>3. Victim(d, q[p], d[f][i])
  BY <1>1, <1>2, MongoFacts DEF Victim, Shrunk, Deletions
<1>4. PICK r \in 1 .. p - 1 : Finds(d, q[r], f, i)
  BY <1>1, <1>3 DEF Covers, Covered, Points
<1> QED BY <1>1, <1>4 DEF Finds

LEMMA CoversTail ==
  ASSUME NEW d \in MongoDocuments, NEW q \in Seq(Deletions), Covers(d, q), q # << >>,
         \A f \in DOMAIN MongoRefs : \A i \in MongoKeys : ~ Finds(d, Head(q), f, i)
  PROVE  Tail(q) \in Seq(Deletions) /\ Covers(d, Tail(q))
<1>1. /\ Tail(q) \in Seq(Deletions) /\ Len(Tail(q)) = Len(q) - 1 /\ Head(q) = q[1]
      /\ \A p \in 1 .. Len(Tail(q)) : Tail(q)[p] = q[p + 1]
  BY HeadTailProperties
<1> SUFFICES ASSUME NEW p \in DOMAIN Tail(q), NEW f \in DOMAIN MongoRefs, NEW i \in MongoKeys,
                    Points(d, f, i, Tail(q)[p].child), Victim(d, Tail(q)[p], d[f][i])
             PROVE  \E r \in 1 .. p - 1 : Finds(d, Tail(q)[r], f, i)
  BY <1>1 DEF Covers, Covered
<1>2. p \in 1 .. Len(Tail(q)) /\ p + 1 \in DOMAIN q /\ Tail(q)[p] = q[p + 1] /\ (p + 1) - 1 = p /\ p \in Nat
  BY <1>1
<1>3. PICK r \in 1 .. p : Finds(d, q[r], f, i)
  BY <1>2 DEF Covers, Covered
<1>4. r # 1
  BY <1>1, <1>3
<1>5. r - 1 \in 1 .. p - 1 /\ Tail(q)[r - 1] = q[r]
  BY <1>1, <1>2, <1>4
<1> QED BY <1>3, <1>5

LEMMA CascadeFinds ==
  ASSUME NEW e \in MongoEntities, NEW ids \in SUBSET MongoKeys
  PROVE  /\ Documents!Cascade(e, ids) \in Seq(Deletions)
         /\ \A p \in DOMAIN Documents!Cascade(e, ids) : Documents!Cascade(e, ids)[p].cmd \in Orders
         /\ \A f \in DOMAIN MongoRefs : MongoRefs[f].parent = e =>
              \E p \in DOMAIN Documents!Cascade(e, ids) :
                /\ Documents!Cascade(e, ids)[p].child = f /\ Documents!Cascade(e, ids)[p].ids = ids
                /\ Documents!Cascade(e, ids)[p].cmd \in Orders
<1> DEFINE s == MongoChildren[e]
           C == [k \in DOMAIN s |-> [cmd |-> MongoRefs[s[k]].on_delete, child |-> s[k], ids |-> ids]]
<1>1. s \in Seq(DOMAIN MongoRefs) /\ Documents!Cascade(e, ids) = C
  BY MongoAssumption DEF Documents!Cascade
<1>2. \A k \in DOMAIN s : s[k] \in DOMAIN MongoRefs /\ C[k] \in Deletions /\ C[k].cmd \in Orders /\ C[k].child = s[k] /\ C[k].ids = ids
  <2> SUFFICES ASSUME NEW k \in DOMAIN s
               PROVE  s[k] \in DOMAIN MongoRefs /\ C[k] \in Deletions /\ C[k].cmd \in Orders /\ C[k].child = s[k] /\ C[k].ids = ids
    OBVIOUS
  <2>1. s[k] \in DOMAIN MongoRefs
    BY <1>1
  <2>2. s[k] \in MongoEntities /\ MongoRefs[s[k]].on_delete \in Orders
    BY <2>1, MongoAssumption DEF Orders
  <2>3. C[k] = [cmd |-> MongoRefs[s[k]].on_delete, child |-> s[k], ids |-> ids]
    OBVIOUS
  <2> QED BY <2>1, <2>2, <2>3 DEF Deletions
<1>3. C \in Seq(Deletions) /\ DOMAIN C = DOMAIN s
  <2> HIDE DEF s
  <2>1. DOMAIN s = 1 .. Len(s) /\ Len(s) \in Nat
    BY <1>1
  <2>2. C \in [1 .. Len(s) -> Deletions]
    BY <1>2, <2>1
  <2> QED BY <2>1, <2>2, IsASeq
<1>4. \A f \in DOMAIN MongoRefs : MongoRefs[f].parent = e => \E k \in DOMAIN s : s[k] = f
  BY MongoAssumption
<1> HIDE DEF C, s
<1> QED BY <1>1, <1>2, <1>3, <1>4

LEMMA CoversExpand ==
  ASSUME NEW d \in MongoDocuments, NEW q \in Seq(Deletions), Covers(d, q), q # << >>, Head(q).cmd = "CASCADE",
         NEW C \in Seq(Deletions), \A p \in DOMAIN C : C[p].cmd \in Orders,
         NEW x \in Deletions, x.cmd = "drop", x.child = Head(q).child, x.ids = Head(q).ids,
         \A f \in DOMAIN MongoRefs : MongoRefs[f].parent = x.child =>
           \E p \in DOMAIN C : /\ C[p].child = f /\ C[p].cmd \in Orders
                              /\ C[p].ids = {i \in MongoKeys : d[x.child][i] \in x.ids}
  PROVE  LET n == C \o << x >> \o Tail(q)
         IN  /\ n \in Seq(Deletions) /\ Covers(d, n)
             /\ \A p \in DOMAIN n : n[p].cmd = "remove" => \E r \in DOMAIN q : n[p] = q[r]
<1> DEFINE m == Len(C)
           n == C \o << x >> \o Tail(q)
<1>1. /\ Tail(q) \in Seq(Deletions) /\ Len(Tail(q)) = Len(q) - 1 /\ Head(q) = q[1]
      /\ \A p \in 1 .. Len(Tail(q)) : Tail(q)[p] = q[p + 1]
  BY HeadTailProperties
<1>2. /\ C \o << x >> \in Seq(Deletions) /\ Len(C \o << x >>) = m + 1
      /\ \A p \in 1 .. m : (C \o << x >>)[p] = C[p]
      /\ (C \o << x >>)[m + 1] = x
  <2> << x >> \in Seq(Deletions) /\ Len(<< x >>) = 1 /\ << x >>[1] = x
    OBVIOUS
  <2> HIDE DEF m
  <2> QED BY ConcatProperties DEF m
<1>3. /\ n \in Seq(Deletions) /\ Len(n) = m + Len(q)
      /\ \A p \in 1 .. m : n[p] = C[p]
      /\ n[m + 1] = x
      /\ \A p \in 2 .. Len(q) : n[m + p] = q[p]
      /\ m \in Nat /\ Len(q) \in Nat /\ DOMAIN C = 1 .. m
  <2> DEFINE y == C \o << x >>
             T == Tail(q)
  <2> HIDE DEF y, T
  <2>0. m \in Nat /\ Len(q) \in Nat /\ DOMAIN C = 1 .. m /\ Len(q) > 0
    BY EmptySeq, LenProperties
  <2>1. y \in Seq(Deletions) /\ T \in Seq(Deletions) /\ n = y \o T /\ Len(y) = m + 1 /\ Len(T) = Len(q) - 1
    BY <1>1, <1>2 DEF y, T
  <2>2. /\ y \o T \in Seq(Deletions) /\ Len(y \o T) = Len(y) + Len(T)
        /\ \A i \in 1 .. Len(y) + Len(T) : (y \o T)[i] = IF i <= Len(y) THEN y[i] ELSE T[i - Len(y)]
    BY <2>1, ConcatProperties
  <2> HIDE DEF n, m
  <2>3. n \in Seq(Deletions) /\ Len(n) = m + Len(q)
    BY <2>0, <2>1, <2>2
  <2>4. \A p \in 1 .. m : n[p] = y[p] /\ y[p] = C[p]
    BY <2>0, <2>1, <2>2, <1>2 DEF y
  <2>5. n[m + 1] = x
    BY <2>0, <2>1, <2>2, <1>2 DEF y
  <2>6. ASSUME NEW p \in 2 .. Len(q) PROVE n[m + p] = q[p]
    <3>1. n[m + p] = T[p - 1] /\ p - 1 \in 1 .. Len(T)
      BY <2>0, <2>1, <2>2
    <3> QED BY <1>1, <3>1 DEF T
  <2> QED BY <2>0, <2>3, <2>4, <2>5, <2>6
<1> HIDE DEF n, m
<1>a. ASSUME NEW p \in DOMAIN n, p > m + 1 PROVE \E r \in 2 .. Len(q) : p = m + r /\ n[p] = q[r]
  <2>1. p \in Nat /\ p <= m + Len(q)
    BY <1>3
  <2>2. p - m \in 2 .. Len(q) /\ p = m + (p - m)
    BY <1>3, <1>a, <2>1
  <2> QED BY <1>3, <2>2
<1>b. ASSUME NEW p \in DOMAIN n PROVE p \in 1 .. m \/ p = m + 1 \/ p > m + 1
  BY <1>3
<1>4. ASSUME NEW p \in DOMAIN n, n[p].cmd = "remove" PROVE \E r \in DOMAIN q : n[p] = q[r]
  <2>1. ~ (p \in 1 .. m) /\ p # m + 1
    BY <1>3, <1>4 DEF Orders
  <2>2. PICK r \in 2 .. Len(q) : n[p] = q[r]
    BY <1>a, <1>b, <2>1
  <2>3. r \in DOMAIN q
    BY <1>3
  <2> QED BY <2>2, <2>3
<1>8. ASSUME NEW p \in DOMAIN n, NEW f \in DOMAIN MongoRefs, NEW i \in MongoKeys,
             Points(d, f, i, n[p].child), Victim(d, n[p], d[f][i])
      PROVE  \E r \in 1 .. p - 1 : Finds(d, n[r], f, i)
  <2>5. CASE p \in 1 .. m
    BY <1>3, <1>8, <2>5 DEF Victim, Orders
  <2>6. CASE p = m + 1
    <3>1. PICK r \in DOMAIN C : C[r].child = f /\ C[r].cmd \in Orders /\ d[f][i] \in C[r].ids
      BY <1>3, <1>8, <2>6 DEF Points, Victim
    <3>2. r \in 1 .. p - 1 /\ n[r] = C[r]
      BY <1>3, <2>6
    <3> QED BY <3>1, <3>2 DEF Finds, Orders
  <2>7. CASE p > m + 1
    <3>1. PICK s \in 2 .. Len(q) : p = m + s /\ n[p] = q[s]
      BY <1>a, <2>7
    <3>2. s \in DOMAIN q /\ s \in Nat
      BY <1>3
    <3>3. PICK r \in 1 .. s - 1 : Finds(d, q[r], f, i)
      BY <1>8, <3>1, <3>2 DEF Covers, Covered
    <3>4. CASE r = 1
      <4>1. Finds(d, x, f, i)
        BY <1>1, <3>3, <3>4 DEF Finds
      <4>2. m + 1 \in 1 .. p - 1
        BY <1>3, <3>1
      <4> QED BY <1>3, <4>1, <4>2
    <3>5. CASE r # 1
      <4>1. r \in 2 .. Len(q) /\ m + r \in 1 .. p - 1
        BY <1>3, <3>1, <3>5
      <4> QED BY <1>3, <3>3, <4>1
    <3> QED BY <3>4, <3>5
  <2> QED BY <1>b, <2>5, <2>6, <2>7
<1> QED BY <1>3, <1>4, <1>8 DEF Covers, Covered, n

(* The plans of a saver, command by command.                               *)
LEMMA PlanSteps ==
  ASSUME NEW q \in SaverPlans
  PROVE  /\ Head(q).cmd \in {"check", "number", "insert", "replace"}
         /\ q \in NumberPlans => Head(q).cmd \in {"check", "number"}
         /\ Head(q).cmd = "check" => /\ Tail(q) \in SaverPlans /\ Head(Tail(q)).cmd # "check"
                                     /\ q \in NumberPlans => Tail(q) \in NumberPlans
         /\ Head(q).cmd = "number" => Tail(q) \in SaverPlans /\ Head(Tail(q)).cmd # "check"
<1>1. CASE q = << [cmd |-> "number"], [cmd |-> "insert"] >>
  BY <1>1 DEF SaverPlans, NumberPlans
<1>2. CASE q = << [cmd |-> "check"], [cmd |-> "number"], [cmd |-> "insert"] >>
  BY <1>2 DEF SaverPlans, NumberPlans
<1>3. CASE q = << [cmd |-> "insert"] >>
  BY <1>3 DEF SaverPlans, NumberPlans
<1>4. CASE q = << [cmd |-> "replace"] >>
  BY <1>4 DEF SaverPlans, NumberPlans
<1>5. CASE q = << [cmd |-> "check"], [cmd |-> "replace"] >>
  BY <1>5 DEF SaverPlans, NumberPlans
<1> QED BY <1>1, <1>2, <1>3, <1>4, <1>5 DEF SaverPlans, NumberPlans

LEMMA PlanJoined ==
  ASSUME NEW a, NEW b, NEW c
  PROVE  << a >> \o << b >> = << a, b >> /\ << a >> \o << b, c >> = << a, b, c >>
<1> DEFINE S == {a, b, c}
<1>0. << a >> \in Seq(S) /\ << b >> \in Seq(S) /\ << b, c >> \in Seq(S) /\ << a, b >> \in Seq(S) /\ << a, b, c >> \in Seq(S)
  OBVIOUS
<1>1. << a >> \o << b >> = << a, b >>
  <2> DEFINE s == << a >> \o << b >>
  <2>1. s \in Seq(S) /\ Len(s) = 2 /\ s[1] = a /\ s[2] = b
    BY <1>0, ConcatProperties
  <2> HIDE DEF s
  <2>2. s = << a, b >>
    BY <1>0, <2>1, SeqEqual
  <2> QED BY <2>2 DEF s
<1>2. << a >> \o << b, c >> = << a, b, c >>
  <2> DEFINE s == << a >> \o << b, c >>
  <2>1. s \in Seq(S) /\ Len(s) = 3 /\ s[1] = a /\ s[2] = b /\ s[3] = c
    BY <1>0, ConcatProperties
  <2> HIDE DEF s
  <2>2. s = << a, b, c >>
    BY <1>0, <2>1, SeqEqual
  <2> QED BY <2>2 DEF s
<1> QED BY <1>1, <1>2

PlanOf(id, ref) ==
  (IF ref = NULL THEN << >> ELSE << [cmd |-> "check"] >>)
    \o (IF id = NULL THEN << [cmd |-> "number"], [cmd |-> "insert"] >> ELSE << [cmd |-> "replace"] >>)
LEMMA PlanMade ==
  ASSUME NEW id, NEW ref
  PROVE  /\ PlanOf(id, ref) \in SaverPlans
         /\ id = NULL => PlanOf(id, ref) \in NumberPlans
         /\ ref # NULL => Head(PlanOf(id, ref)).cmd = "check"
<1> DEFINE q == PlanOf(id, ref)
<1>1. CASE ref = NULL /\ id = NULL
  <2>1. q = << [cmd |-> "number"], [cmd |-> "insert"] >>
    BY <1>1 DEF PlanOf
  <2> HIDE DEF q
  <2> QED BY <1>1, <2>1 DEF SaverPlans, NumberPlans, q
<1>2. CASE ref # NULL /\ id = NULL
  <2>1. q = << [cmd |-> "check"], [cmd |-> "number"], [cmd |-> "insert"] >>
    BY <1>2, PlanJoined DEF PlanOf
  <2> HIDE DEF q
  <2>2. Head(q).cmd = "check"
    BY <2>1
  <2> QED BY <1>2, <2>1, <2>2 DEF SaverPlans, NumberPlans, q
<1>3. CASE ref = NULL /\ id # NULL
  <2>1. q = << [cmd |-> "replace"] >>
    BY <1>3 DEF PlanOf
  <2> HIDE DEF q
  <2> QED BY <1>3, <2>1 DEF SaverPlans, NumberPlans, q
<1>4. CASE ref # NULL /\ id # NULL
  <2>1. q = << [cmd |-> "check"], [cmd |-> "replace"] >>
    BY <1>4, PlanJoined DEF PlanOf
  <2> HIDE DEF q
  <2>2. Head(q).cmd = "check"
    BY <2>1
  <2> QED BY <1>4, <2>1, <2>2 DEF SaverPlans, NumberPlans, q
<1> QED BY <1>1, <1>2, <1>3, <1>4

(* What a command says of the task that sends it.                          *)
LEMMA MongoSends ==
  ASSUME MongoInv, NEW t \in MongoTasks, NEW cmd, Documents!Next1(t, cmd)
  PROVE  /\ gCall[t] \in MongoCallsOf /\ gTodo[t] # << >> /\ Head(gTodo[t]).cmd = cmd
         /\ cmd \in Orders \cup {"drop", "remove"} =>
              gMode[t] = "deleter" /\ Deleting(gDocs, gTodo[t], gCall[t]) /\ Head(gTodo[t]) \in Deletions
         /\ cmd \in {"check", "number", "insert", "replace"} =>
              gMode[t] = "saver" /\ Saving(gDocs, gTodo[t], gCall[t])
<1>1. gCall[t] # NULL /\ gTodo[t] # << >> /\ Head(gTodo[t]).cmd = cmd
  BY DEF Documents!Next1
<1>2. gCall[t] \in MongoCallsOf
  BY <1>1 DEF MongoInv, MongoType
<1>3. CASE gMode[t] = "deleter" /\ Deleting(gDocs, gTodo[t], gCall[t])
  <2>1. Head(gTodo[t]) \in Deletions
    BY <1>1, <1>3, HeadTailProperties, ElementOfSeq DEF Deleting
  <2> QED BY <1>1, <1>2, <1>3, <2>1 DEF Deletions, Orders
<1>4. CASE gMode[t] = "saver" /\ Saving(gDocs, gTodo[t], gCall[t])
  <2>1. Head(gTodo[t]).cmd \in {"check", "number", "insert", "replace"}
    BY <1>4, PlanSteps DEF Saving
  <2> QED BY <1>1, <1>2, <1>4, <2>1 DEF Orders
<1> QED BY <1>1, <1>3, <1>4 DEF MongoInv, AtWork

Only(t) == \A u \in MongoTasks : u # t => gTodo'[u] = gTodo[u] /\ gCall'[u] = gCall[u]

LEMMA MongoModesApart ==
  ASSUME MongoType, NEW t \in MongoTasks, NEW u \in MongoTasks
  PROVE  ~ (gMode[t] = "saver" /\ gMode[u] = "deleter")
<1>1. gMode \in MongoModes
  BY DEF MongoType
<1>2. \A mode \in MongoModes : \A v, w \in MongoTasks : ~ (mode[v] = "saver" /\ mode[w] = "deleter")
  BY MongoAssumption
<1> QED BY <1>1, <1>2

(* What is left of the invariant by a step of a delete.                    *)
LEMMA MongoDeletes ==
  ASSUME MongoInv, NEW t \in MongoTasks, gMode[t] = "deleter", MongoType', gMode' = gMode, Only(t),
         Shrunk(gDocs, gDocs'), Whole(gDocs'), gCall'[t] # NULL => Deleting(gDocs', gTodo'[t], gCall'[t])
  PROVE  MongoInv'
<1>1. ASSUME NEW u \in MongoTasks PROVE AtWork(u)'
  <2>1. CASE u = t
    BY <2>1 DEF AtWork
  <2>2. CASE u # t
    <3>1. gTodo'[u] = gTodo[u] /\ gCall'[u] = gCall[u]
      BY <2>2 DEF Only
    <3>2. gCall[u] # NULL => gMode[u] = "deleter" /\ Deleting(gDocs, gTodo[u], gCall[u])
      BY MongoModesApart DEF MongoInv, AtWork
    <3>3. gCall[u] # NULL => Deleting(gDocs', gTodo[u], gCall[u])
      BY <3>2, CoversShrunk DEF Deleting, MongoInv, MongoType
    <3> QED BY <3>1, <3>2, <3>3 DEF AtWork
  <2> QED BY <2>1, <2>2
<1>2. Documents!NewStays'
  BY DEF Documents!NewStays
<1> QED BY <1>1, <1>2 DEF MongoInv

(* What is left of the invariant by a step of a save.                      *)
LEMMA MongoSaves ==
  ASSUME MongoInv, NEW t \in MongoTasks, gMode[t] = "saver", MongoType', gMode' = gMode, Only(t),
         Filled(gDocs, gDocs'), Whole(gDocs'), Documents!NewStays',
         gCall'[t] # NULL => Saving(gDocs', gTodo'[t], gCall'[t])
  PROVE  MongoInv'
<1>1. ASSUME NEW u \in MongoTasks PROVE AtWork(u)'
  <2>1. CASE u = t
    BY <2>1 DEF AtWork
  <2>2. CASE u # t
    <3>1. gTodo'[u] = gTodo[u] /\ gCall'[u] = gCall[u]
      BY <2>2 DEF Only
    <3>2. gCall[u] # NULL => gMode[u] = "saver" /\ Saving(gDocs, gTodo[u], gCall[u])
      BY MongoModesApart DEF MongoInv, AtWork
    <3>3. gCall[u] # NULL => gCall[u].ref \in MongoKeys \cup {NULL}
      BY DEF MongoInv, MongoType, MongoCallsOf
    <3>4. gCall[u] # NULL => Saving(gDocs', gTodo[u], gCall[u])
      BY <3>2, <3>3, MongoFacts DEF Saving, Filled
    <3> QED BY <3>1, <3>2, <3>4 DEF AtWork
  <2> QED BY <2>1, <2>2
<1> QED BY <1>1 DEF MongoInv

-----------------------------------------------------------------------------
MongoPlans == Seq(Deletions) \cup SaverPlans
Turns(t) == /\ gTodo' \in [MongoTasks -> MongoPlans]
            /\ gCall' \in [MongoTasks -> MongoCallsOf \cup {NULL}]
            /\ Only(t)

LEMMA MongoAnswers ==
  ASSUME MongoType, NEW t \in MongoTasks, Documents!Answer(t)
  PROVE  Turns(t) /\ gCall'[t] = NULL
<1>1. << >> \in MongoPlans
  BY DEF MongoPlans
<1> QED BY <1>1 DEF MongoType, Documents!Answer, Turns, Only, MongoPlans

LEMMA MongoPops ==
  ASSUME MongoType, NEW t \in MongoTasks, Documents!Pop(t), Tail(gTodo[t]) \in MongoPlans
  PROVE  Turns(t) /\ gTodo'[t] = Tail(gTodo[t]) /\ gCall'[t] = gCall[t]
BY DEF MongoType, Documents!Pop, Turns, Only, MongoPlans

(* Documents taken out, or their keys: v is ABSENT or NULL.                *)
Cleared(d, f, I, v) == [d EXCEPT ![f] = [i \in MongoKeys |-> IF i \in I THEN v ELSE d[f][i]]]
LEMMA ClearedDocs ==
  ASSUME NEW d \in MongoDocuments, NEW f \in MongoEntities, NEW I, NEW v \in {NULL, ABSENT}
  PROVE  /\ Cleared(d, f, I, v) \in MongoDocuments
         /\ Shrunk(d, Cleared(d, f, I, v))
         /\ \A g \in MongoEntities : \A i \in MongoKeys :
              Cleared(d, f, I, v)[g][i] = IF g = f /\ i \in I THEN v ELSE d[g][i]
<1>1. \A g \in MongoEntities : \A i \in MongoKeys : d[g][i] \in MongoValues
  BY DEF MongoDocuments
<1>2. [i \in MongoKeys |-> IF i \in I THEN v ELSE d[f][i]] \in [MongoKeys -> MongoValues]
  BY <1>1 DEF MongoValues
<1>3. Cleared(d, f, I, v) \in MongoDocuments
  BY <1>2 DEF MongoDocuments, Cleared
<1>4. \A g \in MongoEntities : \A i \in MongoKeys :
        Cleared(d, f, I, v)[g][i] = IF g = f /\ i \in I THEN v ELSE d[g][i]
  BY DEF MongoDocuments, Cleared
<1> QED BY <1>3, <1>4 DEF Shrunk

Put(d, f, i, v) == [d EXCEPT ![f][i] = v]
LEMMA PutDocs ==
  ASSUME NEW d \in MongoDocuments, NEW f \in MongoEntities, NEW j \in MongoKeys, NEW v \in MongoValues
  PROVE  /\ Put(d, f, j, v) \in MongoDocuments
         /\ \A g \in MongoEntities : \A i \in MongoKeys :
              Put(d, f, j, v)[g][i] = IF g = f /\ i = j THEN v ELSE d[g][i]
BY DEF MongoDocuments, Put

(* The command at the head has been carried out and finds nothing more.    *)
LEMMA DeletesPopped ==
  ASSUME NEW d \in MongoDocuments, NEW e \in MongoDocuments, Shrunk(d, e), NEW q, NEW k, Deleting(d, q, k),
         q # << >>, \A f \in DOMAIN MongoRefs : \A i \in MongoKeys : ~ Finds(e, Head(q), f, i)
  PROVE  Tail(q) \in Seq(Deletions) /\ Deleting(e, Tail(q), k)
<1>1. q \in Seq(Deletions) /\ Covers(e, q) /\ Removes(q, k)
  BY CoversShrunk DEF Deleting
<1>2. Tail(q) \in Seq(Deletions) /\ Covers(e, Tail(q))
  BY <1>1, CoversTail
<1>3. Len(Tail(q)) = Len(q) - 1 /\ \A p \in 1 .. Len(Tail(q)) : Tail(q)[p] = q[p + 1]
  BY <1>1, HeadTailProperties
<1>4. \A p \in DOMAIN Tail(q) : p + 1 \in DOMAIN q /\ Tail(q)[p] = q[p + 1]
  BY <1>1, <1>2, <1>3
<1>5. Removes(Tail(q), k)
  BY <1>1, <1>4 DEF Removes
<1> QED BY <1>2, <1>5 DEF Deleting

(* Nothing points to a document that goes with the command at the head.    *)
LEMMA DropsWhole ==
  ASSUME NEW d \in MongoDocuments, Whole(d), NEW q \in Seq(Deletions), q # << >>, Covers(d, q), NEW I,
         \A i \in I \cap MongoKeys : Victim(d, Head(q), i)
  PROVE  Whole(Cleared(d, Head(q).child, I, ABSENT))
<1> DEFINE e == Cleared(d, Head(q).child, I, ABSENT)
<1>1. Head(q) = q[1] /\ Head(q) \in Deletions /\ 1 \in DOMAIN q
  BY HeadTailProperties, EmptySeq, LenProperties
<1>2. Head(q).child \in MongoEntities
  BY <1>1 DEF Deletions
<1>3. \A g \in MongoEntities : \A i \in MongoKeys :
        e[g][i] = IF g = Head(q).child /\ i \in I THEN ABSENT ELSE d[g][i]
  BY <1>2, ClearedDocs
<1> HIDE DEF e
<1> SUFFICES ASSUME NEW f \in DOMAIN MongoRefs, NEW i \in MongoKeys, e[f][i] \in MongoKeys,
                    e[MongoRefs[f].parent][e[f][i]] = ABSENT
             PROVE  FALSE
  BY DEF Whole, e
<1>4. e[f][i] = d[f][i] /\ d[f][i] \in MongoKeys
  BY <1>3, MongoFacts
<1>5. d[MongoRefs[f].parent][d[f][i]] # ABSENT
  BY <1>4 DEF Whole
<1>6. MongoRefs[f].parent = Head(q).child /\ d[f][i] \in I
  BY <1>3, <1>4, <1>5, MongoFacts
<1>7. Points(d, f, i, q[1].child) /\ Victim(d, q[1], d[f][i])
  BY <1>1, <1>4, <1>6 DEF Points
<1>8. \E r \in 1 .. 1 - 1 : Finds(d, q[r], f, i)
  BY <1>1, <1>7 DEF Covers, Covered
<1> QED BY <1>8

LEMMA MongoSaveStarts ==
  ASSUME MongoInv, NEW t \in MongoTasks, NEW e \in MongoEntities,
         NEW id \in MongoKeys \cup {NULL}, NEW ref \in MongoKeys \cup {NULL}, Documents!Save(t, e, id, ref)
  PROVE  MongoInv'
<1> DEFINE q == PlanOf(id, ref)
           k == [entity |-> e, id |-> id, ref |-> ref]
<1>1. /\ gMode[t] = "saver" /\ (ref # NULL => e \in DOMAIN MongoRefs)
      /\ gTodo' = [gTodo EXCEPT ![t] = q] /\ gCall' = [gCall EXCEPT ![t] = k]
      /\ gDocs' = gDocs /\ gCounter' = gCounter /\ gMode' = gMode /\ gSaved' = gSaved
  BY DEF Documents!Save, Documents!HasRef, PlanOf
<1>2. q \in SaverPlans /\ (id = NULL => q \in NumberPlans) /\ (ref # NULL => Head(q).cmd = "check")
  BY PlanMade
<1>3. k \in MongoCallsOf /\ k.entity = e /\ k.id = id /\ k.ref = ref
  BY DEF MongoCallsOf
<1>4. Saving(gDocs, q, k)
  BY <1>1, <1>2, <1>3 DEF Saving
<1> HIDE DEF q, k
<1>5. MongoType' /\ Only(t) /\ gTodo'[t] = q /\ gCall'[t] = k
  BY <1>1, <1>2, <1>3 DEF MongoInv, MongoType, Only
<1>6. Filled(gDocs, gDocs') /\ Whole(gDocs') /\ Documents!NewStays'
  BY <1>1 DEF MongoInv, Filled, Documents!NewStays
<1> QED BY <1>1, <1>4, <1>5, <1>6, MongoSaves

LEMMA MongoChecks ==
  ASSUME MongoInv, NEW t \in MongoTasks, Documents!CheckParent(t)
  PROVE  MongoInv'
<1>0. MongoType /\ Documents!Next1(t, "check") /\ gDocs' = gDocs /\ gCounter' = gCounter /\ gMode' = gMode /\ gSaved' = gSaved
  BY DEF Documents!CheckParent, MongoInv
<1>1. /\ gCall[t] \in MongoCallsOf /\ Head(gTodo[t]).cmd = "check"
      /\ gMode[t] = "saver" /\ Saving(gDocs, gTodo[t], gCall[t])
  BY <1>0, MongoSends
<1>2. Filled(gDocs, gDocs') /\ Whole(gDocs') /\ Documents!NewStays'
  BY <1>0 DEF MongoInv, Filled, Documents!NewStays
<1>3. CASE gDocs[MongoRefs[gCall[t].entity].parent][gCall[t].ref] # ABSENT /\ Documents!Pop(t)
  <2>1. Tail(gTodo[t]) \in SaverPlans /\ (gTodo[t] \in NumberPlans => Tail(gTodo[t]) \in NumberPlans)
    BY <1>1, PlanSteps DEF Saving
  <2>2. Turns(t) /\ gTodo'[t] = Tail(gTodo[t]) /\ gCall'[t] = gCall[t]
    BY <1>0, <1>3, <2>1, MongoPops DEF MongoPlans
  <2>3. MongoType'
    BY <1>0, <2>2 DEF MongoType, Turns, MongoPlans
  <2>4. Saving(gDocs', gTodo'[t], gCall'[t])
    BY <1>0, <1>1, <1>3, <2>1, <2>2 DEF Saving
  <2> QED BY <1>0, <1>1, <1>2, <2>2, <2>3, <2>4, MongoSaves DEF Turns
<1>4. CASE Documents!Answer(t)
  <2>1. Turns(t) /\ gCall'[t] = NULL
    BY <1>0, <1>4, MongoAnswers
  <2>2. MongoType'
    BY <1>0, <2>1 DEF MongoType, Turns, MongoPlans
  <2> QED BY <1>0, <1>1, <1>2, <2>1, <2>2, MongoSaves DEF Turns
<1> QED BY <1>3, <1>4 DEF Documents!CheckParent

LEMMA MongoNumbers ==
  ASSUME MongoInv, NEW t \in MongoTasks, Documents!Number(t)
  PROVE  MongoInv'
<1> DEFINE e == gCall[t].entity
           n == gCounter[e] + 1
           k == [gCall[t] EXCEPT !.id = n]
<1>0. /\ MongoType /\ Documents!Next1(t, "number") /\ gDocs' = gDocs /\ gMode' = gMode /\ gSaved' = gSaved
      /\ gCounter[e] < MongoIds /\ gCounter' = [gCounter EXCEPT ![e] = @ + 1]
      /\ gCall' = [gCall EXCEPT ![t].id = gCounter[e] + 1] /\ gTodo' = [gTodo EXCEPT ![t] = Tail(@)]
  BY DEF Documents!Number, MongoInv
<1>1. /\ gCall[t] \in MongoCallsOf /\ Head(gTodo[t]).cmd = "number"
      /\ gMode[t] = "saver" /\ Saving(gDocs, gTodo[t], gCall[t])
  BY <1>0, MongoSends
<1>2. Filled(gDocs, gDocs') /\ Whole(gDocs') /\ Documents!NewStays'
  BY <1>0 DEF MongoInv, Filled, Documents!NewStays
<1>3. e \in MongoEntities /\ gCounter[e] \in Nat /\ n \in MongoKeys /\ n # NULL
  <2>1. e \in MongoEntities
    BY <1>1 DEF MongoCallsOf
  <2>2. gCounter[e] \in Nat
    BY <1>0, <2>1 DEF MongoType
  <2>3. MongoIds \in Nat
    BY MongoAssumption
  <2>4. n \in MongoKeys
    BY <1>0, <2>2, <2>3 DEF MongoKeys
  <2> QED BY <2>1, <2>2, <2>4, MongoFacts
<1>4. k \in MongoCallsOf /\ k.entity = e /\ k.id = n /\ k.ref = gCall[t].ref
  BY <1>1, <1>3 DEF MongoCallsOf
<1>5. Tail(gTodo[t]) \in SaverPlans /\ Head(Tail(gTodo[t])).cmd # "check"
  BY <1>1, PlanSteps DEF Saving
<1>6. Saving(gDocs, Tail(gTodo[t]), k)
  BY <1>1, <1>3, <1>4, <1>5 DEF Saving
<1>7. gCall' = [gCall EXCEPT ![t] = k]
  BY <1>0 DEF MongoType
<1>8. gCounter' \in [MongoEntities -> Nat]
  BY <1>0, <1>3 DEF MongoType
<1> HIDE DEF k
<1>9. MongoType' /\ Only(t) /\ gTodo'[t] = Tail(gTodo[t]) /\ gCall'[t] = k
  BY <1>0, <1>4, <1>5, <1>7, <1>8 DEF MongoType, Only
<1> QED BY <1>0, <1>1, <1>2, <1>6, <1>9, MongoSaves

(* A document put where the parent is.                                     *)
LEMMA PutWhole ==
  ASSUME NEW d \in MongoDocuments, Whole(d), NEW f \in MongoEntities, NEW j \in MongoKeys,
         NEW v \in MongoKeys \cup {NULL},
         v # NULL => f \in DOMAIN MongoRefs /\ d[MongoRefs[f].parent][v] # ABSENT
  PROVE  Put(d, f, j, v) \in MongoDocuments /\ Filled(d, Put(d, f, j, v)) /\ Whole(Put(d, f, j, v))
<1>1. /\ Put(d, f, j, v) \in MongoDocuments
      /\ \A g \in MongoEntities : \A i \in MongoKeys : Put(d, f, j, v)[g][i] = IF g = f /\ i = j THEN v ELSE d[g][i]
  BY PutDocs DEF MongoValues
<1>2. Filled(d, Put(d, f, j, v))
  BY <1>1, MongoFacts DEF Filled
<1>3. ASSUME NEW g \in DOMAIN MongoRefs, NEW i \in MongoKeys, Put(d, f, j, v)[g][i] \in MongoKeys
      PROVE  Put(d, f, j, v)[MongoRefs[g].parent][Put(d, f, j, v)[g][i]] # ABSENT
  <2>1. d[MongoRefs[g].parent][Put(d, f, j, v)[g][i]] # ABSENT
    BY <1>1, <1>3, MongoFacts DEF Whole
  <2> QED BY <1>2, <1>3, <2>1, MongoFacts DEF Filled
<1> QED BY <1>1, <1>2, <1>3 DEF Whole

LEMMA MongoInserts ==
  ASSUME MongoInv, NEW t \in MongoTasks, Documents!Insert(t)
  PROVE  MongoInv'
<1> DEFINE e == gCall[t].entity
           i == gCall[t].id
           r == gCall[t].ref
<1>0. /\ MongoType /\ Documents!Next1(t, "insert") /\ gCounter' = gCounter /\ gMode' = gMode /\ Documents!Answer(t)
      /\ gDocs' = IF gDocs[e][i] = ABSENT THEN Put(gDocs, e, i, r) ELSE gDocs
      /\ gSaved' = IF gDocs[e][i] = ABSENT THEN Put(gSaved, e, i, r) ELSE gSaved
  BY DEF Documents!Insert, MongoInv, Put
<1>1. /\ gCall[t] \in MongoCallsOf /\ Head(gTodo[t]).cmd = "insert"
      /\ gMode[t] = "saver" /\ Saving(gDocs, gTodo[t], gCall[t])
  BY <1>0, MongoSends
<1>2. gTodo[t] \notin NumberPlans
  BY <1>1, PlanSteps DEF Saving
<1>3. e \in MongoEntities /\ i \in MongoKeys /\ r \in MongoKeys \cup {NULL} /\ r \in MongoValues
  BY <1>1, <1>2 DEF Saving, MongoCallsOf, MongoValues
<1>4. r # NULL => e \in DOMAIN MongoRefs /\ gDocs[MongoRefs[e].parent][r] # ABSENT
  BY <1>1 DEF Saving
<1>5. Turns(t) /\ gCall'[t] = NULL
  BY <1>0, MongoAnswers
<1> HIDE DEF e, i, r
<1>6. CASE gDocs[e][i] # ABSENT
  <2>1. gDocs' = gDocs /\ gSaved' = gSaved
    BY <1>0, <1>6
  <2>2. MongoType'
    BY <1>0, <1>5, <2>1 DEF MongoType, Turns, MongoPlans
  <2>3. Filled(gDocs, gDocs') /\ Whole(gDocs') /\ Documents!NewStays'
    BY <1>0, <2>1 DEF MongoInv, Filled, Documents!NewStays
  <2> QED BY <1>0, <1>1, <1>5, <2>2, <2>3, MongoSaves DEF Turns
<1>7. CASE gDocs[e][i] = ABSENT
  <2>1. gDocs' = Put(gDocs, e, i, r) /\ gSaved' = Put(gSaved, e, i, r)
    BY <1>0, <1>7
  <2>2. gDocs' \in MongoDocuments /\ Filled(gDocs, gDocs') /\ Whole(gDocs')
    BY <1>3, <1>4, <2>1, PutWhole DEF MongoInv, MongoType
  <2>3. gDocs \in MongoDocuments /\ gSaved \in MongoDocuments
    BY <1>0 DEF MongoType
  <2>4. /\ gSaved' \in MongoDocuments
        /\ \A g \in MongoEntities : \A j \in MongoKeys : gSaved'[g][j] = IF g = e /\ j = i THEN r ELSE gSaved[g][j]
    BY <1>3, <2>1, <2>3, PutDocs
  <2>5. \A g \in MongoEntities : \A j \in MongoKeys : gDocs'[g][j] = IF g = e /\ j = i THEN r ELSE gDocs[g][j]
    BY <1>3, <2>1, <2>3, PutDocs
  <2>6. MongoType'
    BY <1>0, <1>5, <2>2, <2>4 DEF MongoType, Turns, MongoPlans
  <2>7. Documents!NewStays'
    BY <1>0, <2>4, <2>5 DEF MongoInv, Documents!NewStays, MongoKeys, Documents!Ids
  <2> QED BY <1>0, <1>1, <1>5, <2>2, <2>6, <2>7, MongoSaves DEF Turns
<1> QED BY <1>6, <1>7

LEMMA MongoReplaces ==
  ASSUME MongoInv, NEW t \in MongoTasks, Documents!Replace(t)
  PROVE  MongoInv'
<1> DEFINE e == gCall[t].entity
           i == gCall[t].id
           r == gCall[t].ref
<1>0. /\ MongoType /\ Documents!Next1(t, "replace") /\ gCounter' = gCounter /\ gMode' = gMode /\ Documents!Answer(t)
      /\ gDocs' = Put(gDocs, e, i, r) /\ gSaved' = Put(gSaved, e, i, ABSENT)
  BY DEF Documents!Replace, MongoInv, Put
<1>1. /\ gCall[t] \in MongoCallsOf /\ Head(gTodo[t]).cmd = "replace"
      /\ gMode[t] = "saver" /\ Saving(gDocs, gTodo[t], gCall[t])
  BY <1>0, MongoSends
<1>2. gTodo[t] \notin NumberPlans
  BY <1>1, PlanSteps DEF Saving
<1>3. e \in MongoEntities /\ i \in MongoKeys /\ r \in MongoKeys \cup {NULL} /\ r \in MongoValues /\ ABSENT \in MongoValues
  BY <1>1, <1>2 DEF Saving, MongoCallsOf, MongoValues
<1>4. r # NULL => e \in DOMAIN MongoRefs /\ gDocs[MongoRefs[e].parent][r] # ABSENT
  BY <1>1 DEF Saving
<1>5. Turns(t) /\ gCall'[t] = NULL
  BY <1>0, MongoAnswers
<1> HIDE DEF e, i, r
<1>6. gDocs' \in MongoDocuments /\ Filled(gDocs, gDocs') /\ Whole(gDocs')
  BY <1>0, <1>3, <1>4, PutWhole DEF MongoInv, MongoType
<1>7. gDocs \in MongoDocuments /\ gSaved \in MongoDocuments
  BY <1>0 DEF MongoType
<1>a. gDocs' = Put(gDocs, e, i, r) /\ gSaved' = Put(gSaved, e, i, ABSENT)
  BY <1>0
<1>b. /\ Put(gSaved, e, i, ABSENT) \in MongoDocuments
      /\ \A g \in MongoEntities : \A j \in MongoKeys :
           Put(gSaved, e, i, ABSENT)[g][j] = IF g = e /\ j = i THEN ABSENT ELSE gSaved[g][j]
  BY <1>3, <1>7, PutDocs
<1>c. \A g \in MongoEntities : \A j \in MongoKeys : Put(gDocs, e, i, r)[g][j] = IF g = e /\ j = i THEN r ELSE gDocs[g][j]
  BY <1>3, <1>7, PutDocs
<1>8. /\ gSaved' \in MongoDocuments
      /\ \A g \in MongoEntities : \A j \in MongoKeys : gSaved'[g][j] = IF g = e /\ j = i THEN ABSENT ELSE gSaved[g][j]
  BY <1>a, <1>b, <1>c
<1>9. \A g \in MongoEntities : \A j \in MongoKeys : gDocs'[g][j] = IF g = e /\ j = i THEN r ELSE gDocs[g][j]
  BY <1>a, <1>b, <1>c
<1>10. MongoType'
  BY <1>0, <1>5, <1>6, <1>8 DEF MongoType, Turns, MongoPlans
<1>11. Documents!NewStays'
  BY <1>0, <1>8, <1>9 DEF MongoInv, Documents!NewStays, MongoKeys, Documents!Ids
<1> QED BY <1>0, <1>1, <1>5, <1>6, <1>10, <1>11, MongoSaves DEF Turns

LEMMA MongoDeleteStarts ==
  ASSUME MongoInv, NEW t \in MongoTasks, NEW e \in MongoEntities, NEW id \in MongoKeys, Documents!Delete(t, e, id)
  PROVE  MongoInv'
<1> DEFINE C == Documents!Cascade(e, {id})
           x == [cmd |-> "remove", child |-> e, ids |-> {id}]
           n == C \o << x >>
           k == [entity |-> e, id |-> id, ref |-> NULL]
<1>1. /\ gMode[t] = "deleter" /\ gTodo' = [gTodo EXCEPT ![t] = n] /\ gCall' = [gCall EXCEPT ![t] = k]
      /\ gDocs' = gDocs /\ gCounter' = gCounter /\ gMode' = gMode /\ gSaved' = gSaved
  BY DEF Documents!Delete
<1>2. /\ C \in Seq(Deletions) /\ \A p \in DOMAIN C : C[p].cmd \in Orders
      /\ \A f \in DOMAIN MongoRefs : MongoRefs[f].parent = e =>
           \E p \in DOMAIN C : C[p].child = f /\ C[p].ids = {id} /\ C[p].cmd \in Orders
  <2>1. {id} \in SUBSET MongoKeys
    OBVIOUS
  <2> QED BY <2>1, CascadeFinds
<1>3. x \in Deletions /\ x.cmd = "remove" /\ x.child = e /\ x.ids = {id}
  BY DEF Deletions
<1>4. k \in MongoCallsOf /\ k.entity = e /\ k.id = id
  BY DEF MongoCallsOf
<1>5. Len(C) \in Nat /\ DOMAIN C = 1 .. Len(C)
  BY <1>2, LenProperties
<1>6. /\ n \in Seq(Deletions) /\ DOMAIN n = 1 .. Len(C) + 1 /\ n[Len(C) + 1] = x
      /\ \A p \in 1 .. Len(C) : n[p] = C[p]
  <2> HIDE DEF C, x
  <2>1. << x >> \in Seq(Deletions) /\ Len(<< x >>) = 1 /\ << x >>[1] = x
    BY <1>3
  <2>2. n \in Seq(Deletions) /\ Len(n) = Len(C) + 1 /\ n[Len(C) + 1] = x /\ \A p \in 1 .. Len(C) : n[p] = C[p]
    BY <1>2, <1>5, <2>1, ConcatProperties
  <2> QED BY <2>2, LenProperties
<1> HIDE DEF C, x, n, k
<1>7. Covers(gDocs, n)
  <2> SUFFICES ASSUME NEW p \in DOMAIN n, NEW f \in DOMAIN MongoRefs, NEW i \in MongoKeys,
                      Points(gDocs, f, i, n[p].child), Victim(gDocs, n[p], gDocs[f][i])
               PROVE  \E r \in 1 .. p - 1 : Finds(gDocs, n[r], f, i)
    BY DEF Covers, Covered
  <2>1. CASE p \in 1 .. Len(C)
    BY <1>2, <1>5, <1>6, <2>1 DEF Victim, Orders
  <2>2. CASE p = Len(C) + 1
    <3>1. MongoRefs[f].parent = e /\ gDocs[f][i] \in {id}
      BY <1>3, <1>6, <2>2 DEF Points, Victim
    <3>2. PICK r \in DOMAIN C : C[r].child = f /\ C[r].ids = {id} /\ C[r].cmd \in Orders
      BY <1>2, <3>1
    <3>3. r \in 1 .. p - 1 /\ n[r] = C[r]
      BY <1>5, <1>6, <2>2
    <3> QED BY <3>1, <3>2, <3>3 DEF Finds, Orders
  <2> QED BY <1>5, <1>6, <2>1, <2>2
<1>8. Removes(n, k)
  <2> SUFFICES ASSUME NEW p \in DOMAIN n, n[p].cmd = "remove" PROVE n[p] = x
    BY <1>3, <1>4 DEF Removes
  <2>1. p \notin 1 .. Len(C)
    BY <1>2, <1>5, <1>6 DEF Orders
  <2> QED BY <1>5, <1>6, <2>1
<1>9. MongoType' /\ Only(t) /\ gTodo'[t] = n /\ gCall'[t] = k
  BY <1>1, <1>4, <1>6 DEF MongoInv, MongoType, Only
<1>10. Shrunk(gDocs, gDocs') /\ Whole(gDocs')
  BY <1>1 DEF MongoInv, Shrunk
<1>11. Deleting(gDocs', gTodo'[t], gCall'[t])
  BY <1>1, <1>6, <1>7, <1>8, <1>9 DEF Deleting
<1> QED BY <1>1, <1>9, <1>10, <1>11, MongoDeletes

(* The command is done and the next one is due.                            *)
LEMMA MongoNextCommand ==
  ASSUME MongoInv, NEW t \in MongoTasks, gMode[t] = "deleter", gCall[t] \in MongoCallsOf,
         Deleting(gDocs, gTodo[t], gCall[t]), gTodo[t] # << >>,
         gCounter' = gCounter, gMode' = gMode, gSaved' = gSaved, Documents!Pop(t),
         gDocs' \in MongoDocuments, Shrunk(gDocs, gDocs'), Whole(gDocs'),
         \A f \in DOMAIN MongoRefs : \A i \in MongoKeys : ~ Finds(gDocs', Head(gTodo[t]), f, i)
  PROVE  MongoInv'
<1>0. MongoType /\ gDocs \in MongoDocuments
  BY DEF MongoInv, MongoType
<1>1. Tail(gTodo[t]) \in Seq(Deletions) /\ Deleting(gDocs', Tail(gTodo[t]), gCall[t])
  BY <1>0, DeletesPopped
<1>2. Turns(t) /\ gTodo'[t] = Tail(gTodo[t]) /\ gCall'[t] = gCall[t]
  BY <1>0, <1>1, MongoPops DEF MongoPlans
<1>3. MongoType'
  BY <1>0, <1>2 DEF MongoType, Turns, MongoPlans
<1> QED BY <1>1, <1>2, <1>3, MongoDeletes DEF Turns

LEMMA MongoFindsChildren ==
  ASSUME MongoInv, NEW t \in MongoTasks, Documents!FindChildren(t)
  PROVE  MongoInv'
<1> DEFINE q == gTodo[t]
           c == Head(q)
           x == [c EXCEPT !.cmd = "drop"]
           I == Documents!Of(c)
           C == Documents!Cascade(c.child, I)
           n == C \o << x >> \o Tail(q)
<1>0. /\ MongoType /\ Documents!Next1(t, "CASCADE") /\ gDocs' = gDocs /\ gCounter' = gCounter
      /\ gMode' = gMode /\ gSaved' = gSaved /\ gCall' = gCall
      /\ gTodo' = [gTodo EXCEPT ![t] = IF I = {} THEN Tail(q) ELSE n]
  BY DEF Documents!FindChildren, MongoInv
<1>1. /\ gCall[t] \in MongoCallsOf /\ q # << >> /\ c.cmd = "CASCADE"
      /\ gMode[t] = "deleter" /\ Deleting(gDocs, q, gCall[t]) /\ c \in Deletions
  BY <1>0, MongoSends DEF Orders
<1>2. gDocs \in MongoDocuments /\ gDocs' \in MongoDocuments /\ Shrunk(gDocs, gDocs') /\ Whole(gDocs')
  BY <1>0 DEF MongoInv, MongoType, Shrunk
<1>3. I = {i \in MongoKeys : gDocs[c.child][i] \in c.ids}
  BY DEF Documents!Of, MongoKeys, Documents!Ids
<1>4. CASE I = {}
  <2>1. \A f \in DOMAIN MongoRefs : \A i \in MongoKeys : ~ Finds(gDocs', Head(q), f, i)
    BY <1>0, <1>3, <1>4 DEF Finds
  <2>2. Documents!Pop(t)
    BY <1>0, <1>4 DEF Documents!Pop
  <2> HIDE DEF q, c, x, I, C, n
  <2> QED BY <1>0, <1>1, <1>2, <2>1, <2>2, MongoNextCommand DEF q
<1>5. CASE I # {}
  <2>1. /\ C \in Seq(Deletions) /\ \A p \in DOMAIN C : C[p].cmd \in Orders
        /\ \A f \in DOMAIN MongoRefs : MongoRefs[f].parent = c.child =>
             \E p \in DOMAIN C : C[p].child = f /\ C[p].ids = I /\ C[p].cmd \in Orders
    <3>1. c.child \in MongoEntities /\ I \in SUBSET MongoKeys
      BY <1>1, <1>3 DEF Deletions
    <3> HIDE DEF I, c
    <3> QED BY <3>1, CascadeFinds
  <2>2. x \in Deletions /\ x.cmd = "drop" /\ x.child = c.child /\ x.ids = c.ids
    <3> HIDE DEF c
    <3> QED BY <1>1 DEF Deletions
  <2>3. q \in Seq(Deletions) /\ Covers(gDocs, q) /\ Removes(q, gCall[t])
    BY <1>1 DEF Deleting
  <2> HIDE DEF I, C, x
  <2>4. /\ n \in Seq(Deletions) /\ Covers(gDocs, n)
        /\ \A p \in DOMAIN n : n[p].cmd = "remove" => \E r \in DOMAIN q : n[p] = q[r]
    <3>1. \A f \in DOMAIN MongoRefs : MongoRefs[f].parent = x.child =>
            \E p \in DOMAIN C : /\ C[p].child = f /\ C[p].cmd \in Orders
                               /\ C[p].ids = {i \in MongoKeys : gDocs[x.child][i] \in x.ids}
      BY <1>3, <2>1, <2>2
    <3>2. /\ q \in Seq(Deletions) /\ Covers(gDocs, q) /\ q # << >> /\ Head(q).cmd = "CASCADE"
          /\ x \in Deletions /\ x.cmd = "drop" /\ x.child = Head(q).child /\ x.ids = Head(q).ids
          /\ C \in Seq(Deletions) /\ (\A p \in DOMAIN C : C[p].cmd \in Orders) /\ gDocs \in MongoDocuments
      BY <1>1, <1>2, <2>1, <2>2, <2>3
    <3> HIDE DEF q
    <3> QED BY <3>1, <3>2, CoversExpand
  <2> HIDE DEF n, q, c
  <2>5. Removes(n, gCall[t])
    BY <2>3, <2>4 DEF Removes
  <2>6. gTodo' = [gTodo EXCEPT ![t] = n]
    BY <1>0, <1>5
  <2>7. MongoType' /\ Only(t) /\ gTodo'[t] = n /\ gCall'[t] = gCall[t]
    BY <1>0, <2>4, <2>6 DEF MongoType, Only
  <2>8. Deleting(gDocs', gTodo'[t], gCall'[t])
    BY <1>0, <2>4, <2>5, <2>7 DEF Deleting
  <2> QED BY <1>0, <1>1, <1>2, <2>7, <2>8, MongoDeletes
<1> QED BY <1>4, <1>5

LEMMA MongoRestricts ==
  ASSUME MongoInv, NEW t \in MongoTasks, Documents!RestrictChildren(t)
  PROVE  MongoInv'
<1> DEFINE c == Head(gTodo[t])
<1>0. /\ MongoType /\ Documents!Next1(t, "RESTRICT") /\ gDocs' = gDocs /\ gCounter' = gCounter
      /\ gMode' = gMode /\ gSaved' = gSaved
      /\ IF Documents!Of(c) = {} THEN Documents!Pop(t) ELSE Documents!Answer(t)
  BY DEF Documents!RestrictChildren, MongoInv
<1>1. /\ gCall[t] \in MongoCallsOf /\ gTodo[t] # << >> /\ c.cmd = "RESTRICT"
      /\ gMode[t] = "deleter" /\ Deleting(gDocs, gTodo[t], gCall[t]) /\ c \in Deletions
  BY <1>0, MongoSends DEF Orders
<1>2. gDocs \in MongoDocuments /\ gDocs' \in MongoDocuments /\ Shrunk(gDocs, gDocs') /\ Whole(gDocs')
  BY <1>0 DEF MongoInv, MongoType, Shrunk
<1>3. CASE Documents!Of(c) = {}
  <2>1. \A f \in DOMAIN MongoRefs : \A i \in MongoKeys : ~ Finds(gDocs', c, f, i)
    BY <1>0, <1>3 DEF Finds, Documents!Of, MongoKeys, Documents!Ids
  <2> QED BY <1>0, <1>1, <1>2, <1>3, <2>1, MongoNextCommand
<1>4. CASE Documents!Of(c) # {}
  <2>1. Turns(t) /\ gCall'[t] = NULL
    BY <1>0, <1>4, MongoAnswers
  <2>2. MongoType'
    BY <1>0, <2>1 DEF MongoType, Turns, MongoPlans
  <2> QED BY <1>0, <1>1, <1>2, <2>1, <2>2, MongoDeletes DEF Turns
<1> QED BY <1>3, <1>4

LEMMA MongoDrops ==
  ASSUME MongoInv, NEW t \in MongoTasks, Documents!DropChildren(t)
  PROVE  MongoInv'
<1> DEFINE c == Head(gTodo[t])
           I == Documents!Of(c)
<1>0. /\ MongoType /\ Documents!Next1(t, "drop") /\ gCounter' = gCounter
      /\ gMode' = gMode /\ gSaved' = gSaved /\ Documents!Pop(t)
      /\ gDocs' = Cleared(gDocs, c.child, I, ABSENT)
  BY DEF Documents!DropChildren, Documents!Without, MongoInv, Cleared, MongoKeys, Documents!Ids
<1>1. /\ gCall[t] \in MongoCallsOf /\ gTodo[t] # << >> /\ c.cmd = "drop"
      /\ gMode[t] = "deleter" /\ Deleting(gDocs, gTodo[t], gCall[t]) /\ c \in Deletions
  BY <1>0, MongoSends
<1>2. gDocs \in MongoDocuments /\ c.child \in MongoEntities /\ c.ids \subseteq MongoKeys
  BY <1>0, <1>1 DEF MongoType, Deletions
<1>3. I = {i \in MongoKeys : gDocs[c.child][i] \in c.ids}
  BY DEF Documents!Of, MongoKeys, Documents!Ids
<1>4. /\ gDocs' \in MongoDocuments /\ Shrunk(gDocs, gDocs')
      /\ \A g \in MongoEntities : \A i \in MongoKeys : gDocs'[g][i] = IF g = c.child /\ i \in I THEN ABSENT ELSE gDocs[g][i]
  <2> HIDE DEF c, I
  <2> QED BY <1>0, <1>2, ClearedDocs
<1>5. Whole(gDocs')
  <2>1. \A i \in I \cap MongoKeys : Victim(gDocs, c, i)
    <3> HIDE DEF c, I
    <3> QED BY <1>1, <1>3 DEF Victim
  <2> HIDE DEF I
  <2>2. Whole(Cleared(gDocs, c.child, I, ABSENT))
    BY <1>1, <1>2, <2>1, DropsWhole DEF Deleting, MongoInv
  <2> QED BY <1>0, <2>2
<1>6. \A f \in DOMAIN MongoRefs : \A i \in MongoKeys : ~ Finds(gDocs', c, f, i)
  BY <1>2, <1>3, <1>4, MongoFacts DEF Finds
<1> QED BY <1>0, <1>1, <1>4, <1>5, <1>6, MongoNextCommand

LEMMA MongoSetsNull ==
  ASSUME MongoInv, NEW t \in MongoTasks, Documents!SetNull(t)
  PROVE  MongoInv'
<1> DEFINE c == Head(gTodo[t])
           I == Documents!Of(c)
<1>0. /\ MongoType /\ Documents!Next1(t, "SET NULL") /\ gCounter' = gCounter
      /\ gMode' = gMode /\ gSaved' = gSaved /\ Documents!Pop(t)
      /\ gDocs' = Cleared(gDocs, c.child, I, NULL)
  BY DEF Documents!SetNull, MongoInv, Cleared, MongoKeys, Documents!Ids
<1>1. /\ gCall[t] \in MongoCallsOf /\ gTodo[t] # << >> /\ c.cmd = "SET NULL"
      /\ gMode[t] = "deleter" /\ Deleting(gDocs, gTodo[t], gCall[t]) /\ c \in Deletions
  BY <1>0, MongoSends DEF Orders
<1>2. gDocs \in MongoDocuments /\ c.child \in MongoEntities /\ c.ids \subseteq MongoKeys
  BY <1>0, <1>1 DEF MongoType, Deletions
<1>3. I = {i \in MongoKeys : gDocs[c.child][i] \in c.ids}
  BY DEF Documents!Of, MongoKeys, Documents!Ids
<1>4. /\ gDocs' \in MongoDocuments /\ Shrunk(gDocs, gDocs')
      /\ \A g \in MongoEntities : \A i \in MongoKeys : gDocs'[g][i] = IF g = c.child /\ i \in I THEN NULL ELSE gDocs[g][i]
  <2> HIDE DEF c, I
  <2>1. NULL \in {NULL, ABSENT}
    OBVIOUS
  <2>2. /\ Cleared(gDocs, c.child, I, NULL) \in MongoDocuments /\ Shrunk(gDocs, Cleared(gDocs, c.child, I, NULL))
        /\ \A g \in MongoEntities : \A i \in MongoKeys :
             Cleared(gDocs, c.child, I, NULL)[g][i] = IF g = c.child /\ i \in I THEN NULL ELSE gDocs[g][i]
    BY <1>2, <2>1, ClearedDocs
  <2> QED BY <1>0, <2>2
<1>5. Whole(gDocs')
  <2> HIDE DEF c, I
  <2> SUFFICES ASSUME NEW f \in DOMAIN MongoRefs, NEW i \in MongoKeys, gDocs'[f][i] \in MongoKeys
               PROVE  gDocs'[MongoRefs[f].parent][gDocs'[f][i]] # ABSENT
    BY DEF Whole
  <2>1. gDocs'[f][i] = gDocs[f][i] /\ gDocs[f][i] \in MongoKeys
    BY <1>4, MongoFacts
  <2>2. gDocs[MongoRefs[f].parent][gDocs[f][i]] # ABSENT
    BY <2>1 DEF MongoInv, Whole
  <2> QED BY <1>4, <2>1, <2>2, MongoFacts
<1>6. \A f \in DOMAIN MongoRefs : \A i \in MongoKeys : ~ Finds(gDocs', c, f, i)
  BY <1>2, <1>3, <1>4, MongoFacts DEF Finds
<1> QED BY <1>0, <1>1, <1>4, <1>5, <1>6, MongoNextCommand

LEMMA MongoRemoves ==
  ASSUME MongoInv, NEW t \in MongoTasks, Documents!RemoveParent(t)
  PROVE  MongoInv'
<1> DEFINE c == Head(gTodo[t])
           e == gCall[t].entity
           I == {gCall[t].id}
<1>0. /\ MongoType /\ Documents!Next1(t, "remove") /\ gCounter' = gCounter
      /\ gMode' = gMode /\ gSaved' = gSaved /\ Documents!Answer(t)
      /\ gDocs' = Cleared(gDocs, e, I, ABSENT)
  BY DEF Documents!RemoveParent, Documents!Without, MongoInv, Cleared, MongoKeys, Documents!Ids
<1>1. /\ gCall[t] \in MongoCallsOf /\ gTodo[t] # << >> /\ c.cmd = "remove"
      /\ gMode[t] = "deleter" /\ Deleting(gDocs, gTodo[t], gCall[t]) /\ c \in Deletions
  BY <1>0, MongoSends
<1>2. gDocs \in MongoDocuments /\ e \in MongoEntities /\ gTodo[t] \in Seq(Deletions)
  BY <1>0, <1>1 DEF MongoType, MongoCallsOf, Deleting
<1>3. c.child = e /\ c.ids = I
  <2>1. c = gTodo[t][1] /\ 1 \in DOMAIN gTodo[t]
    BY <1>1, <1>2, HeadTailProperties, EmptySeq, LenProperties
  <2> QED BY <1>1, <2>1 DEF Deleting, Removes
<1>4. gDocs' \in MongoDocuments /\ Shrunk(gDocs, gDocs')
  <2> HIDE DEF e, I
  <2> QED BY <1>0, <1>2, ClearedDocs
<1>5. Whole(gDocs')
  <2>1. \A i \in I \cap MongoKeys : Victim(gDocs, c, i)
    BY <1>1, <1>3 DEF Victim
  <2> HIDE DEF I, e
  <2>2. Whole(Cleared(gDocs, c.child, I, ABSENT))
    BY <1>1, <1>2, <2>1, DropsWhole DEF Deleting, MongoInv
  <2> QED BY <1>0, <1>3, <2>2
<1>6. Turns(t) /\ gCall'[t] = NULL
  BY <1>0, MongoAnswers
<1>7. MongoType'
  BY <1>0, <1>4, <1>6 DEF MongoType, Turns, MongoPlans
<1> QED BY <1>0, <1>1, <1>4, <1>5, <1>6, <1>7, MongoDeletes DEF Turns

LEMMA MongoStops ==
  ASSUME MongoInv, Documents!Crash
  PROVE  MongoInv'
<1>1. /\ gCall' = [t \in MongoTasks |-> NULL] /\ gTodo' = [t \in MongoTasks |-> << >>]
      /\ gDocs' = gDocs /\ gCounter' = gCounter /\ gMode' = gMode /\ gSaved' = gSaved
  BY DEF Documents!Crash
<1>2. MongoType'
  BY <1>1 DEF MongoInv, MongoType
<1>3. \A t \in MongoTasks : AtWork(t)'
  BY <1>1 DEF AtWork
<1>4. Whole(gDocs') /\ Documents!NewStays'
  BY <1>1 DEF MongoInv, Documents!NewStays
<1> QED BY <1>2, <1>3, <1>4 DEF MongoInv

LEMMA MongoStarts ==
  ASSUME Documents!Init
  PROVE  MongoInv
<1>1. gDocs \in MongoDocuments /\ Whole(gDocs)
  <2>1. gDocs \in MongoInitial
    BY DEF Documents!Init
  <2>2. gDocs \in MongoDocuments
    BY <2>1, MongoAssumption DEF MongoDocuments, MongoValues, MongoKeys
  <2>3. \A d \in MongoInitial : Whole(d)
    BY MongoAssumption DEF Whole, MongoKeys
  <2> QED BY <2>1, <2>2, <2>3
<1>2. MongoType
  BY <1>1 DEF Documents!Init, MongoType, MongoDocuments, MongoValues, MongoKeys, Documents!Ids
<1>3. \A t \in MongoTasks : AtWork(t)
  BY DEF Documents!Init, AtWork
<1>4. Documents!NewStays
  BY DEF Documents!Init, Documents!NewStays
<1> QED BY <1>1, <1>2, <1>3, <1>4 DEF MongoInv

LEMMA MongoNext ==
  ASSUME MongoInv, [Documents!Next]_mongoVars
  PROVE  MongoInv'
<1>1. ASSUME NEW t \in MongoTasks, NEW e \in MongoEntities, NEW id \in MongoKeys \cup {NULL},
             NEW ref \in MongoKeys \cup {NULL}, Documents!Save(t, e, id, ref)
      PROVE  MongoInv'
  BY <1>1, MongoSaveStarts
<1>2. ASSUME NEW t \in MongoTasks, NEW e \in MongoEntities, NEW id \in MongoKeys, Documents!Delete(t, e, id)
      PROVE  MongoInv'
  BY <1>2, MongoDeleteStarts
<1>3. ASSUME NEW t \in MongoTasks,
             \/ Documents!CheckParent(t) \/ Documents!Number(t) \/ Documents!Insert(t) \/ Documents!Replace(t)
             \/ Documents!FindChildren(t) \/ Documents!DropChildren(t) \/ Documents!SetNull(t)
             \/ Documents!RestrictChildren(t) \/ Documents!RemoveParent(t)
      PROVE  MongoInv'
  BY <1>3, MongoChecks, MongoNumbers, MongoInserts, MongoReplaces, MongoFindsChildren, MongoDrops,
     MongoSetsNull, MongoRestricts, MongoRemoves
<1>4. CASE Documents!Crash
  BY <1>4, MongoStops
<1>5. CASE UNCHANGED mongoVars
  <2>1. MongoType'
    BY <1>5 DEF MongoInv, MongoType, mongoVars
  <2>2. \A t \in MongoTasks : AtWork(t)'
    BY <1>5 DEF MongoInv, AtWork, mongoVars
  <2>3. Whole(gDocs') /\ Documents!NewStays'
    BY <1>5 DEF MongoInv, Documents!NewStays, mongoVars
  <2> QED BY <2>1, <2>2, <2>3 DEF MongoInv
<1> QED BY <1>1, <1>2, <1>3, <1>4, <1>5 DEF Documents!Next, Documents!Alive, Documents!Ids, MongoKeys

LEMMA MongoInvIsWhole == MongoInv => Documents!StaysWhole
<1> SUFFICES ASSUME MongoInv PROVE Documents!NoDangling
  BY DEF Documents!StaysWhole, MongoInv
<1> SUFFICES ASSUME NEW f \in DOMAIN MongoRefs, NEW i \in MongoKeys, gDocs[f][i] # ABSENT, gDocs[f][i] # NULL
             PROVE  gDocs[MongoRefs[f].parent][gDocs[f][i]] # ABSENT
  BY DEF Documents!NoDangling, Documents!Alive, Documents!Ids, MongoKeys
<1>1. gDocs[f][i] \in MongoValues
  BY MongoFacts DEF MongoInv, MongoType, MongoDocuments
<1> QED BY <1>1 DEF MongoInv, Whole, MongoValues

LEMMA StoresMongoSteps ==
  ASSUME [StoresNext]_storesVars
  PROVE  part' = part /\ (part = "mongo" => [Documents!Next]_mongoVars)
BY DEF StoresNext, Rest, storesVars

(* database/mongo.py, for any entities with one key to a parent each, any  *)
(* documents and any tasks that save, or any that delete, with crashes     *)
(* between two commands: no document is left with a key to one that is     *)
(* gone, and no document that was acknowledged as new is overwritten by    *)
(* another new one.                                                        *)
THEOREM MongoStaysWhole == StoresSpec => []StaysWhole
<1> DEFINE Inv == part = "mongo" => MongoInv
<1>1. StoresInit => Inv
  BY MongoStarts DEF StoresInit
<1>2. Inv /\ [StoresNext]_storesVars => Inv'
  BY StoresMongoSteps, MongoNext
<1>3. Inv => StaysWhole
  BY MongoInvIsWhole DEF StaysWhole
<1> HIDE DEF Inv
<1> QED BY <1>1, <1>2, <1>3, PTL DEF StoresSpec

-----------------------------------------------------------------------------
(* The schema at startup. *)
SchemaSteps == {"ping", "look", "create", "indexes", "fks", "inspect", "sync", "ready", "failed"}
Needs(p, t) == DOMAIN StartEntities[p][t].columns
Formed(d) ==
  /\ d = [tables |-> d.tables, indexes |-> d.indexes, doubled |-> d.doubled]
  /\ \A t \in DOMAIN d.tables : d.tables[t] = [columns |-> d.tables[t].columns, fks |-> d.tables[t].fks]
SameColumn(d, e, t, c) == c \in DOMAIN e.tables[t].columns /\ e.tables[t].columns[c] = d.tables[t].columns[c]

(* What a process has done by a step of its startup, said of a database d, *)
(* of what it has seen, v, and of what it has told, l.                     *)
Made(d, p) == StartMode[p] # "off" => DOMAIN StartEntities[p] \subseteq DOMAIN d.tables
Indexed(d, l, p) == \A x \in Startup!Declared(p) : x \in d.indexes \cup l \/ x[1] \notin DOMAIN d.tables
Fits(d, p, t, c) == /\ c \in DOMAIN d.tables[t].fks
                    /\ Startup!Group(d.tables[t].fks[c]) = Startup!Group(StartEntities[p][t].fks[c])
Keyed(d, l, p) == \A t \in DOMAIN StartEntities[p] \cap DOMAIN d.tables : \A c \in DOMAIN StartEntities[p][t].fks :
  Fits(d, p, t, c) \/ << t, c, "fk" >> \in l
Columned(d, l, p) == \A t \in DOMAIN StartEntities[p] : \A c \in Needs(p, t) :
  \/ << t, c, "type" >> \in l
  \/ c \in DOMAIN d.tables[t].columns /\ d.tables[t].columns[c] = StartEntities[p][t].columns[c]
(* What it saw of the columns it needs is still there.                     *)
StillThere(d, v, p) ==
  /\ DOMAIN v.tables \subseteq DOMAIN d.tables
  /\ StartMode[p] = "sync" => \A t \in DOMAIN StartEntities[p] \cap DOMAIN v.tables :
       \A c \in Needs(p, t) \cap DOMAIN v.tables[t].columns : SameColumn(v, d, t, c)
Upto(d, s, v, l, p) ==
  /\ s \in {"indexes", "fks", "inspect", "sync", "ready"} => Made(d, p)
  /\ s \in {"fks", "inspect", "sync", "ready"} => Indexed(d, l, p)
  /\ s \in {"inspect", "sync", "ready"} => Keyed(d, l, p)
  /\ s = "ready" /\ StartMode[p] = "sync" => Columned(d, l, p)
  /\ s = "sync" => DOMAIN StartEntities[p] \subseteq DOMAIN v.tables
  /\ s \in {"inspect", "sync"} => StartMode[p] = "sync"
  /\ s \in {"look", "create"} => StartMode[p] # "off"
  /\ StillThere(d, v, p)

SchemaType ==
  /\ Formed(dDb)
  /\ dAt \in [Starting -> SchemaSteps]
  /\ DOMAIN dSeen = Starting /\ dSeen = [p \in Starting |-> dSeen[p]]
  /\ DOMAIN dTold = Starting /\ dTold = [p \in Starting |-> dTold[p]]
SchemaInv == SchemaType /\ \A p \in Starting : Upto(dDb, dAt[p], dSeen[p], dTold[p], p)

(* Tables, indexes and foreign keys stay, and a column does unless one     *)
(* that may drop it does not need it.                                      *)
Evolves(d, e) ==
  /\ Formed(e) /\ DOMAIN d.tables \subseteq DOMAIN e.tables
  /\ DOMAIN e.tables # DOMAIN d.tables => \A p \in Starting : StartMode[p] # "off"
  /\ d.indexes \subseteq e.indexes
  /\ \A t \in DOMAIN d.tables :
       /\ e.tables[t].fks = d.tables[t].fks
       /\ \A c \in DOMAIN d.tables[t].columns :
            \/ SameColumn(d, e, t, c)
            \/ \E q \in Starting \cap StartDrops :
                 StartMode[q] = "sync" /\ t \in DOMAIN StartEntities[q] /\ c \notin Needs(q, t)

LEMMA DeclaredTables ==
  ASSUME NEW p \in Starting, NEW x \in Startup!Declared(p)
  PROVE  x[1] \in DOMAIN StartEntities[p]
BY DEF Startup!Declared, Startup!Tables

LEMMA NeededStays ==
  ASSUME NEW d, NEW e, Evolves(d, e), NEW p \in Starting, StartMode[p] = "sync",
         NEW t \in DOMAIN StartEntities[p] \cap DOMAIN d.tables, NEW c \in Needs(p, t), c \in DOMAIN d.tables[t].columns
  PROVE  SameColumn(d, e, t, c)
<1>1. ASSUME NEW q \in Starting \cap StartDrops, StartMode[q] = "sync", t \in DOMAIN StartEntities[q]
      PROVE  c \in Needs(q, t)
  BY <1>1, StartupAssumption DEF Needs
<1> QED BY <1>1 DEF Evolves

LEMMA UptoEvolves ==
  ASSUME NEW d, NEW e, Evolves(d, e), NEW s, NEW v, NEW l, NEW p \in Starting, Upto(d, s, v, l, p)
  PROVE  Upto(e, s, v, l, p)
<1>1. Made(d, p) => Made(e, p)
  BY DEF Made, Evolves
<1>2. DOMAIN StartEntities[p] \cap DOMAIN e.tables = DOMAIN StartEntities[p] \cap DOMAIN d.tables
        \/ ~ Made(d, p)
  BY DEF Made, Evolves
<1>3. Indexed(d, l, p) /\ Made(d, p) => Indexed(e, l, p)
  <2> SUFFICES ASSUME Indexed(d, l, p), Made(d, p), NEW x \in Startup!Declared(p), x[1] \in DOMAIN e.tables
               PROVE  x \in e.indexes \cup l
    BY DEF Indexed
  <2>1. x[1] \in DOMAIN d.tables
    BY <1>2, DeclaredTables
  <2> QED BY <2>1 DEF Indexed, Evolves
<1>4. Keyed(d, l, p) /\ Made(d, p) => Keyed(e, l, p)
  <2> SUFFICES ASSUME Keyed(d, l, p), Made(d, p), NEW t \in DOMAIN StartEntities[p] \cap DOMAIN e.tables,
                      NEW c \in DOMAIN StartEntities[p][t].fks, << t, c, "fk" >> \notin l
               PROVE  Fits(e, p, t, c)
    BY DEF Keyed
  <2>1. t \in DOMAIN d.tables
    BY <1>2
  <2>2. Fits(d, p, t, c)
    BY <2>1 DEF Keyed
  <2>3. e.tables[t].fks = d.tables[t].fks
    BY <2>1 DEF Evolves
  <2> QED BY <2>2, <2>3 DEF Fits
<1>5. Columned(d, l, p) /\ Made(d, p) /\ StartMode[p] = "sync" => Columned(e, l, p)
  <2> SUFFICES ASSUME Columned(d, l, p), Made(d, p), StartMode[p] = "sync", NEW t \in DOMAIN StartEntities[p],
                      NEW c \in Needs(p, t), << t, c, "type" >> \notin l
               PROVE  c \in DOMAIN e.tables[t].columns /\ e.tables[t].columns[c] = StartEntities[p][t].columns[c]
    BY DEF Columned
  <2>1. t \in DOMAIN d.tables
    BY DEF Made
  <2>2. c \in DOMAIN d.tables[t].columns /\ d.tables[t].columns[c] = StartEntities[p][t].columns[c]
    BY DEF Columned
  <2>3. SameColumn(d, e, t, c)
    BY <2>1, <2>2, NeededStays
  <2> QED BY <2>2, <2>3 DEF SameColumn
<1>6. StillThere(d, v, p) => StillThere(e, v, p)
  <2> SUFFICES ASSUME StillThere(d, v, p), StartMode[p] = "sync", NEW t \in DOMAIN StartEntities[p] \cap DOMAIN v.tables,
                      NEW c \in Needs(p, t), c \in DOMAIN v.tables[t].columns
               PROVE  SameColumn(v, e, t, c)
    BY DEF StillThere, Evolves
  <2>1. t \in DOMAIN d.tables /\ SameColumn(v, d, t, c)
    BY DEF StillThere
  <2>2. SameColumn(d, e, t, c)
    BY <2>1, NeededStays DEF SameColumn
  <2> QED BY <2>1, <2>2 DEF SameColumn
<1> QED BY <1>1, <1>3, <1>4, <1>5, <1>6 DEF Upto

LEMMA EvolvesSame == ASSUME NEW d, Formed(d) PROVE Evolves(d, d)
BY DEF Evolves, SameColumn

ButFor(p) == \A q \in Starting : q # p => dAt'[q] = dAt[q] /\ dSeen'[q] = dSeen[q] /\ dTold'[q] = dTold[q]

LEMMA SchemaStep ==
  ASSUME SchemaInv, NEW p \in Starting, SchemaType', ButFor(p), Evolves(dDb, dDb'),
         Upto(dDb', dAt'[p], dSeen'[p], dTold'[p], p)
  PROVE  SchemaInv'
<1>1. ASSUME NEW q \in Starting, q # p PROVE Upto(dDb', dAt'[q], dSeen'[q], dTold'[q], q)
  <2>1. Upto(dDb', dAt[q], dSeen[q], dTold[q], q)
    BY UptoEvolves DEF SchemaInv
  <2> QED BY <1>1, <2>1 DEF ButFor
<1> QED BY <1>1 DEF SchemaInv

(* Where a process stands when its step changes nothing it has done.       *)
LEMMA SchemaGoes ==
  ASSUME SchemaInv, NEW p \in Starting, NEW s \in SchemaSteps, Startup!Go(p, s)
  PROVE  /\ dAt' \in [Starting -> SchemaSteps] /\ dAt'[p] = s
         /\ \A q \in Starting : q # p => dAt'[q] = dAt[q]
BY DEF SchemaInv, SchemaType, Startup!Go

LEMMA SchemaPing ==
  ASSUME SchemaInv, NEW p \in Starting, Startup!Ping(p)
  PROVE  SchemaInv'
<1>0. dAt[p] = "ping" /\ dDb' = dDb /\ dSeen' = dSeen /\ dTold' = dTold
  BY DEF Startup!Ping
<1>1. PICK s \in {"ping", "indexes", "look", "failed"} :
        /\ s = "indexes" => StartMode[p] = "off"
        /\ s = "look" => StartMode[p] # "off"
        /\ dAt' \in [Starting -> SchemaSteps] /\ dAt'[p] = s
        /\ \A q \in Starting : q # p => dAt'[q] = dAt[q]
  <2>1. CASE Startup!Go(p, "indexes") /\ StartMode[p] = "off"
    BY <2>1, SchemaGoes DEF SchemaSteps
  <2>2. CASE Startup!Go(p, "look") /\ StartMode[p] # "off"
    BY <2>2, SchemaGoes DEF SchemaSteps
  <2>3. CASE Startup!Go(p, "failed")
    BY <2>3, SchemaGoes DEF SchemaSteps
  <2>4. CASE dAt' = dAt
    BY <1>0, <2>4 DEF SchemaInv, SchemaType
  <2> QED BY <2>1, <2>2, <2>3, <2>4 DEF Startup!Ping
<1>2. SchemaType' /\ ButFor(p)
  BY <1>0, <1>1 DEF SchemaInv, SchemaType, ButFor
<1>3. Evolves(dDb, dDb')
  BY <1>0, EvolvesSame DEF SchemaInv, SchemaType
<1>4. Upto(dDb, dAt[p], dSeen[p], dTold[p], p)
  BY DEF SchemaInv
<1>5. Upto(dDb', dAt'[p], dSeen'[p], dTold'[p], p)
  BY <1>0, <1>1, <1>4 DEF Upto, Made
<1> QED BY <1>2, <1>3, <1>5, SchemaStep

LEMMA SeesAll == ASSUME NEW d, NEW p PROVE StillThere(d, d, p)
BY DEF StillThere, SameColumn

LEMMA SchemaLooks ==
  ASSUME SchemaInv, NEW p \in Starting, Startup!LookTables(p) \/ Startup!Inspect(p)
  PROVE  SchemaInv'
<1>0. dDb' = dDb /\ dTold' = dTold /\ dSeen' = [dSeen EXCEPT ![p] = dDb]
  BY DEF Startup!LookTables, Startup!Inspect, Startup!Look
<1>1. /\ dAt' \in [Starting -> SchemaSteps]
      /\ (dAt[p] = "look" /\ dAt'[p] = "create") \/ (dAt[p] = "inspect" /\ dAt'[p] = "sync")
      /\ \A q \in Starting : q # p => dAt'[q] = dAt[q]
  BY SchemaGoes DEF Startup!LookTables, Startup!Inspect, SchemaSteps
<1>2. DOMAIN dSeen = Starting /\ dSeen'[p] = dDb
  BY <1>0 DEF SchemaInv, SchemaType
<1>3. SchemaType' /\ ButFor(p)
  BY <1>0, <1>1, <1>2 DEF SchemaInv, SchemaType, ButFor
<1>4. Evolves(dDb, dDb')
  BY <1>0, EvolvesSame DEF SchemaInv, SchemaType
<1>5. Upto(dDb, dAt[p], dSeen[p], dTold[p], p)
  BY DEF SchemaInv
<1>6. Upto(dDb, dAt'[p], dDb, dTold[p], p)
  BY <1>1, <1>5, SeesAll DEF Upto, Made
<1> QED BY <1>0, <1>2, <1>3, <1>4, <1>6, SchemaStep

LEMMA SchemaCreates ==
  ASSUME SchemaInv, NEW p \in Starting, Startup!CreateTables(p)
  PROVE  SchemaInv'
<1> DEFINE missing == DOMAIN StartEntities[p] \ DOMAIN dSeen[p].tables
           T == [t \in DOMAIN dDb.tables \cup missing |->
                   IF t \in missing THEN [columns |-> StartEntities[p][t].columns, fks |-> StartEntities[p][t].fks]
                   ELSE dDb.tables[t]]
<1>0. /\ dAt[p] = "create" /\ dSeen' = dSeen /\ dTold' = dTold
      /\ IF missing \cap DOMAIN dDb.tables # {} THEN Startup!Go(p, "failed") /\ dDb' = dDb
         ELSE dDb' = [dDb EXCEPT !.tables = T] /\ Startup!Go(p, "indexes")
  BY DEF Startup!CreateTables, Startup!Tables
<1>1. Formed(dDb) /\ Upto(dDb, dAt[p], dSeen[p], dTold[p], p)
  BY DEF SchemaInv, SchemaType
<1>2. CASE Startup!Go(p, "failed") /\ dDb' = dDb
  <2>1. dAt' \in [Starting -> SchemaSteps] /\ dAt'[p] = "failed" /\ \A q \in Starting : q # p => dAt'[q] = dAt[q]
    BY <1>2, SchemaGoes DEF SchemaSteps
  <2>2. SchemaType' /\ ButFor(p)
    BY <1>0, <1>2, <2>1 DEF SchemaInv, SchemaType, ButFor
  <2>3. Upto(dDb', dAt'[p], dSeen'[p], dTold'[p], p)
    BY <1>0, <1>1, <1>2, <2>1 DEF Upto
  <2> QED BY <1>1, <1>2, <2>2, <2>3, EvolvesSame, SchemaStep
<1>3. CASE missing \cap DOMAIN dDb.tables = {} /\ dDb' = [dDb EXCEPT !.tables = T] /\ Startup!Go(p, "indexes")
  <2>1. dAt' \in [Starting -> SchemaSteps] /\ dAt'[p] = "indexes" /\ \A q \in Starting : q # p => dAt'[q] = dAt[q]
    BY <1>3, SchemaGoes DEF SchemaSteps
  <2>2. dDb' = [tables |-> T, indexes |-> dDb.indexes, doubled |-> dDb.doubled]
    <3> HIDE DEF T
    <3> QED BY <1>1, <1>3 DEF Formed
  <2>3. /\ DOMAIN T = DOMAIN dDb.tables \cup missing
        /\ \A t \in DOMAIN dDb.tables : T[t] = dDb.tables[t]
        /\ \A t \in missing : T[t] = [columns |-> StartEntities[p][t].columns, fks |-> StartEntities[p][t].fks]
    BY <1>3
  <2>4. dDb'.tables = T /\ dDb'.indexes = dDb.indexes /\ dDb'.doubled = dDb.doubled
    BY <2>2
  <2> HIDE DEF T
  <2>5. StartMode[p] # "off"
    BY <1>0, <1>1 DEF Upto
  <2>6. Formed(dDb')
    <3>1. ASSUME NEW t \in DOMAIN T PROVE T[t] = [columns |-> T[t].columns, fks |-> T[t].fks]
      <4>1. CASE t \in missing
        <5>1. T[t] = [columns |-> StartEntities[p][t].columns, fks |-> StartEntities[p][t].fks]
          BY <4>1, <2>3
        <5> HIDE DEF missing
        <5> QED BY <5>1
      <4>2. CASE t \in DOMAIN dDb.tables
        <5>1. T[t] = dDb.tables[t]
          BY <4>2, <2>3
        <5> QED BY <4>2, <5>1, <1>1 DEF Formed
      <4> QED BY <3>1, <4>1, <4>2, <2>3
    <3>2. dDb' = [tables |-> dDb'.tables, indexes |-> dDb'.indexes, doubled |-> dDb'.doubled]
      BY <2>2, <2>4
    <3> HIDE DEF missing
    <3> QED BY <3>1, <3>2, <2>4 DEF Formed
  <2>7. Evolves(dDb, dDb')
    BY <2>3, <2>4, <2>5, <2>6, StartupAssumption DEF Evolves, SameColumn
  <2>8. SchemaType' /\ ButFor(p)
    BY <1>0, <2>1, <2>6 DEF SchemaInv, SchemaType, ButFor
  <2>9. Made(dDb', p)
    BY <1>1, <2>3, <2>4 DEF Made, Upto, StillThere
  <2>10. Upto(dDb', dAt[p], dSeen[p], dTold[p], p)
    BY <1>1, <2>7, UptoEvolves
  <2>11. Upto(dDb', dAt'[p], dSeen'[p], dTold'[p], p)
    BY <1>0, <2>1, <2>9, <2>10 DEF Upto
  <2> QED BY <2>7, <2>8, <2>11, SchemaStep
<1> QED BY <1>0, <1>2, <1>3

LEMMA SchemaIndexes ==
  ASSUME SchemaInv, NEW p \in Starting, Startup!Indexes(p)
  PROVE  SchemaInv'
<1> DEFINE I == IF StartMode[p] = "off" THEN {} ELSE Startup!Declared(p) \ dDb.doubled
           L == IF StartMode[p] = "off" THEN {x \in Startup!Declared(p) \ dDb.indexes : x[1] \in Startup!Present(p)}
                ELSE (Startup!Declared(p) \cap dDb.doubled) \ dDb.indexes
<1>0. dAt[p] = "indexes" /\ dSeen' = dSeen /\ Startup!Go(p, "fks") /\ Startup!Tell(p, L)
  BY DEF Startup!Indexes
<1>1. Formed(dDb) /\ Upto(dDb, dAt[p], dSeen[p], dTold[p], p)
  BY DEF SchemaInv, SchemaType
<1>2. /\ dDb'.tables = dDb.tables /\ dDb'.indexes = dDb.indexes \cup I /\ dDb'.doubled = dDb.doubled
      /\ dDb' = [tables |-> dDb'.tables, indexes |-> dDb'.indexes, doubled |-> dDb'.doubled]
  <2>1. CASE StartMode[p] = "off"
    BY <1>1, <2>1 DEF Startup!Indexes, Formed
  <2>2. CASE StartMode[p] # "off"
    <3>1. dDb' = [dDb EXCEPT !.indexes = dDb.indexes \cup I]
      BY <2>2 DEF Startup!Indexes
    <3> HIDE DEF I
    <3>2. dDb' = [tables |-> dDb.tables, indexes |-> dDb.indexes \cup I, doubled |-> dDb.doubled]
      BY <3>1, <1>1 DEF Formed
    <3> QED BY <3>2
  <2> QED BY <2>1, <2>2
<1>3. /\ dAt' \in [Starting -> SchemaSteps] /\ dAt'[p] = "fks"
      /\ \A q \in Starting : q # p => dAt'[q] = dAt[q]
  BY <1>0, SchemaGoes DEF SchemaSteps
<1>4. /\ DOMAIN dTold' = Starting /\ dTold' = [q \in Starting |-> dTold'[q]] /\ dTold'[p] = dTold[p] \cup L
      /\ \A q \in Starting : q # p => dTold'[q] = dTold[q]
  BY <1>0 DEF Startup!Tell, SchemaInv, SchemaType
<1>5. \A x \in Startup!Declared(p) : x \in dDb.indexes \cup I \cup L \/ x[1] \notin DOMAIN dDb.tables
  BY DeclaredTables DEF Startup!Present, Startup!Tables
<1> HIDE DEF I, L
<1>6. Formed(dDb')
  BY <1>1, <1>2 DEF Formed
<1>7. Evolves(dDb, dDb')
  BY <1>2, <1>6 DEF Evolves, SameColumn
<1>8. SchemaType' /\ ButFor(p)
  BY <1>0, <1>3, <1>4, <1>6 DEF SchemaInv, SchemaType, ButFor
<1>9. Upto(dDb', dAt[p], dSeen[p], dTold[p], p)
  BY <1>1, <1>7, UptoEvolves
<1>10. Indexed(dDb', dTold'[p], p)
  BY <1>2, <1>4, <1>5 DEF Indexed
<1>11. Upto(dDb', dAt'[p], dSeen'[p], dTold'[p], p)
  BY <1>0, <1>3, <1>9, <1>10 DEF Upto
<1> QED BY <1>7, <1>8, <1>11, SchemaStep

LEMMA SchemaForeignKeys ==
  ASSUME SchemaInv, NEW p \in Starting, Startup!ForeignKeys(p)
  PROVE  SchemaInv'
<1> DEFINE L == UNION {{<< t, c, "fk" >> : c \in Startup!Stale(p, t)} : t \in Startup!Present(p)}
<1>0. /\ dAt[p] = "fks" /\ dSeen' = dSeen /\ dDb' = dDb /\ Startup!Tell(p, L)
      /\ Startup!Go(p, IF StartMode[p] = "sync" THEN "inspect" ELSE "ready")
  BY DEF Startup!ForeignKeys
<1>1. Formed(dDb) /\ Upto(dDb, dAt[p], dSeen[p], dTold[p], p)
  BY DEF SchemaInv, SchemaType
<1>2. /\ dAt' \in [Starting -> SchemaSteps]
      /\ (dAt'[p] = "inspect" /\ StartMode[p] = "sync") \/ (dAt'[p] = "ready" /\ StartMode[p] # "sync")
      /\ \A q \in Starting : q # p => dAt'[q] = dAt[q]
  <2>1. CASE Startup!Go(p, "inspect") /\ StartMode[p] = "sync"
    BY <2>1, SchemaGoes DEF SchemaSteps
  <2>2. CASE Startup!Go(p, "ready") /\ StartMode[p] # "sync"
    BY <2>2, SchemaGoes DEF SchemaSteps
  <2> QED BY <1>0, <2>1, <2>2
<1>3. /\ DOMAIN dTold' = Starting /\ dTold' = [q \in Starting |-> dTold'[q]] /\ dTold'[p] = dTold[p] \cup L
      /\ \A q \in Starting : q # p => dTold'[q] = dTold[q]
  BY <1>0 DEF Startup!Tell, SchemaInv, SchemaType
<1>4. ASSUME NEW t \in DOMAIN StartEntities[p] \cap DOMAIN dDb.tables, NEW c \in DOMAIN StartEntities[p][t].fks
      PROVE  Fits(dDb, p, t, c) \/ << t, c, "fk" >> \in L
  <2>1. CASE c \in Startup!Stale(p, t)
    BY <2>1 DEF Startup!Present, Startup!Tables
  <2>2. CASE c \notin Startup!Stale(p, t)
    BY <2>2 DEF Startup!Stale, Fits
  <2> QED BY <2>1, <2>2
<1> HIDE DEF L
<1>5. Evolves(dDb, dDb')
  BY <1>0, <1>1, EvolvesSame
<1>6. SchemaType' /\ ButFor(p)
  BY <1>0, <1>1, <1>2, <1>3 DEF SchemaInv, SchemaType, ButFor
<1>7. Keyed(dDb, dTold'[p], p)
  BY <1>3, <1>4 DEF Keyed
<1>8. Indexed(dDb, dTold'[p], p)
  BY <1>0, <1>1, <1>3 DEF Indexed, Upto
<1>9. Upto(dDb', dAt'[p], dSeen'[p], dTold'[p], p)
  BY <1>0, <1>1, <1>2, <1>7, <1>8 DEF Upto
<1> QED BY <1>5, <1>6, <1>9, SchemaStep

(* The columns of a table after ADD COLUMN and DROP COLUMN.                *)
Altered(d, p, t, gone, have) ==
  Startup!Adding(Startup!Without(d.tables[t].columns, gone[t]), Needs(p, t) \ have[t], StartEntities[p][t].columns)

LEMMA ColumnsAfter ==
  ASSUME NEW p, NEW t, NEW gone, NEW have
  PROVE  DOMAIN Altered(dDb, p, t, gone, have) = (DOMAIN dDb.tables[t].columns \ gone[t]) \cup (Needs(p, t) \ have[t])
BY DEF Altered, Startup!Adding, Startup!Without, Restrict, Startup!Restrict

LEMMA ColumnKept ==
  ASSUME NEW p, NEW t, NEW gone, NEW have, NEW c \in DOMAIN dDb.tables[t].columns \ gone[t]
  PROVE  Altered(dDb, p, t, gone, have)[c] = dDb.tables[t].columns[c]
BY DEF Altered, Startup!Adding, Startup!Without, Restrict, Startup!Restrict

LEMMA ColumnAdded ==
  ASSUME NEW p, NEW t, NEW gone, NEW have, NEW c \in (Needs(p, t) \ have[t]) \ DOMAIN dDb.tables[t].columns
  PROVE  Altered(dDb, p, t, gone, have)[c] = StartEntities[p][t].columns[c]
BY DEF Altered, Startup!Adding, Startup!Without, Restrict, Startup!Restrict

(* What Sync does when it ends well.                                       *)
Synced(p, gone, have) ==
  /\ dAt[p] = "sync" /\ Startup!Go(p, "ready") /\ dSeen' = dSeen
  /\ \A t \in DOMAIN StartEntities[p] \cap DOMAIN dSeen[p].tables :
       /\ have[t] = DOMAIN dSeen[p].tables[t].columns
       /\ gone[t] \subseteq have[t] \ Needs(p, t) /\ (p \notin StartDrops => gone[t] = {})
       /\ (Needs(p, t) \ have[t]) \cap DOMAIN dDb.tables[t].columns = {}
  /\ dDb' = [dDb EXCEPT !.tables = [t \in DOMAIN dDb.tables |->
       IF t \notin DOMAIN StartEntities[p] \cap DOMAIN dSeen[p].tables THEN dDb.tables[t]
       ELSE [dDb.tables[t] EXCEPT !.columns = Altered(dDb, p, t, gone, have)]]]
  /\ \E L : /\ Startup!Tell(p, L)
           /\ \A t \in DOMAIN StartEntities[p] \cap DOMAIN dSeen[p].tables : \A c \in Needs(p, t) \cap have[t] :
                dSeen[p].tables[t].columns[c] = StartEntities[p][t].columns[c] \/ << t, c, "type" >> \in L

LEMMA SyncEnds ==
  ASSUME NEW p \in Starting, Startup!Sync(p)
  PROVE  \/ dAt[p] = "sync" /\ Startup!Go(p, "failed") /\ dDb' = dDb /\ dTold' = dTold /\ dSeen' = dSeen
         \/ \E gone, have : Synced(p, gone, have)
<1> DEFINE known == DOMAIN StartEntities[p] \cap DOMAIN dSeen[p].tables
           have == [t \in known |-> DOMAIN dSeen[p].tables[t].columns]
           gone(w) == [t \in known |-> IF p \in StartDrops /\ w THEN have[t] \ Needs(p, t) ELSE {}]
           differ(t) == {c \in Needs(p, t) \cap have[t] :
                           dSeen[p].tables[t].columns[c] # StartEntities[p][t].columns[c]}
           L(w) == UNION {{<< t, c, "type" >> : c \in differ(t)}
                          \cup {<< t, c, "extra" >> : c \in (have[t] \ Needs(p, t)) \ gone(w)[t]} : t \in known}
           T(w) == [t \in DOMAIN dDb.tables |->
                      IF t \notin known THEN dDb.tables[t]
                      ELSE [dDb.tables[t] EXCEPT !.columns = Altered(dDb, p, t, gone(w), have)]]
           clash == \E t \in known : (Needs(p, t) \ have[t]) \cap DOMAIN dDb.tables[t].columns # {}
<1>1. dAt[p] = "sync" /\ dSeen' = dSeen
  BY DEF Startup!Sync
<1>2. CASE clash
  BY <1>1, <1>2 DEF Startup!Sync, Startup!Tables, Needs
<1>3. CASE ~ clash
  <2>1. PICK w \in BOOLEAN : /\ dDb' = [dDb EXCEPT !.tables = T(w)]
                             /\ Startup!Tell(p, L(w)) /\ Startup!Go(p, "ready")
    <3> DEFINE h(t) == DOMAIN dSeen[p].tables[t].columns
               n(t) == DOMAIN StartEntities[p][t].columns
               x(t) == h(t) \ n(t)
               d(t) == {c \in n(t) \cap h(t) : dSeen[p].tables[t].columns[c] # StartEntities[p][t].columns[c]}
               g(w, t) == IF p \in StartDrops /\ w THEN x(t) ELSE {}
               TT(w) == [t \in DOMAIN dDb.tables |->
                  IF t \notin known THEN dDb.tables[t]
                  ELSE [dDb.tables[t] EXCEPT !.columns =
                     Startup!Adding(Startup!Without(dDb.tables[t].columns, g(w, t)), n(t) \ h(t), StartEntities[p][t].columns)]]
               LL(w) == UNION {{<< t, c, "type" >> : c \in d(t)} \cup {<< t, c, "extra" >> : c \in x(t) \ g(w, t)} : t \in known}
    <3>1. ~ (\E t \in known : (n(t) \ h(t)) \cap DOMAIN dDb.tables[t].columns # {})
      BY <1>3 DEF Needs
    <3>2. \E w \in BOOLEAN : /\ dDb' = [dDb EXCEPT !.tables = TT(w)]
                             /\ Startup!Tell(p, LL(w)) /\ Startup!Go(p, "ready")
      BY <3>1, Zenon DEF Startup!Sync, Startup!Tables
    <3>3. ASSUME NEW w \in BOOLEAN, NEW t \in known
          PROVE  h(t) = have[t] /\ n(t) = Needs(p, t) /\ g(w, t) = gone(w)[t] /\ d(t) = differ(t)
      BY DEF Needs
    <3>4. ASSUME NEW w \in BOOLEAN PROVE LL(w) = L(w)
      <4> DEFINE A(t) == {<< t, c, "type" >> : c \in d(t)} \cup {<< t, c, "extra" >> : c \in x(t) \ g(w, t)}
                 B(t) == {<< t, c, "type" >> : c \in differ(t)}
                           \cup {<< t, c, "extra" >> : c \in (have[t] \ Needs(p, t)) \ gone(w)[t]}
      <4>1. ASSUME NEW t \in known PROVE A(t) = B(t)
        <5>1. d(t) = differ(t) /\ x(t) \ g(w, t) = (have[t] \ Needs(p, t)) \ gone(w)[t]
          BY <4>1, <3>3
        <5> HIDE DEF d, x, g, differ, have, gone
        <5> QED BY <5>1
      <4>2. LL(w) = UNION {A(t) : t \in known} /\ L(w) = UNION {B(t) : t \in known}
        OBVIOUS
      <4> HIDE DEF A, B, LL, L
      <4> QED BY <4>1, <4>2
    <3>5. ASSUME NEW w \in BOOLEAN PROVE TT(w) = T(w)
      <4>1. ASSUME NEW t \in known
            PROVE  Startup!Adding(Startup!Without(dDb.tables[t].columns, g(w, t)), n(t) \ h(t), StartEntities[p][t].columns)
                     = Altered(dDb, p, t, gone(w), have)
        BY <4>1, <3>3, Zenon DEF Altered
      <4> QED BY <4>1, Zenon
    <3> HIDE DEF TT, T, LL, L
    <3> QED BY <3>2, <3>4, <3>5
  <2>2. \A t \in known : \A c \in Needs(p, t) \cap have[t] :
          dSeen[p].tables[t].columns[c] = StartEntities[p][t].columns[c] \/ << t, c, "type" >> \in L(w)
    OBVIOUS
  <2>3. \A t \in known :
       /\ have[t] = DOMAIN dSeen[p].tables[t].columns
       /\ gone(w)[t] \subseteq have[t] \ Needs(p, t) /\ (p \notin StartDrops => gone(w)[t] = {})
       /\ (Needs(p, t) \ have[t]) \cap DOMAIN dDb.tables[t].columns = {}
    BY <1>3
  <2> HIDE DEF L
  <2>4. Synced(p, gone(w), have)
    BY <1>1, <2>1, <2>2, <2>3 DEF Synced
  <2> QED BY <2>4
<1> QED BY <1>2, <1>3

LEMMA SyncAlters ==
  ASSUME SchemaInv, NEW p \in Starting, NEW gone, NEW have, Synced(p, gone, have)
  PROVE  /\ DOMAIN dSeen[p].tables \subseteq DOMAIN dDb.tables
         /\ DOMAIN dDb'.tables = DOMAIN dDb.tables /\ dDb'.indexes = dDb.indexes
         /\ Formed(dDb')
         /\ \A t \in DOMAIN dDb.tables :
              /\ t \notin DOMAIN StartEntities[p] \cap DOMAIN dSeen[p].tables => dDb'.tables[t] = dDb.tables[t]
              /\ dDb'.tables[t].fks = dDb.tables[t].fks
         /\ \A t \in DOMAIN StartEntities[p] \cap DOMAIN dSeen[p].tables :
              dDb'.tables[t].columns = Altered(dDb, p, t, gone, have)
<1> DEFINE known == DOMAIN StartEntities[p] \cap DOMAIN dSeen[p].tables
           T == [t \in DOMAIN dDb.tables |->
                  IF t \notin known THEN dDb.tables[t]
                  ELSE [dDb.tables[t] EXCEPT !.columns = Altered(dDb, p, t, gone, have)]]
<1>1. Formed(dDb) /\ DOMAIN dSeen[p].tables \subseteq DOMAIN dDb.tables
  BY DEF SchemaInv, SchemaType, Upto, StillThere
<1>2. dDb' = [dDb EXCEPT !.tables = T]
  BY DEF Synced
<1>3. DOMAIN T = DOMAIN dDb.tables /\ \A t \in DOMAIN dDb.tables : t \notin known => T[t] = dDb.tables[t]
  OBVIOUS
<1>4. ASSUME NEW t \in DOMAIN dDb.tables, t \in known
      PROVE  T[t] = [columns |-> Altered(dDb, p, t, gone, have), fks |-> dDb.tables[t].fks]
  <2>1. T[t] = [dDb.tables[t] EXCEPT !.columns = Altered(dDb, p, t, gone, have)]
    BY <1>4
  <2>2. dDb.tables[t] = [columns |-> dDb.tables[t].columns, fks |-> dDb.tables[t].fks]
    BY <1>1 DEF Formed
  <2> HIDE DEF T
  <2> QED BY <2>1, <2>2
<1> HIDE DEF T
<1>5. dDb' = [tables |-> T, indexes |-> dDb.indexes, doubled |-> dDb.doubled]
  BY <1>1, <1>2 DEF Formed
<1>6. dDb'.tables = T /\ dDb'.indexes = dDb.indexes
      /\ dDb' = [tables |-> dDb'.tables, indexes |-> dDb'.indexes, doubled |-> dDb'.doubled]
  BY <1>5
<1>7. ASSUME NEW t \in DOMAIN T
      PROVE  T[t] = [columns |-> T[t].columns, fks |-> T[t].fks] /\ T[t].fks = dDb.tables[t].fks
  <2>1. CASE t \in known
    <3>1. T[t] = [columns |-> Altered(dDb, p, t, gone, have), fks |-> dDb.tables[t].fks]
      BY <2>1, <1>3, <1>4
    <3> HIDE DEF known
    <3> QED BY <3>1
  <2>2. CASE t \notin known
    BY <2>2, <1>1, <1>3 DEF Formed
  <2> QED BY <2>1, <2>2
<1>8. Formed(dDb')
  BY <1>6, <1>7 DEF Formed
<1>9. \A t \in known : T[t].columns = Altered(dDb, p, t, gone, have)
  <2> SUFFICES ASSUME NEW t \in known PROVE T[t].columns = Altered(dDb, p, t, gone, have)
    OBVIOUS
  <2>1. T[t] = [columns |-> Altered(dDb, p, t, gone, have), fks |-> dDb.tables[t].fks]
    BY <1>1, <1>4
  <2> HIDE DEF known
  <2> QED BY <2>1
<1> QED BY <1>1, <1>3, <1>6, <1>7, <1>8, <1>9

LEMMA SyncKeeps ==
  ASSUME SchemaInv, NEW p \in Starting, NEW gone, NEW have, Synced(p, gone, have),
         NEW t \in DOMAIN dDb.tables, NEW c \in DOMAIN dDb.tables[t].columns
  PROVE  \/ SameColumn(dDb, dDb', t, c)
         \/ p \in StartDrops /\ t \in DOMAIN StartEntities[p] /\ c \notin Needs(p, t)
<1>1. CASE t \in DOMAIN StartEntities[p] \cap DOMAIN dSeen[p].tables
  <2>1. gone[t] \cap Needs(p, t) = {} /\ (p \notin StartDrops => gone[t] = {})
    BY <1>1 DEF Synced
  <2>2. c \notin gone[t] => SameColumn(dDb, dDb', t, c)
    <3>1. dDb'.tables[t].columns = Altered(dDb, p, t, gone, have)
      BY <1>1, SyncAlters
    <3>2. SUFFICES ASSUME c \notin gone[t] PROVE SameColumn(dDb, dDb', t, c)
      OBVIOUS
    <3>3. /\ DOMAIN Altered(dDb, p, t, gone, have) =
               (DOMAIN dDb.tables[t].columns \ gone[t]) \cup (Needs(p, t) \ have[t])
          /\ Altered(dDb, p, t, gone, have)[c] = dDb.tables[t].columns[c]
      <4>1. c \in DOMAIN dDb.tables[t].columns \ gone[t]
        BY <3>2
      <4>2. DOMAIN Altered(dDb, p, t, gone, have) =
               (DOMAIN dDb.tables[t].columns \ gone[t]) \cup (Needs(p, t) \ have[t])
        BY ColumnsAfter
      <4>3. Altered(dDb, p, t, gone, have)[c] = dDb.tables[t].columns[c]
        BY <4>1, ColumnKept
      <4> QED BY <4>2, <4>3
    <3> QED BY <3>1, <3>2, <3>3 DEF SameColumn
  <2> QED BY <1>1, <2>1, <2>2
<1>2. CASE t \notin DOMAIN StartEntities[p] \cap DOMAIN dSeen[p].tables
  BY <1>2, SyncAlters DEF SameColumn
<1> QED BY <1>1, <1>2

LEMMA SchemaSyncs ==
  ASSUME SchemaInv, NEW p \in Starting, NEW gone, NEW have, Synced(p, gone, have)
  PROVE  SchemaInv'
<1>0. dAt[p] = "sync" /\ dSeen' = dSeen
  BY DEF Synced
<1>1. Formed(dDb) /\ Upto(dDb, dAt[p], dSeen[p], dTold[p], p)
  BY DEF SchemaInv, SchemaType
<1>2. /\ dAt' \in [Starting -> SchemaSteps] /\ dAt'[p] = "ready"
      /\ \A q \in Starting : q # p => dAt'[q] = dAt[q]
  BY SchemaGoes DEF Synced, SchemaSteps
<1>3. PICK L : /\ Startup!Tell(p, L)
               /\ \A t \in DOMAIN StartEntities[p] \cap DOMAIN dSeen[p].tables : \A c \in Needs(p, t) \cap have[t] :
                    dSeen[p].tables[t].columns[c] = StartEntities[p][t].columns[c] \/ << t, c, "type" >> \in L
  BY DEF Synced
<1>4. /\ DOMAIN dTold' = Starting /\ dTold' = [q \in Starting |-> dTold'[q]] /\ dTold'[p] = dTold[p] \cup L
      /\ \A q \in Starting : q # p => dTold'[q] = dTold[q]
  BY <1>3 DEF Startup!Tell, SchemaInv, SchemaType
<1>5. StartMode[p] = "sync" /\ DOMAIN StartEntities[p] \subseteq DOMAIN dSeen[p].tables
  BY <1>0, <1>1 DEF Upto
<1>6. Evolves(dDb, dDb')
  <2>1. ASSUME NEW t \in DOMAIN dDb.tables, NEW c \in DOMAIN dDb.tables[t].columns
        PROVE  \/ SameColumn(dDb, dDb', t, c)
               \/ \E q \in Starting \cap StartDrops :
                    StartMode[q] = "sync" /\ t \in DOMAIN StartEntities[q] /\ c \notin Needs(q, t)
    BY <1>5, SyncKeeps
  <2> QED BY <2>1, SyncAlters DEF Evolves
<1>7. SchemaType' /\ ButFor(p)
  BY <1>0, <1>2, <1>4, SyncAlters DEF SchemaInv, SchemaType, ButFor
<1>8. Columned(dDb', dTold'[p], p)
  <2> SUFFICES ASSUME NEW t \in DOMAIN StartEntities[p], NEW c \in Needs(p, t), << t, c, "type" >> \notin dTold'[p]
               PROVE  c \in DOMAIN dDb'.tables[t].columns /\ dDb'.tables[t].columns[c] = StartEntities[p][t].columns[c]
    BY DEF Columned
  <2>0. t \in DOMAIN StartEntities[p] \cap DOMAIN dSeen[p].tables /\ t \in DOMAIN dDb.tables
    BY <1>5, SyncAlters
  <2>1. /\ have[t] = DOMAIN dSeen[p].tables[t].columns /\ gone[t] \cap Needs(p, t) = {}
        /\ (Needs(p, t) \ have[t]) \cap DOMAIN dDb.tables[t].columns = {}
    BY <2>0 DEF Synced
  <2>2. CASE c \in have[t]
    <3>1. dSeen[p].tables[t].columns[c] = StartEntities[p][t].columns[c]
      BY <1>3, <1>4, <2>0, <2>2
    <3>2. SameColumn(dSeen[p], dDb, t, c)
      BY <1>1, <1>5, <2>0, <2>1, <2>2 DEF Upto, StillThere
    <3>3. c \in DOMAIN dDb.tables[t].columns
      BY <3>2 DEF SameColumn
    <3>4. SameColumn(dDb, dDb', t, c)
      BY <1>5, <1>6, <2>0, <3>3, NeededStays
    <3> QED BY <3>1, <3>2, <3>4 DEF SameColumn
  <2>3. CASE c \notin have[t]
    <3>1. c \in (Needs(p, t) \ have[t]) \ DOMAIN dDb.tables[t].columns
      BY <2>1, <2>3
    <3>2. dDb'.tables[t].columns = Altered(dDb, p, t, gone, have)
      BY <2>0, SyncAlters
    <3>3. /\ DOMAIN Altered(dDb, p, t, gone, have) =
               (DOMAIN dDb.tables[t].columns \ gone[t]) \cup (Needs(p, t) \ have[t])
          /\ Altered(dDb, p, t, gone, have)[c] = StartEntities[p][t].columns[c]
      <4>1. DOMAIN Altered(dDb, p, t, gone, have) =
               (DOMAIN dDb.tables[t].columns \ gone[t]) \cup (Needs(p, t) \ have[t])
        BY ColumnsAfter
      <4>2. Altered(dDb, p, t, gone, have)[c] = StartEntities[p][t].columns[c]
        BY <3>1, ColumnAdded
      <4> QED BY <4>1, <4>2
    <3> QED BY <3>1, <3>2, <3>3
  <2> QED BY <2>2, <2>3
<1>9. Upto(dDb', dAt[p], dSeen[p], dTold[p], p)
  BY <1>1, <1>6, UptoEvolves
<1>10. Indexed(dDb', dTold'[p], p) /\ Keyed(dDb', dTold'[p], p)
  BY <1>0, <1>4, <1>9 DEF Indexed, Keyed, Upto
<1>11. Upto(dDb', dAt'[p], dSeen'[p], dTold'[p], p)
  BY <1>0, <1>2, <1>8, <1>9, <1>10 DEF Upto
<1> QED BY <1>6, <1>7, <1>11, SchemaStep

LEMMA SchemaSync ==
  ASSUME SchemaInv, NEW p \in Starting, Startup!Sync(p)
  PROVE  SchemaInv'
<1>1. CASE dAt[p] = "sync" /\ Startup!Go(p, "failed") /\ dDb' = dDb /\ dTold' = dTold /\ dSeen' = dSeen
  <2>1. dAt' \in [Starting -> SchemaSteps] /\ dAt'[p] = "failed" /\ \A q \in Starting : q # p => dAt'[q] = dAt[q]
    BY <1>1, SchemaGoes DEF SchemaSteps
  <2>2. SchemaType' /\ ButFor(p)
    BY <1>1, <2>1 DEF SchemaInv, SchemaType, ButFor
  <2>3. Evolves(dDb, dDb')
    BY <1>1, EvolvesSame DEF SchemaInv, SchemaType
  <2>4. Upto(dDb, dAt[p], dSeen[p], dTold[p], p)
    BY DEF SchemaInv
  <2>5. Upto(dDb', dAt'[p], dSeen'[p], dTold'[p], p)
    BY <1>1, <2>1, <2>4 DEF Upto
  <2> QED BY <2>2, <2>3, <2>5, SchemaStep
<1> QED BY <1>1, SyncEnds, SchemaSyncs

LEMMA SchemaStarts == ASSUME Startup!Init PROVE SchemaInv
<1>1. Formed(dDb)
  BY StartupAssumption DEF Startup!Init, Formed
<1>2. SchemaType
  BY <1>1 DEF Startup!Init, SchemaType, SchemaSteps
<1>3. ASSUME NEW p \in Starting PROVE Upto(dDb, dAt[p], dSeen[p], dTold[p], p)
  BY SeesAll DEF Startup!Init, Upto
<1> QED BY <1>2, <1>3 DEF SchemaInv

LEMMA SchemaNext ==
  ASSUME SchemaInv, [Startup!Next]_startupVars
  PROVE  SchemaInv'
<1>1. CASE UNCHANGED startupVars
  BY <1>1 DEF startupVars, SchemaInv, SchemaType, Upto
<1>2. CASE Startup!Next
  <2>1. PICK p \in Starting : \/ Startup!Ping(p) \/ Startup!LookTables(p) \/ Startup!CreateTables(p)
                              \/ Startup!Indexes(p) \/ Startup!ForeignKeys(p) \/ Startup!Inspect(p) \/ Startup!Sync(p)
    BY <1>2 DEF Startup!Next
  <2> QED BY <2>1, SchemaPing, SchemaLooks, SchemaCreates, SchemaIndexes, SchemaForeignKeys, SchemaSync
<1> QED BY <1>1, <1>2

LEMMA SchemaTold == SchemaInv => Startup!ReadyOrTold
<1> SUFFICES ASSUME SchemaInv, NEW p \in Starting, dAt[p] = "ready"
             PROVE  /\ StartMode[p] # "off" => Startup!Tables(p) \subseteq DOMAIN dDb.tables
                    /\ \A x \in Startup!Declared(p) : x \in dDb.indexes \cup dTold[p] \/ x[1] \notin DOMAIN dDb.tables
                    /\ \A t \in Startup!Present(p) : \A c \in DOMAIN StartEntities[p][t].fks :
                         c \notin Startup!Stale(p, t) \/ << t, c, "fk" >> \in dTold[p]
                    /\ StartMode[p] = "sync" => \A t \in Startup!Tables(p) : \A c \in DOMAIN StartEntities[p][t].columns :
                         \/ << t, c, "type" >> \in dTold[p]
                         \/ c \in DOMAIN dDb.tables[t].columns /\ dDb.tables[t].columns[c] = StartEntities[p][t].columns[c]
  BY DEF Startup!ReadyOrTold
<1>1. Upto(dDb, "ready", dSeen[p], dTold[p], p)
  BY DEF SchemaInv
<1>2. Made(dDb, p) /\ Indexed(dDb, dTold[p], p) /\ Keyed(dDb, dTold[p], p)
      /\ (StartMode[p] = "sync" => Columned(dDb, dTold[p], p))
  BY <1>1 DEF Upto
<1>3. ASSUME NEW t \in Startup!Present(p), NEW c \in DOMAIN StartEntities[p][t].fks
      PROVE  c \notin Startup!Stale(p, t) \/ << t, c, "fk" >> \in dTold[p]
  BY <1>2, <1>3 DEF Keyed, Fits, Startup!Present, Startup!Tables, Startup!Stale
<1> QED BY <1>2, <1>3 DEF Made, Indexed, Columned, Needs, Startup!Tables

(* A start keeps the columns and their types, one that may drop excepted.  *)
LEMMA SchemaKeeps ==
  ASSUME SchemaInv, Startup!Next
  PROVE  Startup!KeepsData
<1> SUFFICES ASSUME NEW t \in DOMAIN dDb.tables, NEW c \in DOMAIN dDb.tables[t].columns, ~ SameColumn(dDb, dDb', t, c)
             PROVE  \E p \in StartDrops : dAt[p] = "sync" /\ dAt'[p] = "ready"
  BY DEF Startup!KeepsData, SameColumn
<1>0. Formed(dDb)
  BY DEF SchemaInv, SchemaType
<1>1. dDb'.tables # dDb.tables
  BY DEF SameColumn
<1>2. PICK p \in Starting : Startup!CreateTables(p) \/ Startup!Indexes(p) \/ Startup!Sync(p)
  BY <1>1 DEF Startup!Next, Startup!Ping, Startup!LookTables, Startup!ForeignKeys, Startup!Inspect
<1>3. ~ Startup!Indexes(p)
  <2> SUFFICES ASSUME Startup!Indexes(p) PROVE dDb'.tables = dDb.tables
    BY <1>1
  <2>1. CASE dDb' = dDb
    BY <2>1
  <2>2. CASE dDb' = [dDb EXCEPT !.indexes = @ \cup (Startup!Declared(p) \ dDb.doubled)]
    BY <2>2, <1>0 DEF Formed
  <2> QED BY <2>1, <2>2 DEF Startup!Indexes
<1>4. ~ Startup!CreateTables(p)
  <2> SUFFICES ASSUME Startup!CreateTables(p) PROVE FALSE
    OBVIOUS
  <2> DEFINE missing == DOMAIN StartEntities[p] \ DOMAIN dSeen[p].tables
             T == [s \in DOMAIN dDb.tables \cup missing |->
                   IF s \in missing THEN [columns |-> StartEntities[p][s].columns, fks |-> StartEntities[p][s].fks]
                   ELSE dDb.tables[s]]
  <2>1. missing \cap DOMAIN dDb.tables = {} /\ dDb' = [dDb EXCEPT !.tables = T]
    BY <1>1 DEF Startup!CreateTables, Startup!Tables
  <2>2. T[t] = dDb.tables[t]
    BY <2>1
  <2> HIDE DEF T
  <2>3. dDb'.tables = T
    BY <1>0, <2>1 DEF Formed
  <2> QED BY <2>2, <2>3 DEF SameColumn
<1>5. PICK gone, have : Synced(p, gone, have)
  BY <1>1, <1>2, <1>3, <1>4, SyncEnds
<1>6. dAt[p] = "sync" /\ dAt'[p] = "ready"
  BY <1>5, SchemaGoes DEF Synced, SchemaSteps
<1>7. p \in StartDrops
  BY <1>5, SyncKeeps
<1> QED BY <1>6, <1>7

LEMMA SchemaIsPart ==
  /\ StoresInit => (part = "schema" => SchemaInv)
  /\ (part = "schema" => SchemaInv) /\ [StoresNext]_storesVars =>
       (part = "schema" => SchemaInv)' /\ [part = "schema" => Startup!KeepsData]_startupVars
<1>1. StoresInit => (part = "schema" => SchemaInv)
  BY SchemaStarts DEF StoresInit
<1>2. ASSUME part = "schema" => SchemaInv, [StoresNext]_storesVars
      PROVE  (part = "schema" => SchemaInv)' /\ [part = "schema" => Startup!KeepsData]_startupVars
  <2>1. part' = part
    BY <1>2 DEF StoresNext, Rest, storesVars
  <2>2. part = "schema" => Startup!Next \/ UNCHANGED startupVars
    BY <1>2 DEF StoresNext, storesVars
  <2> QED BY <1>2, <2>1, <2>2, SchemaNext, SchemaKeeps
<1> QED BY <1>1, <1>2

(* A process that serves has what its entities declare or has told what is *)
(* missing, and only one with drop_columns takes columns away.             *)
(* (sql.py: SqlBackend.create_schema, _ensure_indexes, _sync_table.)       *)
THEOREM SchemaIsRight == StoresSpec => SchemaRight
<1>1. StoresSpec => [](part = "schema" => SchemaInv)
  BY SchemaIsPart, PTL DEF StoresSpec
<1>2. (part = "schema" => SchemaInv) => (part = "schema" => Startup!ReadyOrTold)
  BY SchemaTold
<1> QED BY <1>1, <1>2, SchemaIsPart, PTL DEF StoresSpec, SchemaRight

-----------------------------------------------------------------------------
(* The repository and its subscribers. *)
Row == {<< >>} \cup {<< v >> : v \in WatchedValues \cup WatchedIds \cup {Watch!NoUser}}
Events == [hook : {"", "after_insert", "after_update", "after_remove"}, entity : Watch!Entities, id : WatchedIds,
           before : Row, after : Row]
CallSteps == {"children", "image", "before", "write", "after", "kids", "done"}
Called == [kind : {"insert", "save", "update", "delete"}, entity : Watch!Entities, id : WatchedIds,
           value : WatchedValues \cup WatchedIds \cup {Watch!NoUser}, before : Row, kids : Seq(Events), told : Seq(Events),
           effects : SUBSET Events, alone : BOOLEAN, failed : BOOLEAN, step : CallSteps]

(* What a call tells of its own row, and of a child.                       *)
OwnAfter(o) == IF o.kind = "delete" THEN << >> ELSE << o.value >>
OwnHook(o) == IF o.kind = "delete" THEN "after_remove" ELSE IF o.kind = "insert" THEN "after_insert" ELSE "after_update"
Own(o) == Watch!Event(OwnHook(o), o.entity, o.id, o.before, OwnAfter(o))
KidKeys(o, r) == {k \in (DOMAIN WatchedOnDelete \cap WatchedHeard) \X WatchedIds : r[k[1]][k[2]] = << o.id >>}
KidAfter(f) == IF WatchedOnDelete[f] = "CASCADE" THEN << >> ELSE << Watch!NoUser >>
Kid(o, k) == Watch!Event(IF WatchedOnDelete[k[1]] = "CASCADE" THEN "after_remove" ELSE "after_update",
                         k[1], k[2], << o.id >>, KidAfter(k[1]))
KidsRead(o, r) ==
  /\ \A n \in DOMAIN o.kids : \E k \in KidKeys(o, r) : o.kids[n] = Kid(o, k)
  /\ \A k \in KidKeys(o, r) : \E n \in DOMAIN o.kids : o.kids[n] = Kid(o, k)
  /\ \A m, n \in DOMAIN o.kids : o.kids[m] = o.kids[n] => m = n

(* What it has told, then what it still has to tell.                       *)
NoHook == ""
Bare(e) == [e EXCEPT !.hook = NoHook]
Line(o) == CASE o.step = "after" -> IF o.entity \in WatchedHeard THEN << Own(o) >> \o o.kids ELSE o.kids
             [] o.step = "kids" -> o.told \o o.kids
             [] OTHER -> o.told
Exactly(o, s) ==
  /\ \A n \in DOMAIN s : Bare(s[n]) \in o.effects /\ s[n].entity \in WatchedHeard
  /\ \A e \in o.effects : e.entity \in WatchedHeard => \E n \in DOMAIN s : Bare(s[n]) = e
  /\ \A m, n \in DOMAIN s : Bare(s[m]) = Bare(s[n]) => m = n
Truly(o) == \A e \in o.effects : e.entity = o.entity => e.id = o.id /\ e.after = OwnAfter(o)
Wrote(o) == o.step \in {"after", "kids"} \/ (o.step = "done" /\ o.effects # {} /\ ~ o.failed)

(* A call, of the rows as they are now.                                    *)
Fresh(o) == o.step \in {"children", "image", "before", "write"} => o.told = << >> /\ o.effects = {} /\ ~ o.failed
Kinds(o) ==
  /\ o.kind = "delete" => o.entity = "user"
  /\ o.kind # "delete" => o.kids = << >> /\ o.step # "children"
  /\ o.kind = "insert" => o.before = << >> /\ o.step # "image"
ReadOf(o, r) == o.alone =>
  /\ o.kind = "delete" /\ o.step \in {"image", "before", "write"} => KidsRead(o, r)
  /\ o.kind # "insert" /\ o.step \in {"before", "write"} /\ o.entity \in WatchedHeard =>
       o.before = r[o.entity][o.id] /\ (o.kind # "save" => o.before # << >>)
Telling(o) ==
  /\ o.effects = {} => o.told = << >> /\ o.step \notin {"after", "kids"}
  /\ o.step = "after" => o.told = << >>
  /\ o.step = "kids" => o.kids # << >>
  /\ Wrote(o) => (o.alone => Exactly(o, Line(o))) /\ (o.entity \in WatchedHeard => Truly(o))
  /\ Wrote(o) /\ o.step # "after" /\ o.entity \in WatchedHeard =>
       Len(o.told) > 0 /\ o.told[1].id = o.id /\ o.told[1].after = OwnAfter(o)
Well(o, r) == o \in Called /\ Fresh(o) /\ Kinds(o) /\ ReadOf(o, r) /\ Telling(o)

WatchedInv ==
  /\ wRows \in [Watch!Entities -> [WatchedIds -> Row]]
  /\ DOMAIN wOp = WatchedTasks /\ wOp = [t \in WatchedTasks |-> wOp[t]]
  /\ \A t \in WatchedTasks : wOp[t] # NULL => Well(wOp[t], wRows)

(* Another call that writes only makes this one not alone.                 *)
LEMMA WellOther ==
  ASSUME NEW o, NEW r, NEW s, Well(o, r), (s = r \/ o.step = "done")
  PROVE  Well(o, s)
BY DEF Well, ReadOf

LEMMA WellDisturbed ==
  ASSUME NEW o, NEW r, NEW s, Well(o, r)
  PROVE  Well([o EXCEPT !.alone = FALSE], s)
<1> DEFINE n == [o EXCEPT !.alone = FALSE]
<1>1. o \in Called
  BY DEF Well
<1>2. /\ n \in Called /\ n.kind = o.kind /\ n.entity = o.entity /\ n.id = o.id /\ n.value = o.value /\ n.before = o.before
      /\ n.kids = o.kids /\ n.told = o.told /\ n.effects = o.effects /\ n.alone = FALSE /\ n.failed = o.failed
      /\ n.step = o.step
  BY <1>1 DEF Called
<1> HIDE DEF n
<1>3. Wrote(n) = Wrote(o) /\ Truly(n) = Truly(o) /\ OwnAfter(n) = OwnAfter(o)
  BY <1>2 DEF Wrote, Truly, OwnAfter
<1>4. Fresh(n) /\ Kinds(n) /\ ReadOf(n, s)
  BY <1>2 DEF Well, Fresh, Kinds, ReadOf
<1>5. Telling(n)
  BY <1>2, <1>3 DEF Well, Telling
<1> QED BY <1>2, <1>4, <1>5 DEF Well, n

(* A step of one call, and what it does to the others.                     *)
LEMMA WatchedStep ==
  ASSUME WatchedInv, NEW t \in WatchedTasks, NEW n, Well(n, wRows'), wRows' \in [Watch!Entities -> [WatchedIds -> Row]],
         DOMAIN wOp' = WatchedTasks, wOp' = [u \in WatchedTasks |-> wOp'[u]], wOp'[t] = n,
         \A u \in WatchedTasks : u # t =>
           \/ wOp'[u] = wOp[u] /\ (wRows' = wRows \/ wOp[u] = NULL \/ wOp[u].step = "done")
           \/ wOp[u] # NULL /\ wOp'[u] = [wOp[u] EXCEPT !.alone = FALSE]
  PROVE  WatchedInv'
<1>1. ASSUME NEW u \in WatchedTasks, u # t, wOp'[u] # NULL PROVE Well(wOp'[u], wRows')
  <2>1. CASE wOp'[u] = wOp[u] /\ (wRows' = wRows \/ wOp[u].step = "done")
    <3>1. Well(wOp[u], wRows)
      BY <1>1, <2>1 DEF WatchedInv
    <3> QED BY <2>1, <3>1, WellOther
  <2>2. CASE wOp[u] # NULL /\ wOp'[u] = [wOp[u] EXCEPT !.alone = FALSE]
    <3>1. Well(wOp[u], wRows)
      BY <2>2 DEF WatchedInv
    <3> QED BY <2>2, <3>1, WellDisturbed
  <2> QED BY <1>1, <2>1, <2>2
<1> QED BY <1>1 DEF WatchedInv

LEMMA WatchedSets ==
  ASSUME WatchedInv, NEW t \in WatchedTasks, NEW n, Watch!Set(t, n), wRows' = wRows, Well(n, wRows)
  PROVE  WatchedInv'
<1>1. /\ DOMAIN wOp' = WatchedTasks /\ wOp' = [u \in WatchedTasks |-> wOp'[u]] /\ wOp'[t] = n
      /\ \A u \in WatchedTasks : u # t => wOp'[u] = wOp[u]
  BY DEF Watch!Set, WatchedInv
<1>2. wRows' \in [Watch!Entities -> [WatchedIds -> Row]]
  BY DEF WatchedInv
<1>3. Well(n, wRows')
  OBVIOUS
<1> QED BY <1>1, <1>2, <1>3, WatchedStep

(* The fields of a call that a step leaves alone.                          *)
LEMMA StepsOnly ==
  ASSUME NEW o, NEW s \in CallSteps, o \in Called
  PROVE  LET n == [o EXCEPT !.step = s]
         IN  /\ n \in Called /\ n.kind = o.kind /\ n.entity = o.entity /\ n.id = o.id /\ n.value = o.value
             /\ n.before = o.before /\ n.kids = o.kids /\ n.told = o.told /\ n.effects = o.effects
             /\ n.alone = o.alone /\ n.failed = o.failed /\ n.step = s
BY DEF Called

LEMMA WatchedAt ==
  ASSUME WatchedInv, NEW t \in WatchedTasks, NEW s, Watch!At(t, s)
  PROVE  Well(wOp[t], wRows) /\ wOp[t] \in Called /\ wOp[t].step = s
BY DEF WatchedInv, Watch!At, Well

(* A call that ends without a write, or before it.                         *)
LEMMA WellEnds ==
  ASSUME NEW o, NEW r, Well(o, r), o.step \in {"image", "before", "write"}, NEW n \in Called,
         n.step = "done", n.told = o.told, n.effects = o.effects, n.kind = o.kind, n.entity = o.entity,
         n.kids = o.kids, n.before = o.before
  PROVE  Well(n, r)
BY DEF Well, Fresh, Kinds, ReadOf, Telling, Wrote

LEMMA WatchedBegins ==
  ASSUME WatchedInv, NEW t \in WatchedTasks, NEW kind \in {"insert", "save", "update", "delete"},
         NEW e \in Watch!Entities, NEW i \in WatchedIds, NEW v \in WatchedValues, Watch!Begin(t, kind, e, i, v)
  PROVE  WatchedInv'
<1>1. PICK s \in CallSteps :
        /\ Watch!Set(t, [kind |-> kind, entity |-> e, id |-> i, value |-> v, before |-> << >>, kids |-> << >>,
             told |-> << >>, effects |-> {}, alone |-> TRUE, failed |-> FALSE, step |-> s])
        /\ kind = "delete" => s = "children" /\ e = "user"
        /\ kind # "delete" /\ e \notin WatchedHeard => s = "write"
        /\ kind # "delete" /\ e \in WatchedHeard => s = IF kind = "insert" THEN "before" ELSE "image"
  <2>1. CASE kind = "delete"
    BY <2>1 DEF Watch!Begin, CallSteps
  <2>2. CASE kind # "delete" /\ e \notin WatchedHeard
    BY <2>2 DEF Watch!Begin, CallSteps
  <2>3. CASE kind = "insert" /\ e \in WatchedHeard
    BY <2>3 DEF Watch!Begin, CallSteps
  <2>4. CASE kind \in {"save", "update"} /\ e \in WatchedHeard
    BY <2>4 DEF Watch!Begin, CallSteps
  <2> QED BY <2>1, <2>2, <2>3, <2>4
<1> DEFINE n == [kind |-> kind, entity |-> e, id |-> i, value |-> v, before |-> << >>, kids |-> << >>,
             told |-> << >>, effects |-> {}, alone |-> TRUE, failed |-> FALSE, step |-> s]
<1>2. /\ n \in Called /\ n.kind = kind /\ n.entity = e /\ n.before = << >> /\ n.kids = << >> /\ n.told = << >>
      /\ n.effects = {} /\ n.failed = FALSE /\ n.step = s
  BY DEF Called, Row
<1>3. Watch!Set(t, n) /\ wRows' = wRows
  BY <1>1 DEF Watch!Begin
<1> HIDE DEF n
<1>4. Fresh(n) /\ Kinds(n) /\ ReadOf(n, wRows) /\ Telling(n)
  BY <1>1, <1>2 DEF Fresh, Kinds, ReadOf, Telling, Wrote
<1> QED BY <1>2, <1>3, <1>4, WatchedSets DEF Well

LEMMA WatchedReturns ==
  ASSUME WatchedInv, NEW t \in WatchedTasks, Watch!Return(t)
  PROVE  WatchedInv'
BY DEF Watch!Return, Watch!Set, WatchedInv

LEMMA WatchedBeforeHook ==
  ASSUME WatchedInv, NEW t \in WatchedTasks, Watch!BeforeHook(t)
  PROVE  WatchedInv'
<1> DEFINE o == wOp[t]
<1>1. Well(o, wRows) /\ o \in Called /\ o.step = "before" /\ wRows' = wRows
  BY WatchedAt DEF Watch!BeforeHook
<1>2. CASE Watch!Set(t, [o EXCEPT !.step = "write"])
  <2> DEFINE n == [o EXCEPT !.step = "write"]
  <2>1. /\ n \in Called /\ n.kind = o.kind /\ n.entity = o.entity /\ n.id = o.id /\ n.value = o.value
        /\ n.before = o.before /\ n.kids = o.kids /\ n.told = o.told /\ n.effects = o.effects
        /\ n.alone = o.alone /\ n.failed = o.failed /\ n.step = "write"
    BY <1>1, StepsOnly DEF CallSteps
  <2>2. Watch!Set(t, n)
    BY <1>2
  <2> HIDE DEF n, o
  <2>3. Fresh(n) /\ Kinds(n) /\ Telling(n)
    BY <1>1, <2>1 DEF Well, Fresh, Kinds, Telling, Wrote
  <2>4. ReadOf(n, wRows)
    <3>1. KidsRead(n, wRows) = KidsRead(o, wRows)
      BY <2>1 DEF KidsRead, KidKeys, Kid
    <3> QED BY <1>1, <2>1, <3>1 DEF Well, ReadOf
  <2> QED BY <1>1, <2>1, <2>2, <2>3, <2>4, WatchedSets DEF Well
<1>3. CASE Watch!Set(t, [o EXCEPT !.step = "done", !.failed = TRUE])
  <2> DEFINE n == [o EXCEPT !.step = "done", !.failed = TRUE]
  <2>1. /\ n \in Called /\ n.step = "done" /\ n.told = o.told /\ n.effects = o.effects /\ n.kind = o.kind
        /\ n.entity = o.entity /\ n.kids = o.kids /\ n.before = o.before
    BY <1>1 DEF Called, CallSteps
  <2>2. Watch!Set(t, n)
    BY <1>3
  <2> HIDE DEF n
  <2>3. Well(n, wRows)
    BY <1>1, <2>1, WellEnds
  <2> QED BY <1>1, <2>2, <2>3, WatchedSets
<1> QED BY <1>2, <1>3 DEF Watch!BeforeHook

LEMMA WatchedReadsBefore ==
  ASSUME WatchedInv, NEW t \in WatchedTasks, Watch!ReadBefore(t)
  PROVE  WatchedInv'
<1> DEFINE o == wOp[t]
           b == wRows[o.entity][o.id]
           s == IF b = << >> /\ o.kind # "save" THEN "done" ELSE "before"
           n == [o EXCEPT !.before = b, !.step = s]
<1>1. Well(o, wRows) /\ o \in Called /\ o.step = "image" /\ wRows' = wRows
  BY WatchedAt DEF Watch!ReadBefore
<1>2. b \in Row /\ s \in CallSteps
  BY <1>1 DEF WatchedInv, Called, CallSteps
<1>3. Watch!Set(t, n)
  BY DEF Watch!ReadBefore
<1>4. (s = "done") \/ (s = "before" /\ (b = << >> => o.kind = "save"))
  OBVIOUS
<1>5. b = wRows[o.entity][o.id]
  OBVIOUS
<1> HIDE DEF b, s, o
<1>6. /\ n \in Called /\ n.kind = o.kind /\ n.entity = o.entity /\ n.id = o.id /\ n.value = o.value
      /\ n.before = b /\ n.kids = o.kids /\ n.told = o.told /\ n.effects = o.effects
      /\ n.alone = o.alone /\ n.failed = o.failed /\ n.step = s
  BY <1>1, <1>2 DEF Called
<1> HIDE DEF n
<1>7. o.kind # "insert"
  BY <1>1 DEF Well, Kinds
<1>8. Fresh(n) /\ Kinds(n) /\ Telling(n)
  BY <1>1, <1>4, <1>6, <1>7 DEF Well, Fresh, Kinds, Telling, Wrote
<1>9. ReadOf(n, wRows)
  <2>1. KidsRead(n, wRows) = KidsRead(o, wRows)
    BY <1>6 DEF KidsRead, KidKeys, Kid
  <2> QED BY <1>1, <1>4, <1>5, <1>6, <2>1 DEF Well, ReadOf
<1> QED BY <1>1, <1>3, <1>6, <1>8, <1>9, WatchedSets DEF Well

(* SetToSeq lists each element of a finite set once.                       *)
LEMMA Listed ==
  ASSUME NEW S, IsFiniteSet(S)
  PROVE  /\ Watch!SetToSeq(S) \in Seq(S)
         /\ \A x \in S : \E n \in DOMAIN Watch!SetToSeq(S) : Watch!SetToSeq(S)[n] = x
         /\ \A m, n \in DOMAIN Watch!SetToSeq(S) : Watch!SetToSeq(S)[m] = Watch!SetToSeq(S)[n] => m = n
<1>0. Watch!Cardinality(S) = Cardinality(S)
  BY DEF Watch!Cardinality, Cardinality
<1> DEFINE N == Cardinality(S)
           I == {f \in [1 .. N -> S] : Watch!IsInjective(f)}
           q == Watch!SetToSeq(S)
<1>1. N \in Nat /\ ExistsBijection(1 .. N, S)
  BY FS_CardinalityType
<1>2. PICK f \in Bijection(1 .. N, S) : TRUE
  BY <1>1 DEF ExistsBijection
<1>3. f \in [1 .. N -> S] /\ Watch!IsInjective(f)
  BY <1>2 DEF Bijection, Injection, Watch!IsInjective, IsInjective
<1>4. q \in [1 .. N -> S] /\ Watch!IsInjective(q)
  BY <1>0, <1>3 DEF Watch!SetToSeq
<1> HIDE DEF q, N
<1>5. DOMAIN q = 1 .. N /\ \A m, n \in 1 .. N : q[m] = q[n] => m = n
  BY <1>4 DEF Watch!IsInjective
<1>6. q \in Bijection(1 .. N, S)
  <2>1. q \in Injection(1 .. N, S)
    BY <1>4, <1>5 DEF Injection, IsInjective
  <2>2. IsFiniteSet(1 .. N) /\ Cardinality(1 .. N) = N
    BY <1>1, FS_Interval
  <2>3. Cardinality(1 .. N) = Cardinality(S) <=> q \in Surjection(1 .. N, S)
    BY <2>1, FS_Injection
  <2>4. q \in Surjection(1 .. N, S)
    BY <2>2, <2>3 DEF N
  <2> QED BY <2>1, <2>4 DEF Bijection
<1>7. \A x \in S : \E n \in 1 .. N : q[n] = x
  BY <1>6 DEF Bijection, Surjection
<1>8. q \in Seq(S)
  BY <1>1, <1>4
<1>9. /\ q \in Seq(S)
      /\ \A x \in S : \E n \in DOMAIN q : q[n] = x
      /\ \A m, n \in DOMAIN q : q[m] = q[n] => m = n
  BY <1>5, <1>7, <1>8
<1> QED BY <1>9 DEF q

LEMMA Rehooked ==
  ASSUME NEW h, NEW g, NEW e, NEW i, NEW b, NEW a
  PROVE  [Watch!Event(h, e, i, b, a) EXCEPT !.hook = g] = Watch!Event(g, e, i, b, a)
<1>1. PICK x : x = [hook |-> h, entity |-> e, id |-> i, before |-> b, after |-> a]
  OBVIOUS
<1>2. [x EXCEPT !.hook = g] = [hook |-> g, entity |-> e, id |-> i, before |-> b, after |-> a]
  BY <1>1
<1> QED BY <1>1, <1>2 DEF Watch!Event

LEMMA BareEvent ==
  ASSUME NEW h, NEW e, NEW i, NEW b, NEW a
  PROVE  Bare(Watch!Event(h, e, i, b, a)) = Watch!Event(NoHook, e, i, b, a)
BY Rehooked DEF Bare

LEMMA EventParts ==
  ASSUME NEW h, NEW e, NEW i, NEW b, NEW a
  PROVE  /\ Watch!Event(h, e, i, b, a).entity = e /\ Watch!Event(h, e, i, b, a).id = i
         /\ Watch!Event(h, e, i, b, a).before = b /\ Watch!Event(h, e, i, b, a).after = a
BY DEF Watch!Event

LEMMA KidsFinite ==
  ASSUME NEW o, NEW r
  PROVE  IsFiniteSet({Kid(o, k) : k \in KidKeys(o, r)})
<1> DEFINE K == KidKeys(o, r)
           S == {Kid(o, k) : k \in K}
           f == [k \in K |-> Kid(o, k)]
           H == DOMAIN WatchedOnDelete \cap WatchedHeard
<1>1. IsFiniteSet(H)
  BY WatchedAssumption, FS_Subset
<1>2. IsFiniteSet(H \X WatchedIds)
  BY <1>1, WatchedAssumption, FS_Product
<1>3. IsFiniteSet(K)
  BY <1>2, FS_Subset DEF KidKeys
<1>4. f \in Surjection(K, S)
  BY DEF Surjection
<1> HIDE DEF f, S, K
<1> QED BY <1>3, <1>4, FS_Surjection DEF S, K

LEMMA WatchedReadsChildren ==
  ASSUME WatchedInv, NEW t \in WatchedTasks, Watch!ReadChildren(t)
  PROVE  WatchedInv'
<1> DEFINE o == wOp[t]
           K == KidKeys(o, wRows)
           S == {Kid(o, k) : k \in K}
           q == Watch!SetToSeq(S)
           s == IF "user" \in WatchedHeard \/ K # {} THEN "image" ELSE "write"
           n == [o EXCEPT !.kids = q, !.step = s]
<1>1. Well(o, wRows) /\ o \in Called /\ o.step = "children" /\ wRows' = wRows
  BY WatchedAt DEF Watch!ReadChildren
<1>2. Watch!Set(t, n)
  <2>1. K = {k \in (DOMAIN WatchedOnDelete \cap WatchedHeard) \X WatchedIds : wRows[k[1]][k[2]] = << wOp[t].id >>}
    BY DEF KidKeys
  <2>2. S = {Watch!Event(IF WatchedOnDelete[k[1]] = "CASCADE" THEN "after_remove" ELSE "after_update",
                          k[1], k[2], << wOp[t].id >>,
                          IF WatchedOnDelete[k[1]] = "CASCADE" THEN << >> ELSE << Watch!NoUser >>) : k \in K}
    BY Zenon DEF Kid, KidAfter
  <2> HIDE DEF K, S
  <2> QED BY <2>1, <2>2, Zenon DEF Watch!ReadChildren
<1>3. S \subseteq Events
  <2> SUFFICES ASSUME NEW k \in K PROVE Kid(o, k) \in Events
    OBVIOUS
  <2>1. k[1] \in DOMAIN WatchedOnDelete /\ k[2] \in WatchedIds
    BY DEF KidKeys
  <2>2. KidAfter(k[1]) \in Row /\ << o.id >> \in Row /\ k[1] \in Watch!Entities
    BY <1>1, <2>1 DEF KidAfter, Row, Called, Watch!Entities
  <2> QED BY <2>1, <2>2 DEF Kid, Watch!Event, Events
<1>4. /\ q \in Seq(S)
      /\ \A x \in S : \E m \in DOMAIN q : q[m] = x
      /\ \A m, l \in DOMAIN q : q[m] = q[l] => m = l
  <2>1. IsFiniteSet(S)
    BY KidsFinite
  <2> HIDE DEF S, K
  <2> QED BY <2>1, Listed
<1> HIDE DEF q, S, K
<1>5. q \in Seq(Events)
  BY <1>3, <1>4
<1>6. s \in {"image", "write"} /\ (s = "write" => "user" \notin WatchedHeard)
  OBVIOUS
<1> HIDE DEF s, o
<1>7. /\ n \in Called /\ n.kind = o.kind /\ n.entity = o.entity /\ n.id = o.id /\ n.value = o.value
      /\ n.before = o.before /\ n.kids = q /\ n.told = o.told /\ n.effects = o.effects
      /\ n.alone = o.alone /\ n.failed = o.failed /\ n.step = s
  BY <1>1, <1>5, <1>6 DEF Called, CallSteps
<1> HIDE DEF n
<1>8. o.kind = "delete" /\ o.entity = "user"
  BY <1>1 DEF Well, Kinds
<1>9. Fresh(n) /\ Kinds(n) /\ Telling(n)
  BY <1>1, <1>6, <1>7, <1>8 DEF Well, Fresh, Kinds, Telling, Wrote
<1>10. ReadOf(n, wRows)
  <2>1. \A k : Kid(n, k) = Kid(o, k)
    BY <1>7 DEF Kid
  <2>2. KidKeys(n, wRows) = K
    BY <1>7 DEF KidKeys, K
  <2>3. \A m \in DOMAIN q : \E k \in K : q[m] = Kid(o, k)
    <3> SUFFICES ASSUME NEW m \in DOMAIN q PROVE q[m] \in S
      BY DEF S
    <3> QED BY <1>4
  <2>4. \A k \in K : \E m \in DOMAIN q : q[m] = Kid(o, k)
    BY <1>4 DEF S
  <2>5. KidsRead(n, wRows)
    BY <1>4, <1>7, <2>1, <2>2, <2>3, <2>4 DEF KidsRead
  <2> QED BY <1>6, <1>7, <1>8, <2>5 DEF ReadOf
<1> QED BY <1>1, <1>2, <1>7, <1>9, <1>10, WatchedSets DEF Well

LEMMA OwnIsEvent ==
  ASSUME NEW o \in Called
  PROVE  Own(o) \in Events /\ Own(o).id = o.id /\ Own(o).after = OwnAfter(o) /\ Own(o).entity = o.entity
<1>1. OwnHook(o) \in {"", "after_insert", "after_update", "after_remove"}
  BY DEF OwnHook
<1>2. OwnAfter(o) \in Row
  BY DEF OwnAfter, Called, Row
<1>3. Own(o) \in Events
  BY <1>1, <1>2 DEF Own, Watch!Event, Events, Called
<1> QED BY <1>3 DEF Own, Watch!Event

LEMMA LineMoves ==
  ASSUME NEW S, NEW s \in Seq(S), NEW k \in Seq(S), k # << >>
  PROVE  /\ Append(s, Head(k)) \in Seq(S) /\ Tail(k) \in Seq(S)
         /\ Append(s, Head(k)) \o Tail(k) = s \o k
         /\ Len(k) = 1 => Append(s, Head(k)) = s \o k
         /\ Len(k) # 1 => Tail(k) # << >>
         /\ Len(Append(s, Head(k))) > 0
         /\ Len(s) > 0 => Append(s, Head(k))[1] = s[1]
<1>1. Len(s) \in Nat /\ Len(k) \in Nat \ {0} /\ Head(k) = k[1] /\ Head(k) \in S
  BY EmptySeq, LenProperties, HeadTailProperties
<1>2. /\ Append(s, k[1]) \in Seq(S) /\ Len(Append(s, k[1])) = Len(s) + 1
      /\ \A n \in 1 .. Len(s) + 1 : Append(s, k[1])[n] = IF n <= Len(s) THEN s[n] ELSE k[1]
  BY <1>1, AppendProperties
<1>3. /\ Tail(k) \in Seq(S) /\ Len(Tail(k)) = Len(k) - 1
      /\ \A n \in 1 .. Len(k) - 1 : Tail(k)[n] = k[n + 1]
  BY <1>1, HeadTailProperties
<1> DEFINE a == Append(s, k[1])
           b == Tail(k)
<1>4. a \in Seq(S) /\ b \in Seq(S) /\ Len(a) = Len(s) + 1 /\ Len(b) = Len(k) - 1
  BY <1>2, <1>3
<1>5. /\ a \o b \in Seq(S) /\ Len(a \o b) = Len(a) + Len(b)
      /\ \A n \in 1 .. Len(a) + Len(b) : (a \o b)[n] = IF n <= Len(a) THEN a[n] ELSE b[n - Len(a)]
  BY <1>4, ConcatProperties
<1>6. /\ s \o k \in Seq(S) /\ Len(s \o k) = Len(s) + Len(k)
      /\ \A n \in 1 .. Len(s) + Len(k) : (s \o k)[n] = IF n <= Len(s) THEN s[n] ELSE k[n - Len(s)]
  BY ConcatProperties
<1>7. a \o b = s \o k
  <2>1. Len(a \o b) = Len(s \o k)
    BY <1>1, <1>4, <1>5, <1>6
  <2>2. ASSUME NEW n \in 1 .. Len(a \o b) PROVE (a \o b)[n] = (s \o k)[n]
    <3> HIDE DEF b
    <3>1. n \in 1 .. Len(s) + Len(k) /\ n \in Nat
      BY <1>1, <1>6, <2>1, <2>2
    <3>2. CASE n <= Len(s)
      <4>1. (a \o b)[n] = a[n]
        BY <1>1, <1>4, <1>5, <3>1, <3>2
      <4>2. a[n] = s[n]
        BY <1>1, <1>2, <3>1, <3>2
      <4>3. (s \o k)[n] = s[n]
        BY <1>6, <3>1, <3>2
      <4> QED BY <4>1, <4>2, <4>3
    <3>3. CASE n = Len(s) + 1
      <4>1. (a \o b)[n] = a[n]
        BY <1>1, <1>4, <1>5, <3>1, <3>3
      <4>2. a[n] = k[1]
        BY <1>1, <1>2, <3>1, <3>3
      <4>3. (s \o k)[n] = k[1]
        BY <1>1, <1>6, <3>1, <3>3
      <4> QED BY <4>1, <4>2, <4>3
    <3>4. CASE n > Len(s) + 1
      <4>1. (a \o b)[n] = b[n - (Len(s) + 1)]
        BY <1>1, <1>4, <1>5, <3>1, <3>4
      <4>2. n - (Len(s) + 1) \in 1 .. Len(k) - 1
        BY <1>1, <3>1, <3>4
      <4>3. b[n - (Len(s) + 1)] = k[n - Len(s)]
        BY <1>1, <1>3, <3>1, <4>2 DEF b
      <4>4. (s \o k)[n] = k[n - Len(s)]
        BY <1>1, <1>6, <3>1, <3>4
      <4> QED BY <4>1, <4>3, <4>4
    <3> QED BY <1>1, <3>1, <3>2, <3>3, <3>4
  <2> HIDE DEF a, b
  <2> QED BY <1>5, <1>6, <2>1, <2>2, SeqEqual
<1>8. Len(k) = 1 => a = s \o k
  <2> SUFFICES ASSUME Len(k) = 1 PROVE a = s \o k
    OBVIOUS
  <2> HIDE DEF a, b
  <2>1. b = << >>
    BY <1>4, EmptySeq
  <2>2. a \o << >> = a
    BY <1>4, ConcatEmptySeq
  <2> QED BY <1>7, <2>1, <2>2
<1>9. Len(k) # 1 => b # << >>
  <2> HIDE DEF b
  <2>1. Len(<< >>) = 0
    BY EmptySeq
  <2> QED BY <1>1, <1>4, <2>1
<1>10. Len(a) > 0 /\ (Len(s) > 0 => a[1] = s[1])
  BY <1>1, <1>2, <1>4
<1> HIDE DEF a, b
<1>11. a = Append(s, Head(k)) /\ b = Tail(k)
  BY <1>1 DEF a, b
<1> QED BY <1>4, <1>7, <1>8, <1>9, <1>10, <1>11

(* What is still right of a call when only what it has told moves on.      *)
LEMMA TellsOn ==
  ASSUME NEW o, NEW r, Well(o, r), o.step \in {"after", "kids"}, NEW n \in Called,
         n.kind = o.kind, n.entity = o.entity, n.id = o.id, n.value = o.value, n.before = o.before, n.effects = o.effects,
         n.alone = o.alone, n.step \in {"kids", "done"}, n.step = "kids" => n.kids # << >>,
         o.kind # "delete" => n.kids = << >>,
         n.step = "kids" \/ ~ n.failed =>
           Line(n) = Line(o) /\ (o.entity \in WatchedHeard => Len(n.told) > 0 /\ n.told[1].id = o.id /\ n.told[1].after = OwnAfter(o))
  PROVE  Well(n, r)
<1>1. OwnAfter(n) = OwnAfter(o) /\ Truly(n) = Truly(o)
  BY DEF OwnAfter, Truly
<1>2. \A s : Exactly(n, s) = Exactly(o, s)
  BY DEF Exactly
<1>3. Fresh(n) /\ Kinds(n) /\ ReadOf(n, r)
  BY DEF Well, Fresh, Kinds, ReadOf
<1>4. Wrote(n) => n.step = "kids" \/ ~ n.failed
  BY DEF Wrote
<1>5. /\ Wrote(o) /\ o.effects # {} /\ (o.alone => Exactly(o, Line(o)))
      /\ (o.entity \in WatchedHeard => Truly(o))
  BY DEF Well, Telling, Wrote
<1>6. Telling(n)
  BY <1>1, <1>2, <1>4, <1>5 DEF Telling
<1> QED BY <1>3, <1>6 DEF Well

LEMMA WatchedAfterHook ==
  ASSUME WatchedInv, NEW t \in WatchedTasks, Watch!AfterHook(t)
  PROVE  WatchedInv'
<1> DEFINE o == wOp[t]
           q == IF o.entity \in WatchedHeard THEN << Own(o) >> ELSE << >>
<1>1. Well(o, wRows) /\ o \in Called /\ o.step = "after" /\ o.told = << >> /\ wRows' = wRows
  BY WatchedAt DEF Watch!AfterHook, Well, Telling
<1>2. \/ Watch!Set(t, [o EXCEPT !.told = q, !.step = IF o.kids = << >> THEN "done" ELSE "kids"])
      \/ Watch!Set(t, [o EXCEPT !.told = q, !.step = "done", !.failed = TRUE])
  <2> DEFINE hook == CASE o.kind = "delete" -> "after_remove" [] o.kind = "insert" -> "after_insert"
                       [] OTHER -> "after_update"
             own == Watch!Event(hook, o.entity, o.id, o.before, IF o.kind = "delete" THEN << >> ELSE << o.value >>)
             told == IF o.entity \in WatchedHeard THEN Append(o.told, own) ELSE o.told
  <2>1. \/ Watch!Set(t, [o EXCEPT !.told = told, !.step = IF o.kids = << >> THEN "done" ELSE "kids"])
        \/ Watch!Set(t, [o EXCEPT !.told = told, !.step = "done", !.failed = TRUE])
    BY Zenon DEF Watch!AfterHook
  <2>2. hook = OwnHook(o)
    BY DEF OwnHook
  <2>3. own = Own(o)
    BY <2>2, Zenon DEF Own, OwnAfter
  <2> HIDE DEF own
  <2>4. told = q
    BY <1>1, <2>3
  <2> HIDE DEF told, q, o
  <2> QED BY <2>1, <2>4
<1>3. Own(o) \in Events /\ Own(o).id = o.id /\ Own(o).after = OwnAfter(o)
  BY <1>1, OwnIsEvent
<1>4. /\ q \in Seq(Events)
      /\ o.entity \in WatchedHeard => Len(q) > 0 /\ q[1].id = o.id /\ q[1].after = OwnAfter(o)
  BY <1>3
<1>5. o.kids \in Seq(Events)
  BY <1>1 DEF Called
<1>6. Line(o) = q \o o.kids
  <2>1. << >> \o o.kids = o.kids
    BY <1>5, ConcatEmptySeq
  <2> QED BY <1>1, <2>1 DEF Line
<1>7. q \o << >> = q
  <2> HIDE DEF q
  <2> QED BY <1>4, ConcatEmptySeq
<1>8. o.kind # "delete" => o.kids = << >>
  BY <1>1 DEF Well, Kinds
<1> HIDE DEF q, o
<1>9. CASE Watch!Set(t, [o EXCEPT !.told = q, !.step = IF o.kids = << >> THEN "done" ELSE "kids"])
  <2>1. PICK s : s = IF o.kids = << >> THEN "done" ELSE "kids"
    OBVIOUS
  <2> DEFINE n == [o EXCEPT !.told = q, !.step = s]
  <2>2. /\ n \in Called /\ n.kind = o.kind /\ n.entity = o.entity /\ n.id = o.id /\ n.value = o.value
        /\ n.before = o.before /\ n.kids = o.kids /\ n.told = q /\ n.effects = o.effects
        /\ n.alone = o.alone /\ n.failed = o.failed /\ n.step = s
    BY <1>1, <1>4, <2>1 DEF Called, CallSteps
  <2>3. Watch!Set(t, n)
    BY <1>9, <2>1
  <2> HIDE DEF n
  <2>4. Line(n) = Line(o)
    <3>1. CASE o.kids = << >>
      BY <1>6, <1>7, <2>1, <2>2, <3>1 DEF Line
    <3>2. CASE o.kids # << >>
      BY <1>6, <2>1, <2>2, <3>2 DEF Line
    <3> QED BY <3>1, <3>2
  <2>5. Well(n, wRows)
    BY <1>1, <1>4, <1>8, <2>1, <2>2, <2>4, TellsOn
  <2> QED BY <1>1, <2>3, <2>5, WatchedSets
<1>10. CASE Watch!Set(t, [o EXCEPT !.told = q, !.step = "done", !.failed = TRUE])
  <2> DEFINE n == [o EXCEPT !.told = q, !.step = "done", !.failed = TRUE]
  <2>2. /\ n \in Called /\ n.kind = o.kind /\ n.entity = o.entity /\ n.id = o.id /\ n.value = o.value
        /\ n.before = o.before /\ n.kids = o.kids /\ n.told = q /\ n.effects = o.effects
        /\ n.alone = o.alone /\ n.failed = TRUE /\ n.step = "done"
    BY <1>1, <1>4 DEF Called, CallSteps
  <2>3. Watch!Set(t, n)
    BY <1>10
  <2> HIDE DEF n
  <2>4. Well(n, wRows)
    BY <1>1, <1>8, <2>2, TellsOn
  <2> QED BY <1>1, <2>3, <2>4, WatchedSets
<1> QED BY <1>2, <1>9, <1>10

LEMMA WatchedReports ==
  ASSUME WatchedInv, NEW t \in WatchedTasks, Watch!ReportCascade(t)
  PROVE  WatchedInv'
<1> DEFINE o == wOp[t]
           q == Append(o.told, Head(o.kids))
           b == Tail(o.kids)
           s == IF Len(o.kids) = 1 THEN "done" ELSE "kids"
<1>1. /\ Well(o, wRows) /\ o \in Called /\ o.step = "kids" /\ wRows' = wRows
      /\ o.kids # << >> /\ o.kids \in Seq(Events) /\ o.told \in Seq(Events)
  BY WatchedAt DEF Watch!ReportCascade, Well, Telling, Called
<1>2. \/ Watch!Set(t, [o EXCEPT !.told = q, !.kids = b, !.step = s])
      \/ Watch!Set(t, [o EXCEPT !.told = q, !.step = "done", !.failed = TRUE])
  <2>1. \/ Watch!Set(t, [o EXCEPT !.told = q, !.kids = Tail(@), !.step = IF Len(o.kids) = 1 THEN "done" ELSE @])
        \/ Watch!Set(t, [o EXCEPT !.told = q, !.step = "done", !.failed = TRUE])
    BY Zenon DEF Watch!ReportCascade
  <2>2. [o EXCEPT !.told = q, !.kids = Tail(@), !.step = IF Len(o.kids) = 1 THEN "done" ELSE @]
          = [o EXCEPT !.told = q, !.kids = b, !.step = s]
    BY <1>1 DEF Called
  <2> QED BY <2>1, <2>2
<1>3. /\ q \in Seq(Events) /\ b \in Seq(Events) /\ q \o b = o.told \o o.kids
      /\ (Len(o.kids) = 1 => q = o.told \o o.kids) /\ (Len(o.kids) # 1 => b # << >>)
      /\ Len(q) > 0 /\ (Len(o.told) > 0 => q[1] = o.told[1])
  <2> HIDE DEF o, q, b
  <2>1. /\ Append(o.told, Head(o.kids)) \in Seq(Events) /\ Tail(o.kids) \in Seq(Events)
        /\ Append(o.told, Head(o.kids)) \o Tail(o.kids) = o.told \o o.kids
        /\ Len(o.kids) = 1 => Append(o.told, Head(o.kids)) = o.told \o o.kids
        /\ Len(o.kids) # 1 => Tail(o.kids) # << >>
        /\ Len(Append(o.told, Head(o.kids))) > 0
        /\ Len(o.told) > 0 => Append(o.told, Head(o.kids))[1] = o.told[1]
    BY <1>1, LineMoves, Zenon
  <2>2. q = Append(o.told, Head(o.kids)) /\ b = Tail(o.kids)
    BY DEF q, b
  <2> QED BY <2>1, <2>2
<1>4. o.kind = "delete" /\ Wrote(o)
  BY <1>1 DEF Well, Kinds, Wrote
<1>5. o.entity \in WatchedHeard => Len(o.told) > 0 /\ o.told[1].id = o.id /\ o.told[1].after = OwnAfter(o)
  BY <1>1, <1>4 DEF Well, Telling
<1>6. (s = "done" /\ Len(o.kids) = 1) \/ (s = "kids" /\ Len(o.kids) # 1)
  OBVIOUS
<1> HIDE DEF q, b, s, o
<1>7. CASE Watch!Set(t, [o EXCEPT !.told = q, !.kids = b, !.step = s])
  <2> DEFINE n == [o EXCEPT !.told = q, !.kids = b, !.step = s]
  <2>2. /\ n \in Called /\ n.kind = o.kind /\ n.entity = o.entity /\ n.id = o.id /\ n.value = o.value
        /\ n.before = o.before /\ n.kids = b /\ n.told = q /\ n.effects = o.effects
        /\ n.alone = o.alone /\ n.failed = o.failed /\ n.step = s
    BY <1>1, <1>3, <1>6 DEF Called, CallSteps
  <2>3. Watch!Set(t, n)
    BY <1>7
  <2> HIDE DEF n
  <2>4. Line(n) = Line(o)
    BY <1>1, <1>3, <1>6, <2>2 DEF Line
  <2>5. Well(n, wRows)
    BY <1>1, <1>3, <1>4, <1>5, <1>6, <2>2, <2>4, TellsOn
  <2> QED BY <1>1, <2>3, <2>5, WatchedSets
<1>8. CASE Watch!Set(t, [o EXCEPT !.told = q, !.step = "done", !.failed = TRUE])
  <2> DEFINE n == [o EXCEPT !.told = q, !.step = "done", !.failed = TRUE]
  <2>2. /\ n \in Called /\ n.kind = o.kind /\ n.entity = o.entity /\ n.id = o.id /\ n.value = o.value
        /\ n.before = o.before /\ n.kids = o.kids /\ n.told = q /\ n.effects = o.effects
        /\ n.alone = o.alone /\ n.failed = TRUE /\ n.step = "done"
    BY <1>1, <1>3 DEF Called, CallSteps
  <2>3. Watch!Set(t, n)
    BY <1>8
  <2> HIDE DEF n
  <2>4. Well(n, wRows)
    BY <1>1, <1>4, <2>2, TellsOn
  <2> QED BY <1>1, <2>3, <2>4, WatchedSets
<1> QED BY <1>2, <1>7, <1>8

(* What a write by o of row i makes of row j of f, and its effects.        *)
Chosen(o, i) == /\ i \in WatchedIds /\ (o.kind = "insert" => wRows[o.entity][i] = << >>)
                /\ (o.kind # "insert" => i = o.id)
RowAfter(o, i, f, j) ==
  IF f = o.entity /\ j = i
  THEN IF o.kind = "delete" \/ (o.kind = "update" /\ wRows[f][j] = << >>) THEN << >> ELSE << o.value >>
  ELSE IF o.kind = "delete" /\ f # "user" /\ wRows["user"][i] # << >> /\ wRows[f][j] = << i >> THEN KidAfter(f)
  ELSE wRows[f][j]
Effects(o, i) ==
  {d \in {Watch!Event(NoHook, f, j, wRows[f][j], Watch!After(o.kind, o.entity, i, o.value)[f][j]) :
            f \in Watch!Entities, j \in WatchedIds} :
     d.before # d.after \/ (d.entity = o.entity /\ d.id = i /\ d.after # << >>)}

LEMMA AfterIsWritten ==
  ASSUME NEW o \in Called, NEW i \in WatchedIds
  PROVE  /\ Watch!After(o.kind, o.entity, i, o.value) =
              [f \in Watch!Entities |-> [j \in WatchedIds |-> Watch!After(o.kind, o.entity, i, o.value)[f][j]]]
         /\ \A f \in Watch!Entities, j \in WatchedIds :
              Watch!After(o.kind, o.entity, i, o.value)[f][j] = RowAfter(o, i, f, j)
<1>1. o.kind \in {"insert", "save", "update", "delete"}
  BY DEF Called
<1>2. ASSUME NEW f \in Watch!Entities, NEW j \in WatchedIds
      PROVE  Watch!After(o.kind, o.entity, i, o.value)[f][j] = RowAfter(o, i, f, j)
  <2>1. CASE f = o.entity /\ j = i
    <3>1. CASE o.kind = "delete"
      BY <1>2, <2>1, <3>1 DEF Watch!After, RowAfter
    <3>2. CASE o.kind = "update"
      BY <1>2, <2>1, <3>2 DEF Watch!After, RowAfter
    <3>3. CASE o.kind \in {"insert", "save"}
      BY <1>2, <2>1, <3>3 DEF Watch!After, RowAfter
    <3> QED BY <1>1, <3>1, <3>2, <3>3
  <2>2. CASE ~ (f = o.entity /\ j = i)
    BY <1>2, <2>2 DEF Watch!After, RowAfter, KidAfter
  <2> QED BY <2>1, <2>2
<1>3. Watch!After(o.kind, o.entity, i, o.value) =
              [f \in Watch!Entities |-> [j \in WatchedIds |-> Watch!After(o.kind, o.entity, i, o.value)[f][j]]]
  BY DEF Watch!After
<1> QED BY <1>2, <1>3

LEMMA EffectsAre ==
  ASSUME NEW o \in Called, NEW i \in WatchedIds
  PROVE  /\ \A d \in Effects(o, i) : \E f \in Watch!Entities, j \in WatchedIds :
              /\ d = Watch!Event(NoHook, f, j, wRows[f][j], RowAfter(o, i, f, j))
              /\ wRows[f][j] # RowAfter(o, i, f, j) \/ (f = o.entity /\ j = i /\ RowAfter(o, i, f, j) # << >>)
         /\ \A f \in Watch!Entities, j \in WatchedIds :
              wRows[f][j] # RowAfter(o, i, f, j) \/ (f = o.entity /\ j = i /\ RowAfter(o, i, f, j) # << >>) =>
                Watch!Event(NoHook, f, j, wRows[f][j], RowAfter(o, i, f, j)) \in Effects(o, i)
<1> DEFINE ev(f, j) == Watch!Event(NoHook, f, j, wRows[f][j], RowAfter(o, i, f, j))
<1>0. \A f, j : ev(f, j).entity = f /\ ev(f, j).id = j /\ ev(f, j).before = wRows[f][j] /\ ev(f, j).after = RowAfter(o, i, f, j)
  BY DEF Watch!Event
<1>1. ASSUME NEW f \in Watch!Entities, NEW j \in WatchedIds
      PROVE  Watch!Event(NoHook, f, j, wRows[f][j], Watch!After(o.kind, o.entity, i, o.value)[f][j]) = ev(f, j)
  BY <1>1, AfterIsWritten
<1> DEFINE ew(f, j) == Watch!Event(NoHook, f, j, wRows[f][j], Watch!After(o.kind, o.entity, i, o.value)[f][j])
           S == {ew(f, j) : f \in Watch!Entities, j \in WatchedIds}
           P(d) == d.before # d.after \/ (d.entity = o.entity /\ d.id = i /\ d.after # << >>)
<1>9. Effects(o, i) = {d \in S : P(d)}
  BY DEF Effects
<1>10. ASSUME NEW f \in Watch!Entities, NEW j \in WatchedIds PROVE ew(f, j) = ev(f, j)
  BY <1>10, <1>1
<1> HIDE DEF ew
<1>2. ASSUME NEW d \in Effects(o, i)
      PROVE  /\ \E f \in Watch!Entities, j \in WatchedIds : d = ev(f, j)
             /\ d.before # d.after \/ (d.entity = o.entity /\ d.id = i /\ d.after # << >>)
  <2>1. d \in S /\ P(d)
    BY <1>9, <1>2
  <2> HIDE DEF P, ev
  <2>2. PICK f \in Watch!Entities, j \in WatchedIds : d = ew(f, j)
    BY <2>1
  <2>3. d = ev(f, j)
    BY <1>10, <2>2
  <2> QED BY <2>1, <2>3 DEF P
<1>3. ASSUME NEW f \in Watch!Entities, NEW j \in WatchedIds, P(ev(f, j))
      PROVE  ev(f, j) \in Effects(o, i)
  <2> HIDE DEF P, ev
  <2>1. ew(f, j) \in S
    OBVIOUS
  <2> QED BY <1>9, <1>10, <1>3, <2>1
<1> HIDE DEF ev
<1>4. \A d \in Effects(o, i) : \E f \in Watch!Entities, j \in WatchedIds :
              /\ d = ev(f, j)
              /\ wRows[f][j] # RowAfter(o, i, f, j) \/ (f = o.entity /\ j = i /\ RowAfter(o, i, f, j) # << >>)
  BY <1>0, <1>2
<1>5. \A f \in Watch!Entities, j \in WatchedIds :
              wRows[f][j] # RowAfter(o, i, f, j) \/ (f = o.entity /\ j = i /\ RowAfter(o, i, f, j) # << >>) =>
                ev(f, j) \in Effects(o, i)
  BY <1>0, <1>3
<1> QED BY <1>4, <1>5 DEF ev

(* The effect on its own row, and those on children.                       *)
LEMMA OwnEffect ==
  ASSUME WatchedInv, NEW o \in Called, Well(o, wRows), o.step = "write", NEW i, Chosen(o, i),
         NEW d \in Effects(o, i), d.entity = o.entity
  PROVE  d = Watch!Event(NoHook, o.entity, i, wRows[o.entity][i], OwnAfter(o))
<1>1. PICK f \in Watch!Entities, j \in WatchedIds :
         /\ d = Watch!Event(NoHook, f, j, wRows[f][j], RowAfter(o, i, f, j))
         /\ wRows[f][j] # RowAfter(o, i, f, j) \/ (f = o.entity /\ j = i /\ RowAfter(o, i, f, j) # << >>)
  BY EffectsAre DEF Chosen
<1>2. f = o.entity /\ d.id = j /\ d.after = RowAfter(o, i, f, j)
  BY <1>1 DEF Watch!Event
<1>3. o.kind = "delete" => o.entity = "user"
  BY DEF Well, Kinds
<1>4. j = i
  BY <1>1, <1>2, <1>3 DEF RowAfter
<1>5. RowAfter(o, i, f, j) = OwnAfter(o)
  BY <1>1, <1>2, <1>4 DEF RowAfter, OwnAfter
<1> QED BY <1>1, <1>2, <1>4, <1>5

ChildOf(o, i, d) ==
  /\ o.kind = "delete" /\ wRows["user"][i] # << >> /\ d.entity \in DOMAIN WatchedOnDelete
  /\ \E j \in WatchedIds : /\ wRows[d.entity][j] = << i >>
                          /\ d = Watch!Event(NoHook, d.entity, j, << i >>, KidAfter(d.entity))

LEMMA ChildEffect ==
  ASSUME WatchedInv, NEW o \in Called, Well(o, wRows), o.step = "write", NEW i, Chosen(o, i),
         NEW d \in Effects(o, i), d.entity # o.entity
  PROVE  ChildOf(o, i, d)
<1>1. PICK f \in Watch!Entities, j \in WatchedIds :
         /\ d = Watch!Event(NoHook, f, j, wRows[f][j], RowAfter(o, i, f, j))
         /\ wRows[f][j] # RowAfter(o, i, f, j) \/ (f = o.entity /\ j = i /\ RowAfter(o, i, f, j) # << >>)
  BY EffectsAre DEF Chosen
<1>2. d.entity = f
  BY <1>1 DEF Watch!Event
<1>3. /\ o.kind = "delete" /\ f # "user" /\ wRows["user"][i] # << >> /\ wRows[f][j] = << i >>
      /\ RowAfter(o, i, f, j) = KidAfter(f)
  BY <1>1, <1>2 DEF RowAfter
<1>4. f \in DOMAIN WatchedOnDelete
  BY <1>3 DEF Watch!Entities
<1> QED BY <1>1, <1>2, <1>3, <1>4 DEF ChildOf

LEMMA DeleteFinds ==
  ASSUME WatchedInv, NEW o \in Called, Well(o, wRows), o.step = "write", o.kind = "delete",
         NEW i, Chosen(o, i), Effects(o, i) # {}
  PROVE  wRows["user"][i] # << >>
<1>1. PICK d : d \in Effects(o, i)
  OBVIOUS
<1>2. o.entity = "user"
  BY DEF Well, Kinds
<1>3. CASE d.entity = o.entity
  <2>1. PICK f \in Watch!Entities, j \in WatchedIds :
         /\ d = Watch!Event(NoHook, f, j, wRows[f][j], RowAfter(o, i, f, j))
         /\ wRows[f][j] # RowAfter(o, i, f, j) \/ (f = o.entity /\ j = i /\ RowAfter(o, i, f, j) # << >>)
    BY <1>1, EffectsAre DEF Chosen
  <2>2. f = "user"
    BY <1>2, <1>3, <2>1 DEF Watch!Event
  <2> QED BY <1>2, <2>1, <2>2 DEF RowAfter
<1>4. CASE d.entity # o.entity
  BY <1>1, <1>4, ChildEffect DEF ChildOf
<1> QED BY <1>3, <1>4

LEMMA ChildIsEffect ==
  ASSUME WatchedInv, NEW o \in Called, Well(o, wRows), o.step = "write", o.kind = "delete",
         NEW i, Chosen(o, i), wRows["user"][i] # << >>,
         NEW f \in DOMAIN WatchedOnDelete, NEW j \in WatchedIds, wRows[f][j] = << i >>
  PROVE  Watch!Event(NoHook, f, j, << i >>, KidAfter(f)) \in Effects(o, i)
<1>1. o.entity = "user" /\ f # "user" /\ f \in Watch!Entities /\ i \in WatchedIds
  BY WatchedAssumption DEF Well, Kinds, Watch!Entities, Chosen
<1>2. RowAfter(o, i, f, j) = KidAfter(f)
  BY <1>1 DEF RowAfter
<1>3. << i >> # KidAfter(f)
  BY <1>1, WatchedAssumption DEF KidAfter
<1>4. Watch!Event(NoHook, f, j, wRows[f][j], RowAfter(o, i, f, j)) \in Effects(o, i)
  BY <1>1, <1>2, <1>3, EffectsAre
<1> QED BY <1>2, <1>4

LEMMA OwnIsEffect ==
  ASSUME WatchedInv, NEW o \in Called, Well(o, wRows), o.step = "write", o.alone, o.entity \in WatchedHeard,
         NEW i, Chosen(o, i)
  PROVE  Watch!Event(NoHook, o.entity, i, o.before, OwnAfter(o)) \in Effects(o, i)
<1>1. o.before = wRows[o.entity][i]
  BY DEF Well, Kinds, ReadOf, Chosen
<1>2. o.kind \in {"update", "delete"} => o.before # << >>
  BY DEF Well, ReadOf
<1>3. RowAfter(o, i, o.entity, i) = OwnAfter(o)
  BY <1>1, <1>2 DEF RowAfter, OwnAfter
<1>4. o.before # OwnAfter(o) \/ OwnAfter(o) # << >>
  BY <1>2 DEF OwnAfter
<1>5. o.entity \in Watch!Entities /\ i \in WatchedIds
  BY DEF Called, Chosen
<1>6. wRows[o.entity][i] # RowAfter(o, i, o.entity, i) \/ RowAfter(o, i, o.entity, i) # << >>
  BY <1>1, <1>3, <1>4
<1>7. Watch!Event(NoHook, o.entity, i, wRows[o.entity][i], RowAfter(o, i, o.entity, i)) \in Effects(o, i)
  BY <1>5, <1>6, EffectsAre
<1> QED BY <1>1, <1>3, <1>7

LEMMA WrittenRows ==
  ASSUME WatchedInv, NEW o \in Called, NEW i \in WatchedIds
  PROVE  /\ Watch!After(o.kind, o.entity, i, o.value) \in [Watch!Entities -> [WatchedIds -> Row]]
         /\ Effects(o, i) \in SUBSET Events
<1>1. \A f : KidAfter(f) \in Row
  BY DEF KidAfter, Row
<1>2. << >> \in Row /\ << o.value >> \in Row
  BY DEF Called, Row
<1>3. ASSUME NEW f \in Watch!Entities, NEW j \in WatchedIds PROVE RowAfter(o, i, f, j) \in Row /\ wRows[f][j] \in Row
  BY <1>1, <1>2, <1>3 DEF WatchedInv, RowAfter
<1>4. Watch!After(o.kind, o.entity, i, o.value) \in [Watch!Entities -> [WatchedIds -> Row]]
  <2> DEFINE w == Watch!After(o.kind, o.entity, i, o.value)
  <2>1. w = [f \in Watch!Entities |-> [j \in WatchedIds |-> w[f][j]]]
    BY AfterIsWritten
  <2>2. \A f \in Watch!Entities, j \in WatchedIds : w[f][j] \in Row
    <3> SUFFICES ASSUME NEW f \in Watch!Entities, NEW j \in WatchedIds PROVE w[f][j] \in Row
      OBVIOUS
    <3>1. Watch!After(o.kind, o.entity, i, o.value)[f][j] = RowAfter(o, i, f, j)
      BY AfterIsWritten
    <3>2. RowAfter(o, i, f, j) \in Row
      BY <1>3
    <3> QED BY <3>1, <3>2
  <2> HIDE DEF w
  <2>3. w \in [Watch!Entities -> [WatchedIds -> Row]]
    BY <2>1, <2>2
  <2> QED BY <2>3 DEF w
<1>5. ASSUME NEW d \in Effects(o, i) PROVE d \in Events
  <2>1. PICK f \in Watch!Entities, j \in WatchedIds :
         /\ d = Watch!Event(NoHook, f, j, wRows[f][j], RowAfter(o, i, f, j))
         /\ wRows[f][j] # RowAfter(o, i, f, j) \/ (f = o.entity /\ j = i /\ RowAfter(o, i, f, j) # << >>)
    BY <1>5, EffectsAre
  <2> QED BY <1>3, <2>1 DEF Watch!Event, Events, NoHook
<1> QED BY <1>4, <1>5

LEMMA Prepended ==
  ASSUME NEW S, NEW x \in S, NEW k \in Seq(S)
  PROVE  /\ DOMAIN (<< x >> \o k) = 1 .. Len(k) + 1 /\ (<< x >> \o k)[1] = x
         /\ \A m \in DOMAIN k : m + 1 \in DOMAIN (<< x >> \o k) /\ (<< x >> \o k)[m + 1] = k[m]
         /\ \A m \in DOMAIN (<< x >> \o k) : m # 1 =>
              m - 1 \in DOMAIN k /\ (<< x >> \o k)[m] = k[m - 1] /\ m \in Int
<1> DEFINE q == << x >>
           s == << x >> \o k
<1>1. q \in Seq(S) /\ Len(q) = 1 /\ q[1] = x
  OBVIOUS
<1>2. Len(k) \in Nat /\ DOMAIN k = 1 .. Len(k)
  BY LenProperties
<1> HIDE DEF q
<1>3. /\ q \o k \in Seq(S) /\ Len(q \o k) = Len(q) + Len(k)
      /\ \A n \in 1 .. Len(q) + Len(k) : (q \o k)[n] = IF n <= Len(q) THEN q[n] ELSE k[n - Len(q)]
  BY <1>1, ConcatProperties
<1>4. s = q \o k
  BY DEF q
<1> HIDE DEF s
<1>5. DOMAIN s = 1 .. Len(k) + 1 /\ s[1] = x
  BY <1>1, <1>2, <1>3, <1>4
<1>6. ASSUME NEW m \in DOMAIN k PROVE m + 1 \in DOMAIN s /\ s[m + 1] = k[m]
  BY <1>1, <1>2, <1>3, <1>4, <1>5, <1>6
<1>7. ASSUME NEW m \in DOMAIN s, m # 1 PROVE m - 1 \in DOMAIN k /\ s[m] = k[m - 1] /\ m \in Int
  BY <1>1, <1>2, <1>3, <1>4, <1>5, <1>7
<1>8. /\ DOMAIN s = 1 .. Len(k) + 1 /\ s[1] = x
      /\ \A m \in DOMAIN k : m + 1 \in DOMAIN s /\ s[m + 1] = k[m]
      /\ \A m \in DOMAIN s : m # 1 => m - 1 \in DOMAIN k /\ s[m] = k[m - 1] /\ m \in Int
  BY <1>5, <1>6, <1>7
<1> QED BY <1>8 DEF s

LEMMA ExactlyPrepends ==
  ASSUME NEW n, NEW x \in Events, NEW k \in Seq(Events),
         Bare(x) \in n.effects, x.entity \in WatchedHeard,
         \A m \in DOMAIN k : Bare(k[m]) \in n.effects /\ k[m].entity \in WatchedHeard /\ Bare(k[m]) # Bare(x),
         \A e \in n.effects : e.entity \in WatchedHeard => Bare(x) = e \/ \E m \in DOMAIN k : Bare(k[m]) = e,
         \A m, l \in DOMAIN k : Bare(k[m]) = Bare(k[l]) => m = l
  PROVE  Exactly(n, << x >> \o k)
<1> DEFINE s == << x >> \o k
<1>2. Len(k) \in Nat /\ DOMAIN k = 1 .. Len(k)
  BY LenProperties
<1>5. /\ DOMAIN s = 1 .. Len(k) + 1 /\ s[1] = x
      /\ \A m \in DOMAIN k : m + 1 \in DOMAIN s /\ s[m + 1] = k[m]
      /\ \A m \in DOMAIN s : m # 1 => m - 1 \in DOMAIN k /\ s[m] = k[m - 1] /\ m \in Int
  BY Prepended
<1> HIDE DEF s
<1>6. ASSUME NEW m \in DOMAIN k PROVE m + 1 \in DOMAIN s /\ s[m + 1] = k[m]
  BY <1>5
<1>7. ASSUME NEW m \in DOMAIN s, m # 1 PROVE m - 1 \in DOMAIN k /\ s[m] = k[m - 1] /\ m \in Int
  BY <1>5, <1>7
<1>8. \A m \in DOMAIN s : Bare(s[m]) \in n.effects /\ s[m].entity \in WatchedHeard
  BY <1>5, <1>7
<1>9. \A e \in n.effects : e.entity \in WatchedHeard => \E m \in DOMAIN s : Bare(s[m]) = e
  <2> SUFFICES ASSUME NEW e \in n.effects, e.entity \in WatchedHeard PROVE \E m \in DOMAIN s : Bare(s[m]) = e
    OBVIOUS
  <2>1. CASE Bare(x) = e
    BY <1>2, <1>5, <2>1
  <2>2. CASE \E m \in DOMAIN k : Bare(k[m]) = e
    BY <1>6, <2>2
  <2> QED BY <2>1, <2>2
<1>10. ASSUME NEW m \in DOMAIN s, NEW l \in DOMAIN s, Bare(s[m]) = Bare(s[l]) PROVE m = l
  <2>1. CASE m = 1 \/ l = 1
    BY <1>5, <1>7, <1>10, <2>1
  <2>2. CASE m # 1 /\ l # 1
    <3>1. m - 1 = l - 1
      BY <1>7, <1>10, <2>2
    <3> QED BY <1>7, <2>2, <3>1
  <2> QED BY <2>1, <2>2
<1>11. Exactly(n, s)
  BY <1>8, <1>9, <1>10 DEF Exactly
<1> QED BY <1>11 DEF s

(* The child m of the delete o is k, and o does to it what it tells.       *)
KidOf(o, i, m, k) ==
  /\ k[1] \in DOMAIN WatchedOnDelete /\ k[1] \in WatchedHeard /\ k[2] \in WatchedIds
  /\ o.kids[m] = Kid(o, k) /\ o.kids[m].entity = k[1]
  /\ Bare(o.kids[m]) = Watch!Event(NoHook, k[1], k[2], << i >>, KidAfter(k[1]))
  /\ Bare(o.kids[m]) \in Effects(o, i)

LEMMA OnlyDeletes ==
  ASSUME NEW o, Well(o, wRows), NEW m \in DOMAIN o.kids
  PROVE  o.kind = "delete"
BY DEF Well, Kinds

LEMMA KidIsEffect ==
  ASSUME WatchedInv, NEW o \in Called, Well(o, wRows), o.step = "write", o.alone,
         NEW i, Chosen(o, i), Effects(o, i) # {}, NEW m \in DOMAIN o.kids
  PROVE  \E k \in KidKeys(o, wRows) : KidOf(o, i, m, k)
<1>1. o.kind = "delete"
  BY OnlyDeletes
<1>2. i = o.id /\ wRows["user"][i] # << >> /\ KidsRead(o, wRows)
  BY <1>1, DeleteFinds DEF Well, ReadOf, Chosen
<1>3. PICK k \in KidKeys(o, wRows) : o.kids[m] = Kid(o, k)
  BY <1>2 DEF KidsRead
<1>4. /\ k[1] \in DOMAIN WatchedOnDelete /\ k[1] \in WatchedHeard /\ k[2] \in WatchedIds
      /\ wRows[k[1]][k[2]] = << i >>
  BY <1>2, <1>3 DEF KidKeys
<1>5. PICK h : Kid(o, k) = Watch!Event(h, k[1], k[2], << i >>, KidAfter(k[1]))
  BY <1>2 DEF Kid
<1>6. Bare(Watch!Event(h, k[1], k[2], << i >>, KidAfter(k[1]))) = Watch!Event(NoHook, k[1], k[2], << i >>, KidAfter(k[1]))
  BY BareEvent
<1>7. Watch!Event(h, k[1], k[2], << i >>, KidAfter(k[1])).entity = k[1]
  BY DEF Watch!Event
<1>8. Watch!Event(NoHook, k[1], k[2], << i >>, KidAfter(k[1])) \in Effects(o, i)
  BY <1>1, <1>2, <1>4, ChildIsEffect
<1>9. KidOf(o, i, m, k)
  BY <1>3, <1>4, <1>5, <1>6, <1>7, <1>8 DEF KidOf
<1> QED BY <1>9

LEMMA KidsOnce ==
  ASSUME WatchedInv, NEW o \in Called, Well(o, wRows), o.step = "write", o.alone,
         NEW i, Chosen(o, i), Effects(o, i) # {}, NEW m \in DOMAIN o.kids, NEW l \in DOMAIN o.kids,
         Bare(o.kids[m]) = Bare(o.kids[l])
  PROVE  m = l
<1>1. PICK k \in KidKeys(o, wRows) : KidOf(o, i, m, k)
  BY KidIsEffect
<1>2. PICK h \in KidKeys(o, wRows) : KidOf(o, i, l, h)
  BY KidIsEffect
<1>3. Watch!Event(NoHook, k[1], k[2], << i >>, KidAfter(k[1])) = Watch!Event(NoHook, h[1], h[2], << i >>, KidAfter(h[1]))
  BY <1>1, <1>2 DEF KidOf
<1>4. k[1] = h[1] /\ k[2] = h[2]
  BY <1>3 DEF Watch!Event
<1>5. Kid(o, k) = Kid(o, h)
  BY <1>4 DEF Kid
<1>6. o.kids[m] = o.kids[l]
  BY <1>1, <1>2, <1>5 DEF KidOf
<1>7. o.kind = "delete"
  BY OnlyDeletes
<1>8. KidsRead(o, wRows)
  BY <1>7 DEF Well, ReadOf
<1> QED BY <1>6, <1>8 DEF KidsRead

LEMMA ChildIsTold ==
  ASSUME WatchedInv, NEW o \in Called, Well(o, wRows), o.step = "write", o.alone,
         NEW i, Chosen(o, i), NEW d \in Effects(o, i), d.entity # o.entity, d.entity \in WatchedHeard
  PROVE  \E m \in DOMAIN o.kids : Bare(o.kids[m]) = d
<1>1. ChildOf(o, i, d)
  BY ChildEffect
<1>2. PICK j \in WatchedIds : wRows[d.entity][j] = << i >> /\ d = Watch!Event(NoHook, d.entity, j, << i >>, KidAfter(d.entity))
  BY <1>1 DEF ChildOf
<1>3. i = o.id /\ KidsRead(o, wRows) /\ d.entity \in DOMAIN WatchedOnDelete
  BY <1>1 DEF Well, ReadOf, Chosen, ChildOf
<1>4. PICK f : f = d.entity
  OBVIOUS
<1> DEFINE k == << f, j >>
<1>5. k \in KidKeys(o, wRows) /\ k[1] = f /\ k[2] = j
  BY <1>2, <1>3, <1>4 DEF KidKeys
<1> HIDE DEF k
<1>6. PICK m \in DOMAIN o.kids : o.kids[m] = Kid(o, k)
  BY <1>3, <1>5 DEF KidsRead
<1>7. PICK h : Kid(o, k) = Watch!Event(h, f, j, << i >>, KidAfter(f))
  BY <1>3, <1>5 DEF Kid
<1>8. Bare(Watch!Event(h, f, j, << i >>, KidAfter(f))) = Watch!Event(NoHook, f, j, << i >>, KidAfter(f))
  BY BareEvent
<1>9. d = Watch!Event(NoHook, f, j, << i >>, KidAfter(f))
  BY <1>2, <1>4
<1> QED BY <1>6, <1>7, <1>8, <1>9

LEMMA WriteTells ==
  ASSUME WatchedInv, NEW o \in Called, Well(o, wRows), o.step = "write", o.alone,
         NEW i, Chosen(o, i), Effects(o, i) # {}, NEW n \in Called,
         n.kind = o.kind, n.entity = o.entity, n.id = i, n.value = o.value, n.before = o.before, n.kids = o.kids,
         n.effects = Effects(o, i)
  PROVE  Exactly(n, IF n.entity \in WatchedHeard THEN << Own(n) >> \o n.kids ELSE n.kids)
<1>1. ASSUME NEW m \in DOMAIN o.kids
      PROVE  Bare(o.kids[m]) \in n.effects /\ o.kids[m].entity \in WatchedHeard /\ Bare(o.kids[m]).entity # n.entity
  <2>1. PICK k \in KidKeys(o, wRows) : KidOf(o, i, m, k)
    BY KidIsEffect
  <2>2. o.kind = "delete"
    BY OnlyDeletes
  <2>3. n.entity = "user"
    BY <2>2 DEF Well, Kinds
  <2>4. Watch!Event(NoHook, k[1], k[2], << i >>, KidAfter(k[1])).entity = k[1]
    BY DEF Watch!Event
  <2> QED BY <2>1, <2>3, <2>4, WatchedAssumption DEF KidOf
<1>2. ASSUME NEW m \in DOMAIN o.kids, NEW l \in DOMAIN o.kids, Bare(o.kids[m]) = Bare(o.kids[l]) PROVE m = l
  BY <1>2, KidsOnce
<1>3. ASSUME NEW e \in Effects(o, i), e.entity # o.entity, e.entity \in WatchedHeard
      PROVE  \E m \in DOMAIN o.kids : Bare(o.kids[m]) = e
  BY <1>3, ChildIsTold
<1>4. n.kids \in Seq(Events)
  BY DEF Called
<1>5. CASE n.entity \in WatchedHeard
  <2> DEFINE x == Own(n)
             b == Watch!Event(NoHook, o.entity, i, o.before, OwnAfter(o))
  <2>1. x \in Events /\ x.entity = n.entity
    BY OwnIsEvent
  <2>2. Bare(x) = b /\ b.entity = n.entity
    <3>1. x = Watch!Event(OwnHook(n), o.entity, i, o.before, OwnAfter(o))
      BY DEF Own, OwnAfter
    <3>2. Bare(Watch!Event(OwnHook(n), o.entity, i, o.before, OwnAfter(o))) = b
      BY BareEvent
    <3>3. b.entity = o.entity
      BY DEF Watch!Event
    <3> QED BY <3>1, <3>2, <3>3
  <2>3. b \in n.effects
    BY <1>5, OwnIsEffect
  <2>4. ASSUME NEW e \in Effects(o, i), e.entity = o.entity PROVE e = b
    <3>1. o.before = wRows[o.entity][i]
      BY <1>5 DEF Well, Kinds, ReadOf, Chosen
    <3>2. e = Watch!Event(NoHook, o.entity, i, wRows[o.entity][i], OwnAfter(o))
      BY <2>4, OwnEffect
    <3> QED BY <3>1, <3>2
  <2> HIDE DEF x, b
  <2>5. /\ Bare(x) \in n.effects /\ x.entity \in WatchedHeard
        /\ \A m \in DOMAIN n.kids : /\ Bare(n.kids[m]) \in n.effects /\ n.kids[m].entity \in WatchedHeard
                                   /\ Bare(n.kids[m]) # Bare(x)
    BY <1>1, <1>5, <2>1, <2>2, <2>3
  <2>6. \A e \in n.effects : e.entity \in WatchedHeard =>
          Bare(x) = e \/ \E m \in DOMAIN n.kids : Bare(n.kids[m]) = e
    BY <1>3, <2>2, <2>4
  <2>7. \A m, l \in DOMAIN n.kids : Bare(n.kids[m]) = Bare(n.kids[l]) => m = l
    BY <1>2
  <2>8. Exactly(n, << x >> \o n.kids)
    BY <1>4, <2>1, <2>5, <2>6, <2>7, ExactlyPrepends
  <2> QED BY <1>5, <2>8 DEF x
<1>6. CASE n.entity \notin WatchedHeard
  <2>1. \A e \in n.effects : e.entity \in WatchedHeard => \E m \in DOMAIN n.kids : Bare(n.kids[m]) = e
    BY <1>3, <1>6
  <2>2. Exactly(n, n.kids)
    BY <1>1, <1>2, <2>1 DEF Exactly
  <2> QED BY <1>6, <2>2
<1> QED BY <1>5, <1>6

(* The write itself, and the calls it disturbs.                            *)
Disturbs(t, n, w) ==
  [u \in WatchedTasks |-> IF u = t THEN n
                          ELSE IF wOp[u] # NULL /\ wOp[u].step # "done" /\ w # wRows
                               THEN [wOp[u] EXCEPT !.alone = FALSE] ELSE wOp[u]]

LEMMA WriteIs ==
  ASSUME NEW t \in WatchedTasks, Watch!Write(t)
  PROVE  \/ Watch!Set(t, [wOp[t] EXCEPT !.step = "done", !.failed = TRUE]) /\ wRows' = wRows
         \/ wRows' = Watch!RowsAfter(wOp[t]) /\ wOp' = Disturbs(t, Watch!Wrote(wOp[t]), Watch!RowsAfter(wOp[t]))
BY DEF Watch!Write, Disturbs

LEMMA EffectsAlike ==
  ASSUME NEW o
  PROVE  Watch!Effects(o) = Effects(o, Watch!Written(o))
BY DEF Watch!Effects, Watch!RowsAfter, Effects, NoHook

LEMMA WriteChooses ==
  ASSUME WatchedInv, NEW t \in WatchedTasks, Watch!Write(t)
  PROVE  Chosen(wOp[t], Watch!Written(wOp[t]))
<1>1. wOp[t] \in Called
  BY WatchedAt DEF Watch!Write
<1>2. wOp[t].id \in WatchedIds
  BY <1>1 DEF Called
<1>3. CASE wOp[t].kind = "insert"
  <2>1. \E j \in WatchedIds : wRows[wOp[t].entity][j] = << >>
    BY <1>3 DEF Watch!Write
  <2> QED BY <1>3, <2>1 DEF Chosen, Watch!Written
<1>4. CASE wOp[t].kind # "insert"
  BY <1>2, <1>4 DEF Chosen, Watch!Written
<1> QED BY <1>3, <1>4

LEMMA WellWritten ==
  ASSUME WatchedInv, NEW o \in Called, Well(o, wRows), o.step = "write", NEW r,
         NEW i, i = Watch!Written(o), Chosen(o, i)
  PROVE  Well(Watch!Wrote(o), r)
<1>1. PICK E : E = Effects(o, i)
  OBVIOUS
<1>2. PICK s : s = IF (o.entity \in WatchedHeard \/ o.kids # << >>) /\ E # {} THEN "after" ELSE "done"
  OBVIOUS
<1>3. (s = "after" /\ E # {} /\ (o.entity \in WatchedHeard \/ o.kids # << >>))
        \/ (s = "done" /\ (E = {} \/ (o.entity \notin WatchedHeard /\ o.kids = << >>)))
  BY <1>2
<1>4. E \in SUBSET Events
  BY <1>1, WrittenRows DEF Chosen
<1>5. PICK n : n = [o EXCEPT !.id = i, !.effects = E, !.step = s]
  OBVIOUS
<1>6. n = Watch!Wrote(o)
  <2>1. Watch!Effects(o) = E
    BY <1>1, EffectsAlike
  <2> QED BY <1>2, <1>5, <2>1 DEF Watch!Wrote
<1>7. /\ n \in Called /\ n.kind = o.kind /\ n.entity = o.entity /\ n.id = i /\ n.value = o.value
      /\ n.before = o.before /\ n.kids = o.kids /\ n.told = o.told /\ n.effects = E
      /\ n.alone = o.alone /\ n.failed = o.failed /\ n.step = s
  BY <1>3, <1>4, <1>5 DEF Called, CallSteps, Chosen
<1>8. o.told = << >> /\ ~ o.failed /\ Kinds(o)
  BY DEF Well, Fresh
<1>9. Fresh(n) /\ Kinds(n) /\ ReadOf(n, r)
  BY <1>3, <1>7, <1>8 DEF Fresh, Kinds, ReadOf
<1>10. OwnAfter(n) = OwnAfter(o)
  BY <1>7 DEF OwnAfter
<1>11. Truly(n)
  <2> SUFFICES ASSUME NEW e \in E, e.entity = o.entity PROVE e.id = i /\ e.after = OwnAfter(o)
    BY <1>7, <1>10 DEF Truly
  <2>1. e = Watch!Event(NoHook, o.entity, i, wRows[o.entity][i], OwnAfter(o))
    BY <1>1, OwnEffect
  <2> QED BY <2>1 DEF Watch!Event
<1>12. ASSUME E # {}, o.alone PROVE Exactly(n, Line(n))
  <2>1. Exactly(n, IF n.entity \in WatchedHeard THEN << Own(n) >> \o n.kids ELSE n.kids)
    <3>1. Effects(o, i) # {} /\ n.effects = Effects(o, i)
      BY <1>1, <1>7, <1>12
    <3> QED BY <1>7, <1>12, <3>1, WriteTells
  <2>2. CASE s = "after"
    BY <1>7, <2>1, <2>2 DEF Line
  <2>3. CASE s = "done"
    <3>1. n.entity \notin WatchedHeard /\ n.kids = << >> /\ n.told = << >>
      BY <1>3, <1>7, <1>8, <1>12, <2>3
    <3> QED BY <1>7, <2>1, <2>3, <3>1 DEF Line
  <2> QED BY <1>3, <2>2, <2>3
<1>13. Telling(n)
  BY <1>3, <1>7, <1>8, <1>11, <1>12 DEF Telling, Wrote
<1> QED BY <1>6, <1>7, <1>9, <1>13 DEF Well

LEMMA WatchedWrites ==
  ASSUME WatchedInv, NEW t \in WatchedTasks, Watch!Write(t)
  PROVE  WatchedInv'
<1>1. PICK o : o = wOp[t]
  OBVIOUS
<1>2. PICK i : i = Watch!Written(o)
  OBVIOUS
<1>3. Well(o, wRows) /\ o \in Called /\ o.step = "write"
  BY <1>1, WatchedAt DEF Watch!Write
<1>4. Chosen(o, i)
  BY <1>1, <1>2, WriteChooses
<1>5. CASE Watch!Set(t, [o EXCEPT !.step = "done", !.failed = TRUE]) /\ wRows' = wRows
  <2> DEFINE n == [o EXCEPT !.step = "done", !.failed = TRUE]
  <2>1. /\ n \in Called /\ n.step = "done" /\ n.told = o.told /\ n.effects = o.effects /\ n.kind = o.kind
        /\ n.entity = o.entity /\ n.kids = o.kids /\ n.before = o.before
    BY <1>3 DEF Called, CallSteps
  <2>2. Watch!Set(t, n)
    BY <1>5
  <2> HIDE DEF n
  <2>3. Well(n, wRows)
    BY <1>3, <2>1, WellEnds
  <2> QED BY <1>5, <2>2, <2>3, WatchedSets
<1>6. CASE wRows' = Watch!RowsAfter(o) /\ wOp' = Disturbs(t, Watch!Wrote(o), Watch!RowsAfter(o))
  <2>1. PICK n : n = Watch!Wrote(o)
    OBVIOUS
  <2>2. Well(n, wRows')
    BY <1>2, <1>3, <1>4, <2>1, WellWritten
  <2>3. wRows' \in [Watch!Entities -> [WatchedIds -> Row]]
    BY <1>2, <1>3, <1>4, <1>6, WrittenRows DEF Chosen, Watch!RowsAfter
  <2>4. wOp' = Disturbs(t, n, wRows')
    BY <1>6, <2>1
  <2>5. DOMAIN wOp' = WatchedTasks /\ wOp' = [u \in WatchedTasks |-> wOp'[u]] /\ wOp'[t] = n
    BY <2>4 DEF Disturbs
  <2>6. \A u \in WatchedTasks : u # t =>
           \/ wOp'[u] = wOp[u] /\ (wRows' = wRows \/ wOp[u] = NULL \/ wOp[u].step = "done")
           \/ wOp[u] # NULL /\ wOp'[u] = [wOp[u] EXCEPT !.alone = FALSE]
    BY <2>4 DEF Disturbs
  <2> QED BY <2>2, <2>3, <2>5, <2>6, WatchedStep
<1> QED BY <1>1, <1>2, <1>5, <1>6, WriteIs

LEMMA WatchedStarts == Watch!Init => WatchedInv
<1> SUFFICES ASSUME Watch!Init PROVE WatchedInv
  OBVIOUS
<1>1. wRows \in [Watch!Entities -> [WatchedIds -> Row]]
  BY WatchedAssumption DEF Watch!Init, Row
<1> QED BY <1>1 DEF Watch!Init, WatchedInv

LEMMA WatchedNext == WatchedInv /\ [Watch!Next]_watchVars => WatchedInv'
<1> SUFFICES ASSUME WatchedInv, [Watch!Next]_watchVars PROVE WatchedInv'
  OBVIOUS
<1>1. ASSUME NEW t \in WatchedTasks, NEW e \in Watch!Entities, NEW i \in WatchedIds, NEW v \in WatchedValues,
             NEW kind \in {"insert", "save", "update", "delete"}, Watch!Begin(t, kind, e, i, v)
      PROVE  WatchedInv'
  BY <1>1, WatchedBegins
<1>2. ASSUME NEW t \in WatchedTasks,
             \/ Watch!ReadChildren(t) \/ Watch!ReadBefore(t) \/ Watch!BeforeHook(t) \/ Watch!Write(t)
             \/ Watch!AfterHook(t) \/ Watch!ReportCascade(t) \/ Watch!Return(t)
      PROVE  WatchedInv'
  BY <1>2, WatchedReadsChildren, WatchedReadsBefore, WatchedBeforeHook, WatchedWrites, WatchedAfterHook,
     WatchedReports, WatchedReturns
<1>3. CASE UNCHANGED watchVars
  BY <1>3 DEF watchVars, WatchedInv
<1> QED BY <1>1, <1>2, <1>3 DEF Watch!Next

(* What was told, as a set: as many as there are calls of a hook, when no  *)
(* two of them are alike.                                                  *)
BareAll(s) == {Bare(s[n]) : n \in DOMAIN s}

LEMMA ToldIsBare ==
  ASSUME NEW t, NEW s \in Seq(Events), wOp[t].told = s
  PROVE  Watch!Told(t) = BareAll(s)
<1>1. Watch!Told(t) = {[e EXCEPT !.hook = NoHook] : e \in Watch!ToSet(s)}
  BY DEF Watch!Told, NoHook
<1>2. Watch!ToSet(s) = {s[n] : n \in DOMAIN s}
  BY DEF Watch!ToSet
<1>3. {[e EXCEPT !.hook = NoHook] : e \in Watch!ToSet(s)} = {Bare(e) : e \in Watch!ToSet(s)}
  BY DEF Bare
<1>4. {Bare(e) : e \in {s[n] : n \in DOMAIN s}} = BareAll(s)
  BY DEF BareAll
<1> QED BY <1>1, <1>2, <1>3, <1>4

LEMMA BareCount ==
  ASSUME NEW s \in Seq(Events), \A m, n \in DOMAIN s : Bare(s[m]) = Bare(s[n]) => m = n
  PROVE  Watch!Cardinality(BareAll(s)) = Len(s)
<1>0. Watch!Cardinality(BareAll(s)) = Cardinality(BareAll(s))
  BY DEF Watch!Cardinality, Cardinality
<1>1. Len(s) \in Nat /\ DOMAIN s = 1 .. Len(s)
  BY LenProperties
<1> DEFINE f == [n \in 1 .. Len(s) |-> Bare(s[n])]
<1>2. f \in Bijection(1 .. Len(s), BareAll(s))
  <2>1. f \in [1 .. Len(s) -> BareAll(s)]
    BY <1>1 DEF BareAll
  <2>2. \A a, b \in 1 .. Len(s) : f[a] = f[b] => a = b
    BY <1>1
  <2>3. \A x \in BareAll(s) : \E a \in 1 .. Len(s) : f[a] = x
    BY <1>1 DEF BareAll
  <2> HIDE DEF f
  <2> QED BY <2>1, <2>2, <2>3 DEF Bijection, Injection, Surjection, IsInjective
<1>3. ExistsBijection(1 .. Len(s), BareAll(s))
  BY <1>2 DEF ExistsBijection
<1>4. Cardinality(BareAll(s)) = Len(s)
  BY <1>1, <1>3, FS_CountingElements
<1> QED BY <1>0, <1>4

LEMMA WatchedTellsAll ==
  ASSUME WatchedInv, NEW t \in WatchedTasks, Watch!At(t, "done"), wOp[t].alone, ~ wOp[t].failed
  PROVE  Watch!Told(t) = Watch!Ought(t) /\ Len(wOp[t].told) = Watch!Cardinality(Watch!Told(t))
<1>1. PICK o : o = wOp[t]
  OBVIOUS
<1>2. Well(o, wRows) /\ o \in Called /\ o.step = "done"
  BY <1>1, WatchedAt
<1>3. PICK s : s = o.told
  OBVIOUS
<1>4. s \in Seq(Events)
  BY <1>2, <1>3 DEF Called
<1>5. Exactly(o, s)
  <2>1. CASE o.effects = {}
    <3>1. s = << >>
      BY <1>2, <1>3, <2>1 DEF Well, Telling
    <3> QED BY <2>1, <3>1 DEF Exactly
  <2>2. CASE o.effects # {}
    <3>1. Line(o) = s
      BY <1>2, <1>3 DEF Line
    <3> QED BY <1>1, <1>2, <2>2, <3>1 DEF Well, Telling, Wrote
  <2> QED BY <2>1, <2>2
<1>6. Watch!Told(t) = BareAll(s)
  BY <1>1, <1>3, <1>4, ToldIsBare
<1>7. Watch!Ought(t) = {e \in o.effects : e.entity \in WatchedHeard}
  BY <1>1 DEF Watch!Ought
<1>8. ASSUME NEW x \in Events PROVE Bare(x).entity = x.entity
  BY DEF Bare, Events
<1>9. \A n \in DOMAIN s : s[n] \in Events
  BY <1>4
<1>10. BareAll(s) = {e \in o.effects : e.entity \in WatchedHeard}
  BY <1>5, <1>8, <1>9 DEF BareAll, Exactly
<1>11. Watch!Cardinality(BareAll(s)) = Len(s)
  <2>1. \A m, n \in DOMAIN s : Bare(s[m]) = Bare(s[n]) => m = n
    BY <1>5 DEF Exactly
  <2> QED BY <1>4, <2>1, BareCount
<1> QED BY <1>1, <1>3, <1>6, <1>7, <1>10, <1>11

LEMMA WatchedTellsTruly ==
  ASSUME WatchedInv, NEW t \in WatchedTasks, Watch!At(t, "done"), ~ wOp[t].failed, wOp[t].entity \in WatchedHeard,
         NEW e \in wOp[t].effects, e.entity = wOp[t].entity
  PROVE  \E k \in DOMAIN wOp[t].told : wOp[t].told[k].id = e.id /\ wOp[t].told[k].after = e.after
<1>1. PICK o : o = wOp[t]
  OBVIOUS
<1>2. Well(o, wRows) /\ o \in Called /\ o.step = "done"
  BY <1>1, WatchedAt
<1>3. Wrote(o)
  BY <1>1, <1>2 DEF Wrote
<1>4. e.id = o.id /\ e.after = OwnAfter(o)
  BY <1>1, <1>2, <1>3 DEF Well, Telling, Truly
<1>5. Len(o.told) > 0 /\ o.told[1].id = o.id /\ o.told[1].after = OwnAfter(o)
  BY <1>1, <1>2, <1>3 DEF Well, Telling
<1>6. o.told \in Seq(Events)
  BY <1>2 DEF Called
<1>7. 1 \in DOMAIN o.told
  BY <1>5, <1>6, LenProperties
<1> QED BY <1>1, <1>4, <1>5, <1>7

LEMMA WatchedInvIsRight == WatchedInv => Watch!ToldRight
<1> SUFFICES ASSUME WatchedInv PROVE Watch!ToldRight
  OBVIOUS
<1>1. Watch!ToldAll
  BY WatchedTellsAll, Zenon DEF Watch!ToldAll
<1>2. Watch!ToldOnlyDone
  BY DEF Watch!ToldOnlyDone, WatchedInv, Well, Telling
<1>3. Watch!ToldTruly
  BY WatchedTellsTruly, Zenon DEF Watch!ToldTruly
<1> QED BY <1>1, <1>2, <1>3 DEF Watch!ToldRight

LEMMA StoresWatchedSteps ==
  ASSUME [StoresNext]_storesVars
  PROVE  part' = part /\ (part = "watched" => [Watch!Next]_watchVars)
BY DEF StoresNext, Rest, storesVars

(* repository.py and its subscribers, for any entities that are deleted or *)
(* set to NULL with a user, any of them listened to, any tasks, any rows,  *)
(* and hooks that may raise: a call during which nobody else wrote tells   *)
(* of every row it changed that has a subscriber, children too, each once, *)
(* as it was before and after, and of nothing else; no call tells of a     *)
(* write that did not happen; and the row itself is told of with what was  *)
(* written, whoever else wrote meanwhile.                                  *)
THEOREM ToldIsRight == StoresSpec => []ToldRight
<1> DEFINE Inv == part = "watched" => WatchedInv
<1>1. StoresInit => Inv
  BY WatchedStarts DEF StoresInit
<1>2. Inv /\ [StoresNext]_storesVars => Inv'
  BY StoresWatchedSteps, WatchedNext
<1>3. Inv => ToldRight
  BY WatchedInvIsRight DEF ToldRight
<1> HIDE DEF Inv
<1> QED BY <1>1, <1>2, <1>3, PTL DEF StoresSpec

-----------------------------------------------------------------------------
(* The circuit breaker. *)
USE DEF CallStates, InFlight, circuit, vars

(* What every way of ending a call does to the part of the state that End  *)
(* assigns.                                                                *)
LEMMA EndType ==
  ASSUME TypeOK, NEW c \in Calls, End(c)
  PROVE  /\ call' \in [Calls -> CallStates]
         /\ left' \in [Calls -> 0..CallTimeout]
         /\ probes' \subseteq {d \in Calls : call'[d] # "idle"}
         /\ db' = db
BY BreakerAssumption DEF TypeOK, End

(* What a counted failure does to the circuit.                             *)
LEMMA FailureType ==
  ASSUME TypeOK, OnFailure
  PROVE  /\ state' \in {"closed", "open", "half_open"}
         /\ failures' \in 0..Threshold
         /\ cool' \in 0..Reset
BY BreakerAssumption DEF TypeOK, OnFailure

(* A counted failure keeps the circuit open exactly when the threshold is  *)
(* reached: a half open circuit has the count of the one that tripped.     *)
LEMMA FailureTrips ==
  ASSUME TypeOK, Tripped, OnFailure
  PROVE  Tripped'
BY BreakerAssumption DEF TypeOK, Tripped, OnFailure

LEMMA TypeInit == Init => TypeOK
BY BreakerAssumption DEF Init, TypeOK

LEMMA TypeStep == TypeOK /\ [Next]_vars => TypeOK'
<1> SUFFICES ASSUME TypeOK, [Next]_vars PROVE TypeOK'
  OBVIOUS
<1>1. ASSUME NEW c \in Calls, Begin(c) PROVE TypeOK'
  BY <1>1, BreakerAssumption DEF TypeOK, Begin, BeforeCall
<1>2. ASSUME NEW c \in Calls, Succeeds(c) PROVE TypeOK'
  BY <1>2, EndType, BreakerAssumption DEF TypeOK, Succeeds, OnSuccess
<1>3. ASSUME NEW c \in Calls, BusinessError(c) PROVE TypeOK'
  BY <1>3, EndType DEF TypeOK, BusinessError
<1>4. ASSUME NEW c \in Calls, ConnectionError(c) PROVE TypeOK'
  BY <1>4, EndType, FailureType DEF TypeOK, ConnectionError
<1>5. ASSUME NEW c \in Calls, TimedOut(c) PROVE TypeOK'
  BY <1>5, EndType, FailureType DEF TypeOK, TimedOut
<1>6. ASSUME NEW c \in Calls, Cancelled(c) PROVE TypeOK'
  BY <1>6, EndType DEF TypeOK, Cancelled
<1>7. CASE DbChanges
  BY <1>7 DEF TypeOK, DbChanges
<1>8. CASE Tick
  <2>1. cool' \in 0..Reset
    BY <1>8, BreakerAssumption DEF TypeOK, Tick
  <2>2. left' \in [Calls -> 0..CallTimeout]
    BY <1>8, BreakerAssumption DEF TypeOK, Tick
  <2> QED
    BY <1>8, <2>1, <2>2 DEF TypeOK, Tick
<1>9. CASE UNCHANGED vars
  BY <1>9 DEF TypeOK
<1> QED
  BY <1>1, <1>2, <1>3, <1>4, <1>5, <1>6, <1>7, <1>8, <1>9 DEF Next, Answered

(* Every reachable state has the types that TypeOK gives, and a probe is   *)
(* always a call that is still in flight.                                  *)
THEOREM TypeCorrect == Spec => []TypeOK
BY TypeInit, TypeStep, PTL DEF Spec

LEMMA TrippedStep == TypeOK /\ Tripped /\ [Next]_vars => Tripped'
<1> SUFFICES ASSUME TypeOK, Tripped, [Next]_vars PROVE Tripped'
  OBVIOUS
<1>1. ASSUME NEW c \in Calls, Begin(c) PROVE Tripped'
  BY <1>1 DEF TypeOK, Tripped, Begin, BeforeCall
<1>2. ASSUME NEW c \in Calls, Succeeds(c) PROVE Tripped'
  BY <1>2, BreakerAssumption DEF Tripped, Succeeds, OnSuccess
<1>3. ASSUME NEW c \in Calls, ConnectionError(c) \/ TimedOut(c) PROVE Tripped'
  BY <1>3, FailureTrips DEF ConnectionError, TimedOut
<1>4. ASSUME NEW c \in Calls, BusinessError(c) \/ Cancelled(c) PROVE Tripped'
  BY <1>4 DEF Tripped, BusinessError, Cancelled
<1>5. CASE DbChanges \/ Tick \/ UNCHANGED vars
  BY <1>5 DEF Tripped, DbChanges, Tick
<1> QED
  BY <1>1, <1>2, <1>3, <1>4, <1>5 DEF Next, Answered

(* The circuit is closed exactly as long as fewer than Threshold transient *)
(* failures were counted since the last success, in every interleaving of  *)
(* any number of calls.                                                    *)
THEOREM CircuitTripped == Spec => []Tripped
<1>1. Init => Tripped
  BY BreakerAssumption DEF Init, Tripped
<1> QED
  BY <1>1, TypeCorrect, TrippedStep, PTL DEF Spec
=============================================================================
