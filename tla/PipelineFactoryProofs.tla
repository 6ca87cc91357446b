----------------------- MODULE PipelineFactoryProofs -----------------------
(***************************************************************************)
(* Theorems about PipelineFactory, for any pipelines, any configurations   *)
(* and any finite number of callbacks: the types of its variables, that    *)
(* functions in use stay mapped, that main needs no lock on the maps, that *)
(* what a thread has found stays true, and that no registration is stuck.  *)
(***************************************************************************)
EXTENDS PipelineFactory, FiniteSetTheorems, TLAPS

Types ==
    /\ file \in [Pipelines -> Files]
    /\ image \in [Pipelines -> Images]
    /\ functions \in [Kinds -> SUBSET Pipelines]
    /\ stage \in Kinds \cup {"wait"}
    /\ pc \in [Threads -> Labels]
    /\ todo \in [Threads -> Seq(Pipelines)]
    /\ \A t \in Threads : pc[t] # "idle" => todo[t] # << >>
    /\ process \in {"up", "aborted", "crashed"}
    /\ raced \in BOOLEAN

(***************************************************************************)
(* That a count of handles stays a natural number is not a matter of types *)
(* alone: a thread that closes one must have opened one.                   *)
(***************************************************************************)
Openers(p) == {t \in Threads : pc[t] = "symbol" /\ Name(t) = p}

HandlesInv ==
    /\ handles \in [Pipelines -> Nat]
    /\ \A p \in Pipelines : Cardinality(Openers(p)) <= handles[p]

\* A function that is about to be used lies in its library already.
MappedInv ==
    /\ FunctionsAreMapped
    /\ \A t \in Threads :
          pc[t] = "insert" => image[Name(t)] \in {"nullFunction", "plugin"}

\* No callback runs before the proxies are registered.
CallbacksLate ==
    stage \in {"proxy", "protocol"} => \A c \in Callbacks : pc[c] = "idle"

-----------------------------------------------------------------------------
LEMMA EnterLabel ==
    ASSUME NEW work
    PROVE  /\ Enter(work) \in {"idle", "check"}
           /\ Enter(work) # "idle" => work # << >>
BY DEF Enter

LEMMA InitTypes == Init => Types
<1> SUFFICES ASSUME Init PROVE Types
  OBVIOUS
<1>1. todo \in [Threads -> Seq(Pipelines)]
  <2>1. << >> \in Seq(Pipelines) /\ ProxyPipelines \in Seq(Pipelines)
    BY PipelinesAssumption
  <2> QED
    BY <2>1 DEF Init
<1>2. /\ pc \in [Threads -> Labels]
      /\ \A t \in Threads : pc[t] # "idle" => todo[t] # << >>
  BY EnterLabel DEF Init, Labels
<1> QED
  BY <1>1, <1>2 DEF Init, Types, Kinds, Images

LEMMA NameType ==
    ASSUME Types, NEW t \in Threads, pc[t] # "idle"
    PROVE  /\ Name(t) \in Pipelines
           /\ Tail(todo[t]) \in Seq(Pipelines)
<1>1. todo[t] \in Seq(Pipelines) /\ todo[t] # << >>
  BY DEF Types
<1> QED
  BY <1>1 DEF Name

LEMMA ThrowTypes ==
    ASSUME Types, NEW t \in Threads, Throw(t)
    PROVE  /\ pc' \in [Threads -> Labels]
           /\ todo' \in [Threads -> Seq(Pipelines)]
           /\ \A u \in Threads : pc'[u] # "idle" => todo'[u] # << >>
           /\ process' \in {"up", "aborted", "crashed"}
<1>1. << >> \in Seq(Pipelines)
  OBVIOUS
<1>2. process' \in {"up", "aborted", "crashed"}
  BY DEF Throw, Types
<1> QED
  BY <1>1, <1>2 DEF Types, Throw, Goto, Labels

LEMMA StepTypes == Types /\ [Next]_vars => Types'
<1> SUFFICES ASSUME Types, [Next]_vars PROVE Types'
  OBVIOUS
<1>1. ASSUME NEW t \in Threads, FindLibrary(t) PROVE Types'
  <2>1. CASE Throw(t)
    BY <1>1, <2>1, ThrowTypes DEF Types, FindLibrary, linked
  <2>2. CASE /\ Goto(t, IF Name(t) \in functions[Kind(t)] THEN "get" ELSE "open")
             /\ UNCHANGED <<todo, process>>
    <3>1. pc[t] = "check"
      BY <1>1 DEF FindLibrary, At
    <3> QED
      BY <1>1, <2>2, <3>1 DEF Types, FindLibrary, Goto, Labels, linked
  <2> QED
    BY <1>1, <2>1, <2>2 DEF FindLibrary
<1>2. ASSUME NEW t \in Threads, Dlopen(t) PROVE Types'
  <2>1. CASE Throw(t) /\ UNCHANGED linked
    BY <1>2, <2>1, ThrowTypes DEF Types, Dlopen, linked
  <2>2. CASE /\ image[Name(t)] # "none" \/ file[Name(t)] # "unusable"
             /\ image' = [image EXCEPT
                             ![Name(t)] = IF @ = "none" THEN file[Name(t)] ELSE @]
             /\ Goto(t, "symbol")
             /\ UNCHANGED <<todo, process>>
    <3>1. pc[t] = "open"
      BY <1>2 DEF Dlopen, At
    <3>2. Name(t) \in Pipelines
      BY <3>1, NameType
    <3>3. image' \in [Pipelines -> Images]
      BY <2>2, <3>2 DEF Types, Files, Images
    <3> QED
      BY <1>2, <2>2, <3>1, <3>3 DEF Types, Dlopen, Goto, Labels
  <2> QED
    BY <1>2, <2>1, <2>2 DEF Dlopen
<1>3. ASSUME NEW t \in Threads, Dlsym(t) PROVE Types'
  <2>1. CASE Dlclose(Name(t)) /\ Throw(t)
    <3>1. image' \in [Pipelines -> Images]
      BY <2>1 DEF Types, Dlclose, Images
    <3> QED
      BY <1>3, <2>1, <3>1, ThrowTypes DEF Types, Dlsym
  <2>2. CASE Goto(t, "insert") /\ UNCHANGED <<linked, todo, process>>
    <3>1. pc[t] = "symbol"
      BY <1>3 DEF Dlsym, At
    <3> QED
      BY <1>3, <2>2, <3>1 DEF Types, Dlsym, Goto, Labels, linked
  <2> QED
    BY <1>3, <2>1, <2>2 DEF Dlsym
<1>4. ASSUME NEW t \in Threads, InsertFunction(t) PROVE Types'
  <2>1. pc[t] = "insert" /\ Name(t) \in Pipelines
    BY <1>4, NameType DEF InsertFunction, At
  <2>2. functions' \in [Kinds -> SUBSET Pipelines]
    BY <1>4, <2>1 DEF Types, InsertFunction
  <2> QED
    BY <1>4, <2>1, <2>2 DEF Types, InsertFunction, Goto, Labels, linked
<1>5. ASSUME NEW t \in Threads, GetPipeline(t) PROVE Types'
  <2>1. Tail(todo[t]) \in Seq(Pipelines)
    BY <1>5, NameType DEF GetPipeline, At
  <2>2. CASE Throw(t)
    BY <1>5, <2>2, ThrowTypes DEF Types, GetPipeline, linked
  <2>3. CASE ~Throw(t)
    BY <1>5, <2>1, <2>3, EnterLabel DEF Types, GetPipeline, Goto, Labels, linked
  <2> QED
    BY <2>2, <2>3
<1>6. CASE NextStage
  <2>1. Configured(stage') \in Seq(Pipelines)
    BY PipelinesAssumption DEF Configured
  <2>2. stage' \in Kinds \cup {"wait"}
    BY <1>6 DEF NextStage, StageAfter, Kinds
  <2>3. Main \in Threads
    BY DEF Threads
  <2> QED
    BY <1>6, <2>1, <2>2, <2>3, EnterLabel DEF Types, NextStage, Goto, Labels, linked
<1>7. ASSUME NEW c \in Callbacks, Reload(c) PROVE Types'
  <2>1. c \in Threads
    BY DEF Threads
  <2>2. PICK work \in Reloads : /\ todo' = [todo EXCEPT ![c] = work]
                                /\ Goto(c, Enter(work))
    BY <1>7 DEF Reload
  <2>3. work \in Seq(Pipelines)
    BY PipelinesAssumption
  <2> QED
    BY <1>7, <2>1, <2>2, <2>3, EnterLabel DEF Types, Reload, Goto, Labels, linked
<1>8. CASE Deploy
  BY <1>8 DEF Types, Deploy, linked
<1>9. CASE Race
  BY <1>9 DEF Types, Race, linked
<1>10. CASE UNCHANGED vars
  BY <1>10 DEF Types, vars
<1>11. ASSUME NEW t \in Threads, MissEntry(t) PROVE Types'
  <2>1. pc[t] # "idle"
    BY <1>11 DEF MissEntry, At
  <2>2. Tail(todo[t]) \in Seq(Pipelines) /\ todo[t] # << >>
    BY <2>1, NameType DEF Types
  <2> QED
    BY <1>11, <2>2, EnterLabel DEF Types, MissEntry, Goto, Labels, linked
<1> QED
  BY <1>1, <1>2, <1>3, <1>4, <1>5, <1>6, <1>7, <1>8, <1>9, <1>10, <1>11
     DEF Next, Register

-----------------------------------------------------------------------------
LEMMA ThreadsFinite == IsFiniteSet(Threads)
BY ThreadsAssumption, FS_AddElement DEF Threads

LEMMA OpenersFinite ==
    ASSUME NEW p
    PROVE  /\ IsFiniteSet(Openers(p))
           /\ Cardinality(Openers(p)) \in Nat
BY ThreadsFinite, FS_Subset, FS_CardinalityType DEF Openers

LEMMA InitHandles == Init => HandlesInv
<1> SUFFICES ASSUME Init PROVE HandlesInv
  OBVIOUS
<1>1. \A p \in Pipelines : Openers(p) = {}
  BY EnterLabel DEF Init, Openers
<1>2. handles = [p \in Pipelines |-> 0] /\ handles \in [Pipelines -> Nat]
  BY DEF Init
<1>3. Cardinality({}) = 0
  BY FS_EmptySet
<1> QED
  BY <1>1, <1>2, <1>3 DEF HandlesInv

\* A step that opens and closes nothing, and after which no thread is new at
\* "symbol", keeps the count.
LEMMA UntouchedHandles ==
    ASSUME HandlesInv, handles' = handles,
           \A p \in Pipelines : Openers(p)' \subseteq Openers(p)
    PROVE  HandlesInv'
<1>1. ASSUME NEW p \in Pipelines
      PROVE  Cardinality(Openers(p)') <= handles[p]
  <2>1. Cardinality(Openers(p)') <= Cardinality(Openers(p))
    BY OpenersFinite, FS_Subset
  <2>2. Cardinality(Openers(p)') \in Nat
    BY OpenersFinite, FS_Subset, FS_CardinalityType
  <2> QED
    BY <2>1, <2>2, OpenersFinite DEF HandlesInv
<1> QED
  BY <1>1 DEF HandlesInv

LEMMA StepHandles == Types /\ HandlesInv /\ [Next]_vars => HandlesInv'
<1> SUFFICES ASSUME Types, HandlesInv, [Next]_vars PROVE HandlesInv'
  OBVIOUS
<1>1. /\ pc \in [Threads -> Labels]
      /\ todo \in [Threads -> Seq(Pipelines)]
      /\ handles \in [Pipelines -> Nat]
      /\ Main \in Threads /\ Callbacks \subseteq Threads
  BY DEF Types, HandlesInv, Threads
<1>2. ASSUME NEW t \in Threads, FindLibrary(t) PROVE HandlesInv'
  <2>1. \A u \in Threads : /\ pc'[u] = "symbol" => pc[u] = "symbol" /\ u # t
                           /\ u # t => todo'[u] = todo[u]
    BY <1>1, <1>2 DEF FindLibrary, At, Throw, Goto
  <2> QED
    BY <1>2, <2>1, UntouchedHandles DEF FindLibrary, linked, Openers, Name
<1>3. ASSUME NEW t \in Threads, Dlopen(t), Throw(t), UNCHANGED linked
      PROVE  HandlesInv'
  <2>1. \A u \in Threads : /\ pc'[u] = "symbol" => pc[u] = "symbol" /\ u # t
                           /\ u # t => todo'[u] = todo[u]
    BY <1>1, <1>3 DEF Dlopen, At, Throw, Goto
  <2> QED
    BY <1>3, <2>1, UntouchedHandles DEF linked, Openers, Name
<1>4. ASSUME NEW t \in Threads, At(t, "open"),
             handles' = [handles EXCEPT ![Name(t)] = @ + 1],
             Goto(t, "symbol"), UNCHANGED todo
      PROVE  HandlesInv'
  <2>1. PICK name \in Pipelines : name = Name(t)
    BY <1>4, NameType DEF At
  <2>2. /\ handles' \in [Pipelines -> Nat] /\ handles'[name] = handles[name] + 1
        /\ \A p \in Pipelines \ {name} : handles'[p] = handles[p]
    BY <1>1, <1>4, <2>1
  <2>3. ASSUME NEW p \in Pipelines \ {name} PROVE Openers(p)' = Openers(p)
    BY <1>1, <1>4, <2>1 DEF Openers, Name, At, Goto
  <2>4. Openers(name)' = Openers(name) \cup {t} /\ t \notin Openers(name)
    BY <1>1, <1>4, <2>1 DEF Openers, Name, At, Goto
  <2>5. Cardinality(Openers(name)') = Cardinality(Openers(name)) + 1
    BY <2>4, OpenersFinite, FS_AddElement
  <2>6. Cardinality(Openers(name)) \in Nat /\ handles[name] \in Nat
        /\ Cardinality(Openers(name)) <= handles[name]
    BY <1>1, OpenersFinite DEF HandlesInv
  <2>7. Cardinality(Openers(name)') <= handles'[name]
    BY <2>2, <2>5, <2>6
  <2>8. ASSUME NEW p \in Pipelines \ {name}
        PROVE  Cardinality(Openers(p)') <= handles'[p]
    BY <2>2, <2>3 DEF HandlesInv
  <2> QED
    BY <2>2, <2>7, <2>8 DEF HandlesInv
<1>5. ASSUME NEW t \in Threads, At(t, "symbol"), Dlclose(Name(t)), Throw(t)
      PROVE  HandlesInv'
  <2>1. PICK name \in Pipelines : name = Name(t)
    BY <1>5, NameType DEF At
  <2> DEFINE old == Openers(name)
             rest == old \ {t}
  <2>2. Openers(name)' \subseteq rest /\ t \in old
    BY <1>1, <1>5, <2>1 DEF Openers, Name, At, Throw, Goto
  <2>3. \A p \in Pipelines : Openers(p)' \subseteq Openers(p)
    BY <1>1, <1>5 DEF Openers, Name, At, Throw, Goto
  <2>4. ASSUME NEW p \in Pipelines
        PROVE  /\ Cardinality(Openers(p)') \in Nat
               /\ Cardinality(Openers(p)) \in Nat
               /\ Cardinality(Openers(p)') <= Cardinality(Openers(p))
    BY <2>3, OpenersFinite, FS_Subset, FS_CardinalityType
  <2>5. /\ Cardinality(rest) = Cardinality(old) - 1 /\ IsFiniteSet(rest)
        /\ Cardinality(old) \in Nat
    BY <2>2, OpenersFinite, FS_RemoveElement
  <2>6. Cardinality(rest) \in Nat
    BY <2>5, FS_CardinalityType
  <2>7. Cardinality(Openers(name)') <= Cardinality(rest)
    BY <2>2, <2>5, FS_Subset
  <2>8. Cardinality(Openers(name)') \in Nat
    BY <2>4
  <2>9. handles' = [handles EXCEPT ![name] = @ - 1]
    BY <1>5, <2>1 DEF Dlclose
  <2>10. Cardinality(old) <= handles[name] /\ handles[name] \in Nat
    BY <1>1 DEF HandlesInv
  <2>11. handles[name] - 1 \in Nat /\ Cardinality(rest) <= handles[name] - 1
    BY <2>5, <2>6, <2>10
  <2>12. /\ handles' \in [Pipelines -> Nat] /\ handles'[name] = handles[name] - 1
         /\ \A p \in Pipelines \ {name} : handles'[p] = handles[p]
    BY <1>1, <2>9, <2>11
  <2>13. Cardinality(Openers(name)') <= handles'[name]
    BY <2>6, <2>7, <2>8, <2>11, <2>12
  <2>14. ASSUME NEW p \in Pipelines \ {name}
         PROVE  Cardinality(Openers(p)') <= handles'[p]
    <3>1. /\ Cardinality(Openers(p)) <= handles[p]
          /\ handles'[p] = handles[p] /\ handles[p] \in Nat
      BY <1>1, <2>12 DEF HandlesInv
    <3> QED
      BY <2>4, <3>1
  <2> QED
    BY <2>12, <2>13, <2>14 DEF HandlesInv
<1>6. ASSUME NEW t \in Threads,
             Goto(t, "insert") \/ Goto(t, "get") \/ Goto(t, "open"),
             UNCHANGED <<linked, todo>>
      PROVE  HandlesInv'
  BY <1>1, <1>6, UntouchedHandles DEF linked, Openers, Name, Goto
<1>7. ASSUME NEW t \in Threads, At(t, "idle") \/ At(t, "get"), UNCHANGED linked,
             NEW work, todo' = [todo EXCEPT ![t] = work], Goto(t, Enter(work))
      PROVE  HandlesInv'
  <2>1. \A u \in Threads : /\ pc'[u] = "symbol" => pc[u] = "symbol" /\ u # t
                           /\ u # t => todo'[u] = todo[u]
    BY <1>1, <1>7, EnterLabel DEF At, Goto
  <2> QED
    BY <1>7, <2>1, UntouchedHandles DEF linked, Openers, Name
<1>8. ASSUME NEW t \in Threads, Register(t) PROVE HandlesInv'
  <2>1. CASE GetPipeline(t)
    <3>1. CASE Throw(t)
      <4>1. \A u \in Threads : /\ pc'[u] = "symbol" => pc[u] = "symbol" /\ u # t
                               /\ u # t => todo'[u] = todo[u]
        BY <1>1, <3>1 DEF Throw, Goto
      <4> QED
        BY <2>1, <4>1, UntouchedHandles DEF GetPipeline, linked, Openers, Name
    <3>2. CASE ~Throw(t)
      BY <2>1, <1>7, <3>2 DEF GetPipeline
    <3> QED
      BY <3>1, <3>2
  <2> QED
    BY <1>2, <1>3, <1>4, <1>5, <1>6, <1>8, <2>1
       DEF Register, Dlopen, Dlsym, InsertFunction
<1>9. CASE NextStage
  BY <1>1, <1>7, <1>9 DEF NextStage
<1>10. ASSUME NEW c \in Callbacks, Reload(c) PROVE HandlesInv'
  BY <1>1, <1>7, <1>10 DEF Reload
<1>11. CASE Deploy \/ Race \/ UNCHANGED vars
  BY <1>11, UntouchedHandles DEF Deploy, Race, vars, linked, Openers, Name
<1>12. ASSUME NEW t \in Threads, MissEntry(t) PROVE HandlesInv'
  BY <1>6, <1>7, <1>12 DEF MissEntry
<1> QED
  BY <1>8, <1>9, <1>10, <1>11, <1>12 DEF Next

LEMMA TypesAndHandles == Spec => [](Types /\ HandlesInv)
BY InitTypes, StepTypes, InitHandles, StepHandles, PTL DEF Spec

\* The variables of PipelineFactory keep their types; above all, no library is
\* closed more often than it was opened, whatever fails on whichever thread.
THEOREM TypeCorrect == Spec => []TypeOK
<1>1. Types /\ HandlesInv => TypeOK
  BY DEF Types, HandlesInv, TypeOK
<1> QED
  BY <1>1, TypesAndHandles, PTL

-----------------------------------------------------------------------------
LEMMA InitMapped == Init => MappedInv
BY EnterLabel DEF Init, MappedInv, FunctionsAreMapped, Kinds

\* A library whose symbol is null is never closed.
LEMMA NullStays ==
    ASSUME Types, [Next]_vars, NEW p \in Pipelines, image[p] = "nullFunction"
    PROVE  image'[p] = "nullFunction"
<1>1. image \in [Pipelines -> Images]
  BY DEF Types
<1>2. ASSUME NEW t \in Threads, Register(t) PROVE image'[p] = "nullFunction"
  BY <1>1, <1>2 DEF Register, FindLibrary, Dlopen, Dlsym, Dlclose, InsertFunction,
     GetPipeline, linked
<1> QED
  BY <1>2 DEF Next, NextStage, Reload, Deploy, Race, MissEntry, vars, linked

LEMMA StepMapped == Types /\ MappedInv /\ [Next]_vars => MappedInv'
<1> SUFFICES ASSUME Types, MappedInv, [Next]_vars PROVE MappedInv'
  OBVIOUS
<1>1. /\ pc \in [Threads -> Labels]
      /\ image \in [Pipelines -> Images]
      /\ functions \in [Kinds -> SUBSET Pipelines]
      /\ todo \in [Threads -> Seq(Pipelines)]
      /\ Main \in Threads /\ Callbacks \subseteq Threads
  BY DEF Types, Threads
\* A mapped plugin stays mapped.
<1>2. \A p \in Pipelines : image[p] = "plugin" => image'[p] = "plugin"
  <2>1. ASSUME NEW t \in Threads, Register(t)
        PROVE  \A p \in Pipelines : image[p] = "plugin" => image'[p] = "plugin"
    BY <1>1, <2>1 DEF Register, FindLibrary, Dlopen, Dlsym, Dlclose, InsertFunction,
       GetPipeline, linked
  <2> QED
    BY <2>1 DEF Next, NextStage, Reload, Deploy, Race, MissEntry, vars, linked
<1>3. ASSUME NEW t \in Threads, pc[t] = "insert"
      PROVE  /\ Name(t) \in Pipelines
             /\ image'[Name(t)] \in {"nullFunction", "plugin"}
  BY <1>2, <1>3, NullStays, NameType DEF MappedInv
<1>4. FunctionsAreMapped'
  <2>1. ASSUME NEW k \in Kinds, NEW p \in functions'[k], p \notin functions[k]
        PROVE  image'[p] = "plugin"
    <3>1. PICK t \in Threads : InsertFunction(t)
      BY <2>1 DEF Next, Register, FindLibrary, Dlopen, Dlsym, GetPipeline, NextStage,
         Reload, Deploy, Race, MissEntry, vars
    <3>2. /\ p = Name(t) /\ pc[t] = "insert" /\ image[Name(t)] # "nullFunction"
          /\ UNCHANGED image
      BY <1>1, <2>1, <3>1 DEF InsertFunction, At, linked
    <3> QED
      BY <3>2 DEF MappedInv
  <2>2. ASSUME NEW k \in Kinds, NEW p \in functions[k] PROVE image'[p] = "plugin"
    BY <1>1, <1>2 DEF MappedInv, FunctionsAreMapped
  <2> QED
    BY <2>1, <2>2 DEF FunctionsAreMapped
<1>5. ASSUME NEW u \in Threads, pc'[u] = "insert"
      PROVE  image'[Name(u)'] \in {"nullFunction", "plugin"}
  <2>1. CASE pc[u] = "insert"
    <3>1. todo'[u] = todo[u]
      <4>1. ASSUME NEW t \in Threads, Register(t) PROVE todo'[u] = todo[u]
        BY <1>1, <1>5, <2>1, <4>1 DEF Register, FindLibrary, Dlopen, Dlsym,
           InsertFunction, GetPipeline, Throw, Goto, At
      <4>2. CASE NextStage
        BY <1>1, <2>1, <4>2 DEF NextStage, At
      <4>3. ASSUME NEW c \in Callbacks, Reload(c) PROVE todo'[u] = todo[u]
        BY <1>1, <2>1, <4>3 DEF Reload, At
      <4>4. ASSUME NEW t \in Threads, MissEntry(t) PROVE todo'[u] = todo[u]
        BY <1>1, <2>1, <4>4 DEF MissEntry, At
      <4> QED
        BY <4>1, <4>2, <4>3, <4>4 DEF Next, Deploy, Race, vars
    <3> QED
      BY <1>3, <2>1, <3>1 DEF Name
  <2>2. CASE pc[u] # "insert"
    <3>1. /\ Dlsym(u) /\ UNCHANGED <<linked, todo>>
          /\ image[Name(u)] \in {"nullFunction", "plugin"}
      <4>1. ASSUME NEW t \in Threads, Register(t)
            PROVE  /\ Dlsym(u) /\ UNCHANGED <<linked, todo>>
                   /\ image[Name(u)] \in {"nullFunction", "plugin"}
        BY <1>1, <1>5, <2>2, <4>1, EnterLabel DEF Register, FindLibrary, Dlopen, Dlsym,
           InsertFunction, GetPipeline, Throw, Goto, At
      <4>2. ~NextStage
        BY <1>1, <1>5, <2>2, EnterLabel DEF NextStage, Goto
      <4>3. \A c \in Callbacks : ~Reload(c)
        BY <1>1, <1>5, <2>2, EnterLabel DEF Reload, Goto
      <4>4. ~(Deploy \/ Race \/ UNCHANGED vars)
        BY <1>5, <2>2 DEF Deploy, Race, vars
      <4>5. \A t \in Threads : ~MissEntry(t)
        BY <1>1, <1>5, <2>2, EnterLabel DEF MissEntry, Goto
      <4> QED
        BY <4>1, <4>2, <4>3, <4>4, <4>5 DEF Next
    <3> QED
      BY <3>1 DEF linked, Name
  <2> QED
    BY <2>1, <2>2
<1> QED
  BY <1>4, <1>5 DEF MappedInv

\* A function that sockets call stays mapped, whatever becomes of its file and
\* however the registrations of any number of threads interleave.
THEOREM FunctionsStayMapped == Spec => []FunctionsAreMapped
<1>1. MappedInv => FunctionsAreMapped
  BY DEF MappedInv
<1> QED
  BY <1>1, TypesAndHandles, InitMapped, StepMapped, PTL DEF Spec

-----------------------------------------------------------------------------
LEMMA InitLate == Init => CallbacksLate
<1> SUFFICES ASSUME Init, NEW c \in Callbacks PROVE pc[c] = "idle"
  BY DEF CallbacksLate
<1>1. c \in Threads /\ c # Main
  BY ThreadsAssumption DEF Threads
<1> QED
  BY <1>1 DEF Init, Enter

LEMMA StepLate == Types /\ CallbacksLate /\ [Next]_vars => CallbacksLate'
<1> SUFFICES ASSUME Types, CallbacksLate, [Next]_vars, NEW c \in Callbacks,
                    stage' \in {"proxy", "protocol"}
             PROVE  pc'[c] = "idle"
  BY DEF CallbacksLate
<1>1. c \in Threads /\ c # Main /\ pc \in [Threads -> Labels]
  BY ThreadsAssumption DEF Threads, Types
<1>2. CASE NextStage
  BY <1>1, <1>2 DEF NextStage, StageAfter, Kinds, Goto, CallbacksLate
<1>3. ASSUME NEW t \in Threads, Register(t) PROVE pc'[c] = "idle"
  <2>1. stage \in {"proxy", "protocol"} /\ pc[c] = "idle"
    BY <1>3 DEF Register, FindLibrary, Dlopen, Dlsym, InsertFunction, GetPipeline,
       CallbacksLate
  <2>2. t # c
    BY <1>3, <2>1 DEF Register, FindLibrary, Dlopen, Dlsym, InsertFunction,
       GetPipeline, At
  <2> QED
    BY <1>1, <1>3, <2>1, <2>2 DEF Register, FindLibrary, Dlopen, Dlsym,
       InsertFunction, GetPipeline, Throw, Goto
<1>4. ASSUME NEW d \in Callbacks, Reload(d) PROVE FALSE
  BY <1>4 DEF Reload
<1>5. CASE Deploy \/ Race \/ UNCHANGED vars
  BY <1>5 DEF Deploy, Race, vars, CallbacksLate
<1>6. ASSUME NEW t \in Threads, MissEntry(t) PROVE pc'[c] = "idle"
  <2>1. pc[c] = "idle" /\ t # c
    BY <1>6 DEF MissEntry, At, CallbacksLate
  <2> QED
    BY <1>1, <1>6, <2>1 DEF MissEntry, Goto
<1> QED
  BY <1>2, <1>3, <1>4, <1>5, <1>6 DEF Next

LEMMA LateNeverRace == CallbacksLate => MainNeverRaces
<1> SUFFICES ASSUME CallbacksLate, NEW c \in Callbacks,
                    Racing(Main, c) \/ Racing(c, Main)
             PROVE  FALSE
  BY DEF MainNeverRaces
<1>1. c # Main
  BY ThreadsAssumption
<1>2. stage = "proxy"
  BY <1>1 DEF Racing, Kind
<1>3. pc[c] # "idle"
  BY DEF Racing, Reads, Writes, At
<1> QED
  BY <1>2, <1>3 DEF CallbacksLate

\* main and a callback never meet in a map of the factory: no callback runs
\* before main has left the map of the proxies.
THEOREM MainRunsUnhindered == Spec => []MainNeverRaces
BY LateNeverRace, TypesAndHandles, InitLate, StepLate, PTL DEF Spec

\* So it is callbacks that miss each other's entries.
LEMMA CallbacksMiss ==
    ASSUME CallbacksLate, NEW t \in Threads, MissEntry(t)
    PROVE  t \in Callbacks
<1>1. PICK u \in Threads : Racing(u, t)
  BY DEF MissEntry
<1>2. u # t
  BY <1>1 DEF Racing
<1> QED
  BY <1>1, <1>2, LateNeverRace DEF MainNeverRaces, Threads

-----------------------------------------------------------------------------
(***************************************************************************)
(* The account of the handles.  A library is open once for each map that   *)
(* has its function and once for each thread between dlopen and the        *)
(* insertion.  Only callbacks find that another one was faster, and then   *)
(* one of them was first: what is open beyond that account, and what the   *)
(* callbacks still at it may add, is less than their number.  A library    *)
(* whose symbol is null has no such account.                               *)
(***************************************************************************)
Holding(p) == {t \in Threads : pc[t] \in {"symbol", "insert"} /\ Name(t) = p}

Trying(p) ==
    {c \in Callbacks : pc[c] \in {"open", "symbol", "insert"} /\ Name(c) = p}

Held(p) == Cardinality(Holders(p)) + Cardinality(Holding(p))

Balanced(p) ==
    /\ p \notin functions["proxy"] => handles[p] = Held(p)
    /\ p \in functions["proxy"] =>
          /\ Held(p) <= handles[p]
          /\ handles[p] + Cardinality(Trying(p)) < Held(p) + Cardinality(Callbacks)

AccountInv ==
    ~raced => \A p \in Pipelines : image[p] # "nullFunction" => Balanced(p)

\* main alone writes the maps of the protocols and of the gateways, and while
\* it writes that of the proxies no callback runs.
MainInv ==
    /\ stage = "wait" => pc[Main] = "idle"
    /\ pc[Main] \in {"open", "symbol", "insert"} => Name(Main) \notin functions[stage]

LEMMA InitMain == Init => MainInv
BY EnterLabel DEF Init, MainInv, Threads

LEMMA StepMain ==
    Types /\ CallbacksLate /\ MainInv /\ [Next]_vars => MainInv'
<1> SUFFICES ASSUME Types, CallbacksLate, MainInv, [Next]_vars PROVE MainInv'
  OBVIOUS
<1>1. /\ pc \in [Threads -> Labels] /\ Main \in Threads
      /\ todo \in [Threads -> Seq(Pipelines)]
      /\ functions \in [Kinds -> SUBSET Pipelines]
      /\ stage \in Kinds \cup {"wait"}
  BY DEF Types, Threads
<1>2. CASE FindLibrary(Main)
  <2>1. /\ stage # "wait" /\ pc'[Main] \in {"idle", "get", "open"}
        /\ UNCHANGED <<functions, stage>>
    BY <1>1, <1>2 DEF FindLibrary, At, Goto, Throw, MainInv
  <2>2. pc'[Main] = "open" => todo' = todo /\ Name(Main) \notin functions[stage]
    BY <1>1, <1>2 DEF FindLibrary, Goto, Throw, Kind
  <2> QED
    BY <2>1, <2>2 DEF MainInv, Name
<1>3. CASE Dlopen(Main) \/ Dlsym(Main)
  <2>1. /\ stage # "wait" /\ pc[Main] \in {"open", "symbol"}
        /\ UNCHANGED <<functions, stage>>
        /\ pc'[Main] = "idle" \/ todo' = todo
    BY <1>1, <1>3 DEF Dlopen, Dlsym, At, Goto, Throw, MainInv
  <2> QED
    BY <2>1 DEF MainInv, Name
<1>4. CASE InsertFunction(Main) \/ GetPipeline(Main)
  <2>1. /\ stage # "wait" /\ pc'[Main] \in {"get", "idle", "check"}
        /\ UNCHANGED stage
    BY <1>1, <1>4, EnterLabel DEF InsertFunction, GetPipeline, At, Goto, Throw, MainInv
  <2> QED
    BY <2>1 DEF MainInv
<1>5. ASSUME NEW c \in Callbacks, Register(c) \/ Reload(c) \/ MissEntry(c)
      PROVE  MainInv'
  <2>1. c # Main /\ c \in Threads
    BY ThreadsAssumption DEF Threads
  <2>2. /\ pc'[Main] = pc[Main] /\ todo'[Main] = todo[Main] /\ UNCHANGED stage
    BY <1>1, <1>5, <2>1 DEF Register, FindLibrary, Dlopen, Dlsym, InsertFunction,
       GetPipeline, Reload, MissEntry, Goto, Throw
  <2>3. stage \in Kinds => functions'[stage] = functions[stage]
    <3>1. CASE InsertFunction(c)
      <4>1. stage # "proxy"
        BY <3>1 DEF InsertFunction, At, CallbacksLate
      <4>2. \A k \in Kinds \ {"proxy"} : functions'[k] = functions[k]
        BY <1>1, <2>1, <3>1 DEF InsertFunction, Kind
      <4> QED
        BY <4>1, <4>2
    <3> QED
      BY <1>5, <3>1 DEF Register, FindLibrary, Dlopen, Dlsym, GetPipeline, Reload,
         MissEntry
  <2> QED
    BY <1>1, <2>2, <2>3 DEF MainInv, Name
<1>6. CASE NextStage
  <2>1. /\ stage' \in {"protocol", "gateway", "wait"}
        /\ pc'[Main] = Enter(Configured(stage'))
    BY <1>1, <1>6 DEF NextStage, StageAfter, Kinds, Goto
  <2>2. stage' = "wait" => pc'[Main] = "idle"
    BY <2>1 DEF Configured, Enter
  <2> QED
    BY <2>1, <2>2, EnterLabel DEF MainInv
<1>7. CASE Deploy \/ Race \/ UNCHANGED vars
  BY <1>7 DEF Deploy, Race, vars, MainInv, Name
<1>8. ASSUME NEW t \in Threads, MissEntry(t) PROVE t \in Callbacks
  BY <1>8, CallbacksMiss
<1> QED
  BY <1>2, <1>3, <1>4, <1>5, <1>6, <1>7, <1>8 DEF Next, Register, Threads

LEMMA MainInvariant == Spec => [](CallbacksLate /\ MainInv)
BY InitLate, StepLate, InitMain, StepMain, TypesAndHandles, PTL DEF Spec

-----------------------------------------------------------------------------
LEMMA Sizes ==
    ASSUME NEW p
    PROVE  /\ IsFiniteSet(Holders(p)) /\ Cardinality(Holders(p)) \in Nat
           /\ IsFiniteSet(Holding(p)) /\ Cardinality(Holding(p)) \in Nat
           /\ IsFiniteSet(Trying(p)) /\ Cardinality(Trying(p)) \in Nat
           /\ Cardinality(Callbacks) \in Nat
<1>1. IsFiniteSet(Kinds)
  <2>1. IsFiniteSet({}) /\ Kinds = (({} \cup {"proxy"}) \cup {"protocol"}) \cup {"gateway"}
    BY FS_EmptySet DEF Kinds
  <2> QED
    BY <2>1, FS_AddElement
<1>2. IsFiniteSet(Holders(p)) /\ IsFiniteSet(Holding(p)) /\ IsFiniteSet(Trying(p))
  <2>1. Holders(p) \subseteq Kinds /\ Holding(p) \subseteq Threads
        /\ Trying(p) \subseteq Callbacks
    BY DEF Holders, Holding, Trying
  <2> QED
    BY <1>1, <2>1, ThreadsFinite, ThreadsAssumption, FS_Subset
<1> QED
  BY <1>2, ThreadsAssumption, FS_CardinalityType

\* The account of a library that a step does not concern.
LEMMA AccountKept ==
    ASSUME NEW p, Balanced(p), handles[p] \in Nat, handles'[p] = handles[p],
           Holders(p)' = Holders(p), Holding(p)' = Holding(p),
           p \in functions'["proxy"] => p \in functions["proxy"],
           p \in functions["proxy"] => p \in functions'["proxy"],
           p \in functions["proxy"] => Trying(p)' \subseteq Trying(p)
    PROVE  Balanced(p)'
<1>1. Held(p)' = Held(p) /\ Held(p) \in Nat
  BY Sizes DEF Held
<1>2. CASE p \notin functions["proxy"]
  BY <1>1, <1>2 DEF Balanced
<1>3. CASE p \in functions["proxy"]
  <2>1. Cardinality(Trying(p)') <= Cardinality(Trying(p))
        /\ Cardinality(Trying(p)') \in Nat
    BY <1>3, Sizes, FS_Subset, FS_CardinalityType
  <2>2. Held(p) <= handles[p]
        /\ handles[p] + Cardinality(Trying(p)) < Held(p) + Cardinality(Callbacks)
    BY <1>3 DEF Balanced
  <2>3. Cardinality(Trying(p)) \in Nat /\ Cardinality(Callbacks) \in Nat
    BY Sizes
  <2>4. handles[p] + Cardinality(Trying(p)') < Held(p) + Cardinality(Callbacks)
    BY <1>1, <2>1, <2>2, <2>3
  <2> QED
    BY <1>1, <1>3, <2>2, <2>4 DEF Balanced
<1> QED
  BY <1>2, <1>3

LEMMA InitAccounts == Init => AccountInv
<1> SUFFICES ASSUME Init, NEW p \in Pipelines PROVE Balanced(p)
  BY DEF AccountInv
<1>1. handles[p] = 0 /\ p \notin functions["proxy"] /\ Holders(p) = {}
  BY DEF Init, Holders, Kinds
<1>2. Holding(p) = {}
  BY EnterLabel DEF Init, Holding
<1>3. Cardinality({}) = 0
  BY FS_EmptySet
<1> QED
  BY <1>1, <1>2, <1>3 DEF Balanced, Held

\* Only thread t moves.
Alone(t) ==
    \A u \in Threads : u # t => pc'[u] = pc[u] /\ todo'[u] = todo[u]

\* A move away from dlopen, dlsym and the insertion.
LEMMA QuietMove ==
    ASSUME Types, HandlesInv, NEW p \in Pipelines, Balanced(p),
           NEW t \in Threads, Alone(t), UNCHANGED <<linked, functions>>,
           pc[t] \notin {"symbol", "insert"}, pc'[t] \notin {"symbol", "insert"},
           (pc'[t] = "open" /\ t \in Callbacks) =>
               Name(t)' \notin functions["proxy"]
    PROVE  Balanced(p)'
<1>1. Holders(p)' = Holders(p)
  BY DEF Holders
<1>2. Holding(p)' = Holding(p)
  BY DEF Holding, Alone, Name
<1>3. p \in functions["proxy"] => Trying(p)' \subseteq Trying(p)
  BY DEF Trying, Alone, Name, Threads
<1>4. handles[p] \in Nat /\ handles'[p] = handles[p]
  BY DEF HandlesInv, linked
<1> QED
  BY <1>1, <1>2, <1>3, <1>4, AccountKept

\* The libraries that a thread at work on another one does not concern.
LEMMA OtherAccounts ==
    ASSUME Types, HandlesInv, NEW p \in Pipelines, Balanced(p),
           NEW t \in Threads, Alone(t),
           todo'[t] = todo[t] \/ pc'[t] = "idle", p # Name(t), handles'[p] = handles[p],
           Holders(p)' = Holders(p),
           p \in functions'["proxy"] => p \in functions["proxy"],
           p \in functions["proxy"] => p \in functions'["proxy"]
    PROVE  Balanced(p)'
<1>1. Holding(p)' = Holding(p)
  BY DEF Holding, Alone, Name
<1>2. Trying(p)' \subseteq Trying(p)
  BY DEF Trying, Alone, Name, Threads
<1>3. handles[p] \in Nat
  BY DEF HandlesInv
<1> QED
  BY <1>1, <1>2, <1>3, AccountKept

LEMMA OpenAccounts ==
    ASSUME Types, HandlesInv, NEW p \in Pipelines, Balanced(p),
           NEW t \in Threads, At(t, "open"),
           handles' = [handles EXCEPT ![Name(t)] = @ + 1], Goto(t, "symbol"),
           UNCHANGED <<todo, functions>>
    PROVE  Balanced(p)'
<1>1. pc[t] = "open" /\ pc \in [Threads -> Labels] /\ handles \in [Pipelines -> Nat]
  BY DEF At, Types, HandlesInv
<1>2. Alone(t) /\ pc'[t] = "symbol"
  BY <1>1 DEF Alone, Goto
<1>3. PICK n \in Pipelines : n = Name(t)
  BY <1>1, NameType
<1>4. /\ handles'[n] = handles[n] + 1 /\ handles[n] \in Nat
      /\ p # n => handles'[p] = handles[p]
  BY <1>1, <1>3
<1>5. Holders(p)' = Holders(p) /\ Holders(n)' = Holders(n)
  BY DEF Holders
<1>6. ASSUME p # n PROVE Balanced(p)'
  BY <1>2, <1>3, <1>4, <1>5, <1>6, OtherAccounts
<1>7. Holding(n)' = Holding(n) \cup {t} /\ t \notin Holding(n)
  BY <1>1, <1>2, <1>3 DEF Holding, Alone, Name
<1>8. Trying(n)' = Trying(n)
  BY <1>1, <1>2, <1>3 DEF Trying, Alone, Name, Threads
<1>9. Held(n)' = Held(n) + 1 /\ Held(n) \in Nat
  <2>1. Cardinality(Holding(n)') = Cardinality(Holding(n)) + 1
    BY <1>7, Sizes, FS_AddElement
  <2> QED
    BY <1>5, <2>1, Sizes DEF Held
<1>10. ASSUME p = n PROVE Balanced(n)'
  <2>1. Balanced(n) /\ Cardinality(Trying(n)) \in Nat
        /\ Cardinality(Callbacks) \in Nat
    BY <1>10, Sizes
  <2> QED
    BY <1>4, <1>8, <1>9, <2>1 DEF Balanced
<1> QED
  BY <1>6, <1>10

LEMMA CloseAccounts ==
    ASSUME Types, HandlesInv, HandlesInv', NEW p \in Pipelines, Balanced(p),
           NEW t \in Threads, At(t, "symbol"), Dlclose(Name(t)), Throw(t), UNCHANGED functions
    PROVE  Balanced(p)'
<1>1. pc[t] = "symbol" /\ pc \in [Threads -> Labels]
      /\ todo \in [Threads -> Seq(Pipelines)] /\ handles \in [Pipelines -> Nat]
      /\ handles' \in [Pipelines -> Nat]
  BY DEF At, Types, HandlesInv
<1>2. Alone(t) /\ pc'[t] = "idle"
  BY <1>1 DEF Alone, Goto, Throw
<1>3. PICK n \in Pipelines : n = Name(t)
  BY <1>1, NameType
<1>4. /\ handles'[n] = handles[n] - 1 /\ handles[n] \in Nat
      /\ p # n => handles'[p] = handles[p]
  BY <1>1, <1>3 DEF Dlclose
<1>5. Holders(p)' = Holders(p) /\ Holders(n)' = Holders(n)
  BY DEF Holders
<1>6. ASSUME p # n PROVE Balanced(p)'
  BY <1>2, <1>3, <1>4, <1>5, <1>6, OtherAccounts
<1>7. Holding(n)' = Holding(n) \ {t} /\ t \in Holding(n)
  BY <1>1, <1>2, <1>3 DEF Holding, Alone, Name
<1>8. Cardinality(Trying(n)') <= Cardinality(Trying(n))
      /\ Cardinality(Trying(n)') \in Nat
  <2>1. Trying(n)' \subseteq Trying(n)
    BY <1>1, <1>2, <1>3 DEF Trying, Alone, Name, Threads
  <2> QED
    BY <2>1, Sizes, FS_Subset, FS_CardinalityType
<1>9. Held(n)' = Held(n) - 1 /\ Held(n) \in Nat
  <2>1. Cardinality(Holding(n)') = Cardinality(Holding(n)) - 1
    BY <1>7, Sizes, FS_RemoveElement
  <2> QED
    BY <1>5, <2>1, Sizes DEF Held
<1>10. ASSUME p = n PROVE Balanced(n)'
  <2>1. Balanced(n) /\ Cardinality(Trying(n)) \in Nat
        /\ Cardinality(Callbacks) \in Nat
    BY <1>10, Sizes
  <2> QED
    BY <1>4, <1>8, <1>9, <2>1 DEF Balanced
<1> QED
  BY <1>6, <1>10

\* The insertion moves a handle from the thread to the map, or leaves one over
\* when a callback finds the function inserted by another.
LEMMA InsertAccounts ==
    ASSUME Types, HandlesInv, CallbacksLate, MainInv, Callbacks # {},
           NEW p \in Pipelines, Balanced(p), image[p] # "nullFunction",
           NEW t \in Threads, InsertFunction(t)
    PROVE  Balanced(p)'
<1> DEFINE k == Kind(t)
<1>1. /\ pc[t] = "insert" /\ pc \in [Threads -> Labels]
      /\ handles \in [Pipelines -> Nat] /\ functions \in [Kinds -> SUBSET Pipelines]
      /\ UNCHANGED <<handles, todo>>
  BY DEF InsertFunction, At, Types, HandlesInv, linked
<1>2. Alone(t) /\ pc'[t] = "get"
  BY <1>1 DEF Alone, Goto, InsertFunction
<1>3. PICK n \in Pipelines : n = Name(t)
  BY <1>1, NameType
<1>4. k \in Kinds
  BY <1>1 DEF Kind, MainInv, Types, Kinds
<1> HIDE DEF k
<1>5. /\ functions'[k] = IF image[n] = "nullFunction" THEN functions[k] \ {n}
                          ELSE functions[k] \cup {n}
      /\ \A j \in Kinds \ {k} : functions'[j] = functions[j]
  BY <1>1, <1>3, <1>4 DEF InsertFunction, k
<1>6. ASSUME p # n PROVE Balanced(p)'
  <2>1. \A j \in Kinds : p \in functions'[j] <=> p \in functions[j]
    BY <1>4, <1>5, <1>6
  <2>2. Holders(p)' = Holders(p)
    BY <2>1 DEF Holders
  <2>3. "proxy" \in Kinds /\ handles'[p] = handles[p] /\ todo'[t] = todo[t]
    BY <1>1 DEF Kinds
  <2> QED
    BY <1>2, <1>3, <1>6, <2>1, <2>2, <2>3, OtherAccounts
<1>7. Holding(n)' = Holding(n) \ {t} /\ t \in Holding(n)
  BY <1>1, <1>2, <1>3 DEF Holding, Alone, Name
<1>8. Cardinality(Holding(n)') = Cardinality(Holding(n)) - 1
  BY <1>7, Sizes, FS_RemoveElement
<1>9. Trying(n)' = Trying(n) \ {t}
  BY <1>1, <1>2, <1>3 DEF Trying, Alone, Name, Threads
<1>10. Cardinality(Trying(n)') \in Nat
  BY <1>9, Sizes, FS_Subset, FS_CardinalityType
<1>11. handles[n] \in Nat /\ handles'[n] = handles[n]
  BY <1>1
<1>12. Cardinality(Callbacks) \in Nat /\ Cardinality(Trying(n)) \in Nat
  BY Sizes
<1>13. ASSUME p = n, n \notin functions[k] PROVE Balanced(n)'
  <2>1. Holders(n)' = Holders(n) \cup {k} /\ k \notin Holders(n)
    BY <1>4, <1>5, <1>13 DEF Holders
  <2>2. Cardinality(Holders(n)') = Cardinality(Holders(n)) + 1
    BY <2>1, Sizes, FS_AddElement
  <2>3. Held(n)' = Held(n) /\ Held(n) \in Nat
    BY <1>8, <2>2, Sizes DEF Held
  <2>4. CASE k # "proxy"
    <3>1. functions'["proxy"] = functions["proxy"]
      BY <1>5, <2>4 DEF Kinds
    <3>2. t = Main
      BY <2>4 DEF k, Kind
    <3>3. Trying(n)' = Trying(n)
      BY <1>9, <3>2, ThreadsAssumption DEF Trying
    <3> QED
      BY <1>11, <1>13, <2>3, <3>1, <3>3 DEF Balanced
  <2>5. CASE k = "proxy"
    <3>1. handles[n] = Held(n) /\ n \in functions'["proxy"]
      BY <1>5, <1>11, <1>13, <2>5 DEF Balanced
    <3>2. PICK c \in Callbacks : c \notin Trying(n)'
      <4>1. CASE t = Main
        <5>1. stage = "proxy"
          BY <2>5, <4>1 DEF k, Kind
        <5>2. Trying(n) = {}
          BY <5>1 DEF CallbacksLate, Trying
        <5> QED
          BY <1>9, <5>2
      <4>2. CASE t # Main
        BY <1>9, <4>2 DEF Threads
      <4> QED
        BY <4>1, <4>2
    <3>3. Cardinality(Trying(n)') < Cardinality(Callbacks)
      <4>1. Trying(n)' \subseteq Callbacks \ {c}
        BY <3>2 DEF Trying
      <4>2. IsFiniteSet(Callbacks \ {c})
            /\ Cardinality(Callbacks \ {c}) = Cardinality(Callbacks) - 1
        BY <3>2, ThreadsAssumption, FS_RemoveElement
      <4>3. Cardinality(Trying(n)') <= Cardinality(Callbacks \ {c})
        BY <4>1, <4>2, FS_Subset
      <4> QED
        BY <1>10, <4>2, <4>3, Sizes
    <3>4. handles[n] + Cardinality(Trying(n)') < Held(n) + Cardinality(Callbacks)
      BY <1>10, <1>11, <2>3, <3>1, <3>3, <1>12
    <3> QED
      BY <1>11, <2>3, <3>1, <3>4 DEF Balanced
  <2> QED
    BY <2>4, <2>5
<1>14. ASSUME p = n, n \in functions[k] PROVE Balanced(n)'
  <2>1. k = "proxy" /\ t \in Callbacks
    BY <1>1, <1>3, <1>14 DEF k, Kind, MainInv, Threads
  <2>2. Holders(n)' = Holders(n)
    BY <1>5, <1>14 DEF Holders
  <2>3. Held(n)' = Held(n) - 1 /\ Held(n) \in Nat
    BY <1>8, <2>2, Sizes DEF Held
  <2>4. t \in Trying(n)
    BY <1>1, <1>3, <2>1 DEF Trying
  <2>5. Cardinality(Trying(n)') = Cardinality(Trying(n)) - 1
    BY <1>9, <2>4, Sizes, FS_RemoveElement
  <2>6. Held(n) <= handles[n]
        /\ handles[n] + Cardinality(Trying(n)) < Held(n) + Cardinality(Callbacks)
    BY <1>11, <1>14, <2>1 DEF Balanced
  <2>7. n \in functions'["proxy"]
    BY <1>5, <1>14, <2>1
  <2> QED
    BY <1>11, <2>3, <2>5, <2>6, <2>7, <1>12 DEF Balanced
<1> QED
  BY <1>6, <1>13, <1>14

LEMMA StepAccounts ==
    ASSUME Types, HandlesInv, AccountInv, CallbacksLate, MainInv,
           Callbacks # {}, [Next]_vars
    PROVE  AccountInv'
<1> SUFFICES ASSUME NEW p \in Pipelines, ~raced', image'[p] # "nullFunction"
             PROVE  Balanced(p)'
  BY DEF AccountInv
<1>0. HandlesInv'
  BY StepHandles
<1>1. /\ pc \in [Threads -> Labels] /\ todo \in [Threads -> Seq(Pipelines)]
      /\ Main \in Threads /\ Callbacks \subseteq Threads
  BY DEF Types, Threads
<1>2. ~raced /\ \A t \in Threads : ~MissEntry(t)
  BY DEF Next, Register, FindLibrary, Dlopen, Dlsym, InsertFunction, GetPipeline,
     NextStage, Reload, Deploy, Race, MissEntry, vars
<1>3. image[p] # "nullFunction" /\ Balanced(p)
  BY <1>2, NullStays DEF AccountInv
<1>4. ASSUME NEW t \in Threads, FindLibrary(t) PROVE Balanced(p)'
  <2>1. /\ Alone(t) /\ UNCHANGED <<linked, functions>>
        /\ pc[t] = "check" /\ pc'[t] \in {"idle", "get", "open"}
    BY <1>1, <1>4 DEF FindLibrary, At, Goto, Throw, Alone
  <2>2. pc'[t] = "open" => Name(t)' = Name(t) /\ Name(t) \notin functions[Kind(t)]
    BY <1>1, <1>4 DEF FindLibrary, Goto, Throw, Name
  <2>3. t \in Callbacks => Kind(t) = "proxy"
    BY ThreadsAssumption DEF Kind
  <2> QED
    BY <1>3, <2>1, <2>2, <2>3, QuietMove
<1>5. ASSUME NEW t \in Threads, Dlopen(t) PROVE Balanced(p)'
  <2>1. CASE Throw(t) /\ UNCHANGED linked
    <3>1. /\ Alone(t) /\ UNCHANGED <<linked, functions>>
          /\ pc[t] = "open" /\ pc'[t] = "idle"
      BY <1>1, <1>5, <2>1 DEF Dlopen, At, Goto, Throw, Alone
    <3> QED
      BY <1>3, <3>1, QuietMove
  <2> QED
    BY <1>3, <1>5, <2>1, OpenAccounts DEF Dlopen
<1>6. ASSUME NEW t \in Threads, Dlsym(t) PROVE Balanced(p)'
  <2>1. CASE Dlclose(Name(t)) /\ Throw(t)
    BY <1>0, <1>3, <1>6, <2>1, CloseAccounts DEF Dlsym
  <2>2. CASE Goto(t, "insert") /\ UNCHANGED <<linked, todo>>
    <3>1. /\ pc[t] = "symbol" /\ pc'[t] = "insert" /\ UNCHANGED functions
          /\ \A u \in Threads : u # t => pc'[u] = pc[u]
      BY <1>1, <1>6, <2>2 DEF Dlsym, At, Goto
    <3>2. Holders(p)' = Holders(p) /\ Holding(p)' = Holding(p)
          /\ Trying(p)' = Trying(p)
      BY <2>2, <3>1 DEF Holders, Holding, Trying, Name, Threads
    <3>3. handles[p] \in Nat /\ handles'[p] = handles[p]
      BY <2>2 DEF HandlesInv, linked
    <3> QED
      BY <1>3, <3>1, <3>2, <3>3, AccountKept
  <2> QED
    BY <1>6, <2>1, <2>2 DEF Dlsym
<1>7. ASSUME NEW t \in Threads, At(t, "idle") \/ At(t, "get"),
             UNCHANGED <<linked, functions>>,
             NEW work, todo' = [todo EXCEPT ![t] = work],
             Goto(t, Enter(work)) \/ Goto(t, "idle")
      PROVE  Balanced(p)'
  <2>1. Alone(t) /\ pc[t] \in {"idle", "get"} /\ pc'[t] \in {"idle", "check"}
    BY <1>1, <1>7, EnterLabel DEF At, Goto, Alone
  <2> QED
    BY <1>3, <1>7, <2>1, QuietMove
<1>8. ASSUME NEW t \in Threads, GetPipeline(t) PROVE Balanced(p)'
  BY <1>7, <1>8 DEF GetPipeline, Throw
<1>9. CASE NextStage
  BY <1>1, <1>7, <1>9 DEF NextStage
<1>10. ASSUME NEW c \in Callbacks, Reload(c) PROVE Balanced(p)'
  BY <1>1, <1>7, <1>10 DEF Reload
<1>11. CASE Deploy \/ Race \/ UNCHANGED vars
  <2>1. UNCHANGED <<handles, functions, pc, todo>>
    BY <1>11 DEF Deploy, Race, vars, linked
  <2> QED
    BY <1>3, <2>1 DEF Balanced, Held, Holders, Holding, Trying, Name
<1> QED
  BY <1>2, <1>3, <1>4, <1>5, <1>6, <1>8, <1>9, <1>10, <1>11, InsertAccounts
     DEF Next, Register

\* With no thread at work on it, a library is as open as its account says.
LEMMA AccountsSettled ==
    ASSUME HandlesInv, AccountInv PROVE HandlesAccountedFor
<1> SUFFICES ASSUME ~raced, NEW p \in Pipelines, Untouched(p),
                    image[p] # "nullFunction"
             PROVE  /\ Holders(p) = {} <=> handles[p] = 0
                    /\ handles[p] >= Cardinality(Holders(p))
                    /\ "proxy" \in Holders(p) =>
                          handles[p] < Cardinality(Holders(p)) + Cardinality(Callbacks)
                    /\ "proxy" \notin Holders(p) =>
                          handles[p] = Cardinality(Holders(p))
  BY DEF HandlesAccountedFor
<1>1. Holding(p) = {} /\ Trying(p) = {}
  BY DEF Untouched, Holding, Trying, Threads
<1>2. Held(p) = Cardinality(Holders(p)) /\ Cardinality(Trying(p)) = 0
  BY <1>1, FS_EmptySet, Sizes DEF Held
<1>3. "proxy" \in Holders(p) <=> p \in functions["proxy"]
  BY DEF Holders, Kinds
<1>4. Holders(p) = {} <=> Cardinality(Holders(p)) = 0
  BY Sizes, FS_EmptySet
<1>5. Balanced(p) /\ handles[p] \in Nat
  BY DEF AccountInv, HandlesInv
<1>6. /\ Cardinality(Holders(p)) \in Nat /\ Cardinality(Callbacks) \in Nat
  BY Sizes
<1>7. CASE p \notin functions["proxy"]
  BY <1>2, <1>3, <1>4, <1>5, <1>6, <1>7 DEF Balanced
<1>8. CASE p \in functions["proxy"]
  <2>1. Holders(p) # {}
    BY <1>3, <1>8
  <2>2. /\ Cardinality(Holders(p)) <= handles[p]
        /\ handles[p] < Cardinality(Holders(p)) + Cardinality(Callbacks)
    BY <1>2, <1>5, <1>6, <1>8 DEF Balanced
  <2> QED
    BY <1>3, <1>4, <1>5, <1>6, <1>8, <2>1, <2>2
<1> QED
  BY <1>7, <1>8

\* Reloads do not pile up handles of a library that has a function, as long as
\* no race loses an entry: while no thread registers it, it is
\* open once for each map that has its function, and for that of the proxies
\* at most once more for each further callback; a library that no map needs is
\* closed, however often and by however many threads it was tried.
THEOREM HandlesNeverPileUp ==
    ASSUME Callbacks # {} PROVE Spec => []HandlesAccountedFor
<1>1. Types /\ HandlesInv /\ AccountInv /\ CallbacksLate /\ MainInv /\ [Next]_vars
          => AccountInv'
  BY StepAccounts
<1>2. Spec => []AccountInv
  BY <1>1, InitAccounts, TypesAndHandles, MainInvariant, PTL DEF Spec
<1>3. HandlesInv /\ AccountInv => HandlesAccountedFor
  BY AccountsSettled
<1> QED
  BY <1>2, <1>3, TypesAndHandles, PTL

-----------------------------------------------------------------------------
(***************************************************************************)
(* What a thread found stays true: a library is mapped as long as one of   *)
(* its handles is open, and a thread about to call dlsym has one of them.  *)
(***************************************************************************)
OpenIffMapped == \A p \in Pipelines : image[p] = "none" <=> handles[p] = 0

Registered ==
    \A t \in Threads : pc[t] = "get" => \/ Name(t) \in functions[Kind(t)]
                                       \/ image[Name(t)] = "nullFunction"
                                       \/ raced

LEMMA InitFound == Init => OpenIffMapped /\ Registered
BY EnterLabel DEF Init, OpenIffMapped, Registered

LEMMA StepOpen ==
    Types /\ HandlesInv /\ OpenIffMapped /\ [Next]_vars => OpenIffMapped'
<1> SUFFICES ASSUME Types, HandlesInv, OpenIffMapped, [Next]_vars,
                    NEW p \in Pipelines
             PROVE  image'[p] = "none" <=> handles'[p] = 0
  BY DEF OpenIffMapped
<1>1. /\ image \in [Pipelines -> Images]
      /\ file \in [Pipelines -> Files]
      /\ handles \in [Pipelines -> Nat]
      /\ image[p] = "none" <=> handles[p] = 0
  BY DEF Types, HandlesInv, OpenIffMapped
<1>2. ASSUME UNCHANGED linked PROVE image'[p] = "none" <=> handles'[p] = 0
  BY <1>1, <1>2 DEF linked
<1>3. ASSUME NEW t \in Threads, Dlopen(t)
      PROVE  image'[p] = "none" <=> handles'[p] = 0
  <2>1. CASE UNCHANGED linked
    BY <1>2, <2>1
  <2>2. CASE /\ image[Name(t)] # "none" \/ file[Name(t)] # "unusable"
             /\ image' = [image EXCEPT
                            ![Name(t)] = IF @ = "none" THEN file[Name(t)] ELSE @]
             /\ handles' = [handles EXCEPT ![Name(t)] = @ + 1]
    <3>1. CASE p = Name(t)
      <4>1. image'[p] # "none"
        BY <1>1, <2>2, <3>1 DEF Files
      <4>2. handles'[p] = handles[p] + 1 /\ handles[p] \in Nat
        BY <1>1, <2>2, <3>1
      <4> QED
        BY <4>1, <4>2
    <3>2. CASE p # Name(t)
      BY <1>1, <2>2, <3>2
    <3> QED
      BY <3>1, <3>2
  <2> QED
    BY <1>3, <2>1, <2>2 DEF Dlopen
<1>4. ASSUME NEW t \in Threads, Dlsym(t)
      PROVE  image'[p] = "none" <=> handles'[p] = 0
  <2>1. CASE UNCHANGED linked
    BY <1>2, <2>1
  <2>2. CASE image[Name(t)] = "noFunction" /\ Dlclose(Name(t))
    <3>1. CASE p = Name(t)
      <4>1. handles[p] \in Nat \ {0} /\ handles'[p] = handles[p] - 1
        BY <1>1, <2>2, <3>1 DEF Dlclose
      <4>2. CASE handles[p] = 1
        BY <1>1, <2>2, <3>1, <4>1, <4>2 DEF Dlclose
      <4>3. CASE handles[p] # 1
        <5>1. image' = image /\ handles'[p] # 0
          BY <2>2, <3>1, <4>1, <4>3 DEF Dlclose
        <5> QED
          BY <2>2, <3>1, <5>1
      <4> QED
        BY <4>2, <4>3
    <3>2. CASE p # Name(t)
      BY <1>1, <2>2, <3>2 DEF Dlclose
    <3> QED
      BY <3>1, <3>2
  <2> QED
    BY <1>4, <2>1, <2>2 DEF Dlsym
<1> QED
  BY <1>2, <1>3, <1>4 DEF Next, Register, FindLibrary, InsertFunction, GetPipeline,
     NextStage, Reload, Deploy, Race, MissEntry, vars, linked

LEMMA StepRegistered ==
    Types /\ MainInv /\ MappedInv /\ Registered /\ [Next]_vars => Registered'
<1> SUFFICES ASSUME Types, MainInv, MappedInv, Registered, [Next]_vars,
                    NEW u \in Threads, pc'[u] = "get", ~raced'
             PROVE  \/ Name(u)' \in functions'[Kind(u)']
                    \/ image'[Name(u)'] = "nullFunction"
  BY DEF Registered
<1>1. /\ pc \in [Threads -> Labels]
      /\ todo \in [Threads -> Seq(Pipelines)]
      /\ functions \in [Kinds -> SUBSET Pipelines]
      /\ stage \in Kinds \cup {"wait"}
      /\ Main \in Threads /\ Callbacks \subseteq Threads
  BY DEF Types, Threads
<1>2. ASSUME NEW t \in Threads, pc[t] # "idle" PROVE Kind(t) \in Kinds
  BY <1>1, <1>2 DEF Kind, MainInv, Kinds
\* Entries stay, and a thread that is at work stays in its map.
<1>3. \A k \in Kinds : functions[k] \subseteq functions'[k]
  <2>1. ASSUME NEW t \in Threads, InsertFunction(t), NEW k \in Kinds,
               NEW p \in functions[k]
        PROVE  p \in functions'[k]
    <3>1. image[p] = "plugin"
      BY DEF MappedInv, FunctionsAreMapped
    <3> QED
      BY <1>1, <2>1, <3>1 DEF InsertFunction
  <2> QED
    BY <2>1 DEF Next, Register, FindLibrary, Dlopen, Dlsym, GetPipeline, NextStage,
       Reload, Deploy, Race, MissEntry, vars
<1>4. ASSUME NEW t \in Threads, pc[t] # "idle" PROVE Kind(t)' = Kind(t)
  <2>1. CASE NextStage
    BY <1>4, <2>1 DEF NextStage, At, Kind
  <2>2. CASE ~NextStage
    <3>1. stage' = stage
      BY <2>2 DEF Next, Register, FindLibrary, Dlopen, Dlsym, InsertFunction,
         GetPipeline, Reload, Deploy, Race, MissEntry, vars
    <3> QED
      BY <3>1 DEF Kind
  <2> QED
    BY <2>1, <2>2
<1>5. ~raced /\ \A t \in Threads : ~MissEntry(t)
  BY DEF Next, Register, FindLibrary, Dlopen, Dlsym, InsertFunction, GetPipeline,
     NextStage, Reload, Deploy, Race, MissEntry, vars
<1>6. CASE pc[u] = "get"
  <2>1. todo'[u] = todo[u]
    <3>1. ASSUME NEW t \in Threads, Register(t) PROVE todo'[u] = todo[u]
      BY <1>1, <1>6, <3>1, EnterLabel DEF Register, FindLibrary, Dlopen, Dlsym,
         InsertFunction, GetPipeline, Throw, Goto, At
    <3>2. CASE NextStage
      BY <1>1, <1>6, <3>2 DEF NextStage, At
    <3>3. ASSUME NEW c \in Callbacks, Reload(c) PROVE todo'[u] = todo[u]
      BY <1>1, <1>6, <3>3 DEF Reload, At
    <3> QED
      BY <1>5, <3>1, <3>2, <3>3 DEF Next, Deploy, Race, vars
  <2>2. /\ Name(u) \in functions[Kind(u)] \/ image[Name(u)] = "nullFunction"
        /\ Kind(u) \in Kinds /\ Name(u) \in Pipelines
    BY <1>2, <1>5, <1>6, NameType DEF Registered
  <2>3. Name(u)' = Name(u) /\ Kind(u)' = Kind(u)
    BY <1>4, <1>6, <2>1 DEF Name
  <2> QED
    BY <1>3, <2>2, <2>3, NullStays
<1>7. CASE pc[u] # "get"
  <2>1. \/ FindLibrary(u) /\ Name(u) \in functions[Kind(u)] /\ todo' = todo
        \/ InsertFunction(u)
    <3>1. ASSUME NEW t \in Threads, Register(t)
          PROVE  \/ FindLibrary(u) /\ Name(u) \in functions[Kind(u)] /\ todo' = todo
                 \/ InsertFunction(u)
      BY <1>1, <1>7, <3>1, EnterLabel DEF Register, FindLibrary, Dlopen, Dlsym,
         InsertFunction, GetPipeline, Throw, Goto, At
    <3>2. ~NextStage
      BY <1>1, <1>7, EnterLabel DEF NextStage, Goto
    <3>3. \A c \in Callbacks : ~Reload(c)
      BY <1>1, <1>7, EnterLabel DEF Reload, Goto
    <3>4. ~(Deploy \/ Race \/ UNCHANGED vars)
      BY <1>7 DEF Deploy, Race, vars
    <3> QED
      BY <1>5, <3>1, <3>2, <3>3, <3>4 DEF Next
  <2>2. pc[u] # "idle" /\ todo'[u] = todo[u]
    BY <2>1 DEF FindLibrary, InsertFunction, At
  <2>3. Kind(u) \in Kinds /\ Kind(u)' = Kind(u) /\ Name(u)' = Name(u)
    BY <1>2, <1>4, <2>2 DEF Name
  <2>4. CASE FindLibrary(u) /\ Name(u) \in functions[Kind(u)]
    BY <1>3, <2>3, <2>4
  <2>5. CASE InsertFunction(u)
    BY <1>1, <2>3, <2>5 DEF InsertFunction, linked
  <2> QED
    BY <2>1, <2>4, <2>5
<1> QED
  BY <1>6, <1>7

LEMMA FoundInvariant == Spec => [](OpenIffMapped /\ Registered)
<1>1. Types /\ HandlesInv /\ MainInv /\ MappedInv /\ OpenIffMapped /\ Registered
          /\ [Next]_vars
          => (OpenIffMapped /\ Registered)'
  BY StepOpen, StepRegistered
<1>2. Spec => []MappedInv
  BY TypesAndHandles, InitMapped, StepMapped, PTL DEF Spec
<1> QED
  BY <1>1, <1>2, InitFound, TypesAndHandles, MainInvariant, PTL DEF Spec

\* What a thread found when it loaded a plugin holds until it is done with it,
\* for any number of threads that load and fail to load the same one: dlsym
\* gets an open library, and GetPipeline is asked for a function that is in the
\* map, but for a null symbol and the entries that a race loses.
THEOREM FindingsAreNeverStale == Spec => []FoundStaysTrue
<1>1. Types /\ HandlesInv /\ MappedInv /\ OpenIffMapped /\ Registered
          => FoundStaysTrue
  <2> SUFFICES ASSUME Types, HandlesInv, MappedInv, OpenIffMapped, Registered,
                      NEW t \in Threads
               PROVE  /\ At(t, "symbol") => image[Name(t)] # "none"
                      /\ At(t, "insert") =>
                            image[Name(t)] \in {"nullFunction", "plugin"}
                      /\ At(t, "get") => \/ Name(t) \in functions[Kind(t)]
                                         \/ image[Name(t)] = "nullFunction"
                                         \/ raced
    BY DEF FoundStaysTrue
  <2>1. ASSUME At(t, "symbol") PROVE image[Name(t)] # "none"
    <3>1. PICK name \in Pipelines : name = Name(t)
      BY <2>1, NameType DEF At
    <3> DEFINE openers == Openers(name)
    <3>2. t \in openers
      BY <2>1, <3>1 DEF Openers, At
    <3>3. IsFiniteSet(openers) /\ Cardinality(openers) \in Nat
      BY OpenersFinite
    <3>4. Cardinality(openers) <= handles[name] /\ handles[name] \in Nat
      BY DEF HandlesInv
    <3> HIDE DEF openers
    <3>5. Cardinality(openers) # 0
      BY <3>2, <3>3, FS_EmptySet
    <3>6. handles[name] # 0
      BY <3>3, <3>4, <3>5
    <3> QED
      BY <3>1, <3>6 DEF OpenIffMapped
  <2> QED
    BY <2>1 DEF MappedInv, Registered, At
<1>2. Spec => []MappedInv
  BY TypesAndHandles, InitMapped, StepMapped, PTL DEF Spec
<1> QED
  BY <1>1, <1>2, TypesAndHandles, FoundInvariant, PTL

(***************************************************************************)
(* The condition under which thread t has a step, written out.             *)
(***************************************************************************)
CanRegister(t) ==
    \/ pc[t] = "check"
    \/ pc[t] = "open"
    \/ pc[t] = "symbol" /\ image[Name(t)] \in {"noFunction", "nullFunction", "plugin"}
    \/ pc[t] \in {"insert", "get"}

\* A registration is never stuck, main's or a callback's: whatever the other
\* threads did to the library or the files, the thread has a next step.
THEOREM RegistrationNeverStuck ==
    Spec => [](process = "up" =>
                  \A t \in Threads : pc[t] # "idle" => CanRegister(t))
<1>1. Types /\ FoundStaysTrue
          => (process = "up" =>
                 \A t \in Threads : pc[t] # "idle" => CanRegister(t))
  <2> SUFFICES ASSUME Types, FoundStaysTrue, process = "up",
                      NEW t \in Threads, pc[t] # "idle"
               PROVE  CanRegister(t)
    OBVIOUS
  <2>1. Name(t) \in Pipelines
    BY NameType
  <2>2. pc[t] \in Labels /\ image[Name(t)] \in Images
    BY <2>1 DEF Types
  <2>3. pc[t] = "symbol" => image[Name(t)] # "none"
    BY DEF FoundStaysTrue, At
  <2> QED
    BY <2>2, <2>3 DEF CanRegister, Labels, Images
<1> QED
  BY <1>1, FindingsAreNeverStale, TypesAndHandles, PTL

=============================================================================
