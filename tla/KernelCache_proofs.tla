-------------------------- MODULE KernelCache_proofs --------------------------
(* Proofs about KernelCache, for any actors and processes and any bounds.      *)
EXTENDS KernelCache, TLAPS

\* The module of a program is known where its version is written to a file.
Reading == {"write", "enqueue", "generate"}
IrKnown == \A a \in Actors : actor[a].at \in Reading => actor[a].ir \in Versions

\* Where the actor that is writing each file stands.
WriterAt == [n \in Names |->
  IF n = "program.bc" THEN {"compile", "write"}
  ELSE IF n = "parallel.bc" THEN {"write_parallel"}
  ELSE IF n = "so" THEN {"linked"} ELSE {"write_object"}]
PartialOwned ==
  torn \/ \A n \in Names : Partial(n) => actor[file[n].by].at \in WriterAt[n]

\* An actor that moves keeps the rest of its record.
LEMMA MovedRecord ==
  ASSUME NEW r \in ActorStates, NEW s \in Places
  PROVE  /\ [r EXCEPT !.at = s] \in ActorStates
         /\ [r EXCEPT !.at = s].at = s /\ [r EXCEPT !.at = s].ir = r.ir
BY DEF ActorStates

LEMMA UnlonelyRecord ==
  ASSUME NEW r \in ActorStates, NEW v \in BOOLEAN
  PROVE  /\ [r EXCEPT !.alone = v] \in ActorStates
         /\ [r EXCEPT !.alone = v].at = r.at /\ [r EXCEPT !.alone = v].ir = r.ir
BY DEF ActorStates

\* Moving an actor keeps the types.
LEMMA Moved ==
  ASSUME Typed, IrKnown, NEW a \in Actors, NEW s \in Places, Goto(a, s),
         s \in Reading => actor[a].ir \in Versions
  PROVE  actor' \in [Actors -> ActorStates] /\ IrKnown'
<1>1. actor[a] \in ActorStates
  BY DEF Typed
<1>2. [actor[a] EXCEPT !.at = s] \in ActorStates
  BY <1>1 DEF ActorStates
<1>3. actor' = [actor EXCEPT ![a] = [actor[a] EXCEPT !.at = s]]
  BY DEF Goto
<1>4. actor' \in [Actors -> ActorStates]
  BY <1>2, <1>3 DEF Typed
<1>5. ASSUME NEW b \in Actors, actor'[b].at \in Reading
      PROVE  actor'[b].ir \in Versions
  <2>1. CASE b = a
    BY <1>1, <1>3, <1>5, <2>1 DEF Typed, ActorStates
  <2>2. CASE b # a
    BY <1>3, <1>5, <2>2 DEF Typed, IrKnown
  <2>3. QED
    BY <2>1, <2>2
<1>6. QED
  BY <1>4, <1>5 DEF IrKnown, Versions

\* A step that changes only files and actors.
LEMMA Framed ==
  ASSUME Typed, UNCHANGED rest, file' \in [Names -> {None} \cup Copies],
         actor' \in [Actors -> ActorStates]
  PROVE  Typed'
BY DEF Typed, rest, mutex

\* Unlocking keeps the types of the lock.
LEMMA UnlockTyped ==
  ASSUME Typed, NEW p \in Processes, Unlock(p)
  PROVE  lock' \in [Processes -> 0..2] /\ asleep' \subseteq Actors /\ stranded' \subseteq Actors
<1>1. lock' \in [Processes -> 0..2] /\ stranded' \subseteq Actors
  BY DEF Typed, Unlock
<1>2. asleep' \subseteq asleep
  BY DEF Unlock
<1>3. QED
  BY <1>1, <1>2 DEF Typed

\* Creating a file, completing and removing it keep the types.
LEMMA FileTyped ==
  ASSUME Typed, NEW a \in Actors, NEW n \in Names, NEW v \in Versions
  PROVE  /\ [file EXCEPT ![n] = Created(a, v)] \in [Names -> {None} \cup Copies]
         /\ [file EXCEPT ![n] = None] \in [Names -> {None} \cup Copies]
         /\ Written(n, a) \in [Names -> {None} \cup Copies]
<1>1. Created(a, v) \in Copies
  BY DEF Created, Copies
<1>2. file[n] # None => [file[n] EXCEPT !.by = None] \in Copies
  <2>1. file[n] # None => file[n] \in Copies
    BY DEF Typed
  <2>2. QED
    BY <2>1 DEF Copies
<1>3. Written(n, a) = IF file[n] # None /\ file[n].by = a
                      THEN [file EXCEPT ![n] = [file[n] EXCEPT !.by = None]] ELSE file
  BY DEF Written
<1>4. QED
  BY <1>1, <1>2, <1>3 DEF Typed

LEMMA NewActorTyped == NewActor \in ActorStates /\ NewActor.at = "idle"
BY DEF NewActor, ActorStates, Places, Done, AtRest

LEMMA InitTyped == Init => Typed /\ IrKnown
<1> SUFFICES ASSUME Init PROVE Typed /\ IrKnown
  OBVIOUS
<1>1. NewActor \in ActorStates
  BY NewActorTyped
<1>2. 0 \in Versions /\ 0 \in 0..MaxCrashes /\ builds \in 0..MaxBuilds[mode]
  BY CacheAssumption DEF Init, Versions
<1>3. Typed
  <2>1. actor \in [Actors -> ActorStates] /\ file \in [Names -> {None} \cup Copies]
    BY <1>1 DEF Init, NoFiles
  <2>2. lock \in [Processes -> 0..2] /\ asleep \subseteq Actors /\ stranded \subseteq Actors
    BY DEF Init
  <2>3. QED
    BY <1>2, <2>1, <2>2 DEF Init, Typed
<1>4. IrKnown
  BY DEF Init, IrKnown, NewActor, Reading
<1>5. QED
  BY <1>3, <1>4

\* Every variable keeps its type, and the version of a program is known where
\* a file is made from it.
LEMMA Types == Spec => [](Typed /\ IrKnown)
<1>1. Typed /\ IrKnown /\ [Next]_vars => Typed' /\ IrKnown'
  <2> SUFFICES ASSUME Typed, IrKnown, [Next]_vars
               PROVE  Typed' /\ IrKnown'
    OBVIOUS
  <2> USE DEF Places, Done, AtRest, Writing, Reading
  <2>1. ASSUME NEW a \in Actors, Build(a) PROVE Typed' /\ IrKnown'
    <3>1. file' \in [Names -> {None} \cup Copies]
      BY <2>1 DEF Build, Invalidated, NoFiles, Typed
    <3>2. \A b \in Actors \ {a} : /\ actor'[b] = [actor[b] EXCEPT !.alone = @ /\ actor[b].at \in AtRest]
                                  /\ actor[b] \in ActorStates
      BY <2>1 DEF Build, Typed
    <3>3. \A b \in Actors \ {a} : /\ actor'[b] \in ActorStates
                                  /\ actor'[b].at = actor[b].at /\ actor'[b].ir = actor[b].ir
      <4>1. TAKE b \in Actors \ {a}
      <4>2. PICK v \in BOOLEAN : actor'[b] = [actor[b] EXCEPT !.alone = v]
        BY <3>2
      <4>3. actor[b] \in ActorStates
        BY <3>2
      <4> HIDE DEF Places, Done, AtRest, Writing, Reading
      <4>4. QED
        BY <4>2, <4>3, UnlonelyRecord
    <3>4. actor'[a] \in ActorStates /\ actor'[a].at = "open"
      BY <2>1 DEF Build, ActorStates
    <3>5. actor' \in [Actors -> ActorStates]
      BY <2>1, <3>3, <3>4 DEF Build
    <3>7. IrKnown'
      BY <3>3, <3>4 DEF IrKnown, Versions
    <3>8. builds' \in 0..MaxBuilds[mode]'
      BY <2>1, CacheAssumption DEF Build, Typed
    <3>9. QED
      BY <2>1, <3>1, <3>5, <3>7, <3>8 DEF Build, Typed, mutex
  <2>2. ASSUME NEW a \in Actors, OpenProgram(a) PROVE Typed' /\ IrKnown'
    <3>1. version \in Versions
      BY DEF Typed
    <3>2. file' \in [Names -> {None} \cup Copies]
      BY <2>2, <3>1, FileTyped DEF OpenProgram, Typed, Names
    <3>3. actor' \in [Actors -> ActorStates] /\ IrKnown'
      BY <2>2, Moved DEF OpenProgram
    <3>4. QED
      BY <2>2, <3>2, <3>3, Framed DEF OpenProgram
  <2>3. ASSUME NEW a \in Actors, Compile(a) PROVE Typed' /\ IrKnown'
    <3>1. /\ [actor[a] EXCEPT !.at = "write", !.ir = version] \in ActorStates
          /\ actor' = [actor EXCEPT ![a] = [actor[a] EXCEPT !.at = "write", !.ir = version]]
      <4>1. actor[a] \in ActorStates /\ version \in Versions
        BY DEF Typed
      <4>2. QED
        BY <2>3, <4>1 DEF Compile, ActorStates
    <3>2. actor' \in [Actors -> ActorStates]
      BY <3>1 DEF Typed
    <3>3. actor'[a].ir = version /\ \A b \in Actors \ {a} : actor'[b] = actor[b]
      BY <3>1 DEF Typed, ActorStates
    <3>4. IrKnown'
      BY <3>3 DEF IrKnown, Typed, Versions
    <3>5. QED
      BY <2>3, <3>2, <3>4, Framed DEF Compile, Typed
  <2>4. ASSUME NEW a \in Actors, CompileFails(a) PROVE Typed' /\ IrKnown'
    <3>1. file' \in [Names -> {None} \cup Copies]
      BY <2>4 DEF CompileFails, Typed
    <3>2. actor' \in [Actors -> ActorStates] /\ IrKnown'
      BY <2>4, Moved DEF CompileFails
    <3>3. QED
      BY <2>4, <3>1, <3>2, Framed DEF CompileFails
  <2>5. ASSUME NEW a \in Actors, WriteProgram(a) PROVE Typed' /\ IrKnown'
    <3> DEFINE f == file["program.bc"]
    <3>1. [by |-> None, version |-> actor[a].ir] \in Copies
      <4>2. actor[a].ir \in Versions
        BY <2>5 DEF WriteProgram, At, IrKnown
      <4>3. QED
        BY <4>2 DEF Copies
    <3>2. file' = IF f # None /\ f.by = a
                  THEN [file EXCEPT !["program.bc"] = [by |-> None, version |-> actor[a].ir]]
                  ELSE file
      BY <2>5 DEF WriteProgram
    <3> HIDE DEF f
    <3>3. file' \in [Names -> {None} \cup Copies]
      BY <3>1, <3>2 DEF Typed
    <3>4. actor' \in [Actors -> ActorStates] /\ IrKnown'
      BY <2>5, Moved DEF WriteProgram
    <3>5. QED
      BY <2>5, <3>3, <3>4, Framed DEF WriteProgram
  <2>6. ASSUME NEW a \in Actors, ReadProgram(a) PROVE Typed' /\ IrKnown'
    <3> DEFINE ir == IF actor[a].ir = None /\ Whole("program.bc")
                     THEN file["program.bc"].version ELSE actor[a].ir
    <3>1. actor[a] \in ActorStates
      BY DEF Typed
    <3>2. ir \in {None} \cup Versions
      BY <3>1 DEF Typed, Whole, Copies, ActorStates, Names
    <3>3. CASE file["program.bc"] = None \/ ir = None
      BY <2>6, <3>3, Moved, Framed DEF ReadProgram, Typed
    <3>4. CASE ~(file["program.bc"] = None \/ ir = None)
      <4>1. actor' = [actor EXCEPT ![a] = [actor[a] EXCEPT !.at = "enqueue", !.ir = ir]]
        BY <2>6, <3>4 DEF ReadProgram
      <4> HIDE DEF ir
      <4>2. ir \in Versions /\ [actor[a] EXCEPT !.at = "enqueue", !.ir = ir] \in ActorStates
        BY <3>1, <3>2, <3>4 DEF ActorStates
      <4>3. actor' \in [Actors -> ActorStates]
        BY <4>1, <4>2 DEF Typed
      <4>4. actor'[a].ir = ir /\ \A b \in Actors \ {a} : actor'[b] = actor[b]
        BY <4>1, <3>1 DEF Typed, ActorStates
      <4>5. IrKnown'
        BY <4>2, <4>4 DEF IrKnown, Versions
      <4>6. UNCHANGED <<file, rest>>
        BY <2>6 DEF ReadProgram
      <4>7. QED
        BY <4>3, <4>5, <4>6, Framed DEF Typed
    <3>5. QED
      BY <3>3, <3>4
  <2>7. ASSUME NEW a \in Actors, Enqueue(a) PROVE Typed' /\ IrKnown'
    <3>1. actor' \in [Actors -> ActorStates] /\ IrKnown'
      BY <2>7, Moved DEF Enqueue, At, IrKnown
    <3>2. QED
      BY <2>7, <3>1, Framed DEF Enqueue, Typed
  <2>8. ASSUME NEW a \in Actors, Generate(a) PROVE Typed' /\ IrKnown'
    <3>1. actor[a].ir \in Versions
      BY <2>8 DEF Generate, At, IrKnown
    <3>2. [file EXCEPT !["parallel.bc"] = Created(a, actor[a].ir)] \in [Names -> {None} \cup Copies]
      BY <3>1, FileTyped DEF Names
    <3>3. file' \in [Names -> {None} \cup Copies]
      BY <2>8, <3>2 DEF Generate, Typed
    <3>4. actor' \in [Actors -> ActorStates] /\ IrKnown'
      BY <2>8, Moved DEF Generate
    <3>5. QED
      BY <2>8, <3>3, <3>4, Framed DEF Generate
  <2>9. ASSUME NEW a \in Actors, WriteParallel(a) PROVE Typed' /\ IrKnown'
    <3>1. file' \in [Names -> {None} \cup Copies]
      BY <2>9, FileTyped DEF WriteParallel, Typed, Names
    <3>2. actor' \in [Actors -> ActorStates] /\ IrKnown'
      BY <2>9, Moved DEF WriteParallel
    <3>3. QED
      BY <2>9, <3>1, <3>2, Framed DEF WriteParallel
  <2>10. ASSUME NEW a \in Actors, Check(a) PROVE Typed' /\ IrKnown'
    <3>1. actor' \in [Actors -> ActorStates] /\ IrKnown'
      BY <2>10, Moved DEF Check
    <3>2. QED
      BY <2>10, <3>1, Framed DEF Check, Typed
  <2>24. ASSUME NEW a \in Actors, InitLock(a) PROVE Typed' /\ IrKnown'
    <3>1. actor' \in [Actors -> ActorStates] /\ IrKnown'
      BY <2>24, Moved DEF InitLock
    <3>2. lock' \in [Processes -> 0..2] /\ stranded' \subseteq Actors
      BY <2>24, CacheAssumption DEF InitLock, Sleepers, Typed
    <3>3. QED
      BY <2>24, <3>1, <3>2 DEF InitLock, Typed
  <2>25. ASSUME NEW a \in Actors, Lock(a) PROVE Typed' /\ IrKnown'
    <3>1. actor' \in [Actors -> ActorStates] /\ IrKnown'
      BY <2>25, Moved DEF Lock
    <3>2. lock' \in [Processes -> 0..2]
      BY <2>25, CacheAssumption DEF Lock, Typed
    <3>3. QED
      BY <2>25, <3>1, <3>2 DEF Lock, Typed
  <2>26. ASSUME NEW a \in Actors, Sleep(a) PROVE Typed' /\ IrKnown'
    <3>1. actor' \in [Actors -> ActorStates] /\ IrKnown'
      BY <2>26, Moved DEF Sleep
    <3>2. lock' \in [Processes -> 0..2]
      BY <2>26, CacheAssumption DEF Sleep, Typed
    <3>3. QED
      BY <2>26, <3>1, <3>2 DEF Sleep, Typed
  <2>11. ASSUME NEW a \in Actors, Scan(a) PROVE Typed' /\ IrKnown'
    <3> DEFINE p == ProcessOf[a]
               s == IF loaded[p] = None THEN "load" ELSE "ran"
    <3>1. actor[a] \in ActorStates /\ loaded[p] \in {None} \cup Versions
      BY CacheAssumption DEF Typed
    <3>2. /\ [actor[a] EXCEPT !.at = s, !.runs = loaded[p]] \in ActorStates
          /\ actor' = [actor EXCEPT ![a] = [actor[a] EXCEPT !.at = s, !.runs = loaded[p]]]
      BY <2>11, <3>1 DEF Scan, ActorStates
    <3>3. actor' \in [Actors -> ActorStates]
      BY <3>2 DEF Typed
    <3>4. actor'[a].at = s /\ \A b \in Actors \ {a} : actor'[b] = actor[b]
      <4>1. actor'[a] = [actor[a] EXCEPT !.at = s, !.runs = loaded[p]]
        BY <3>2 DEF Typed
      <4> HIDE DEF Places, Done, AtRest, Writing, Reading, s, p
      <4>2. actor'[a].at = s
        BY <3>1, <4>1 DEF ActorStates
      <4>3. QED
        BY <3>2, <4>2 DEF Typed
    <3>5. IrKnown'
      BY <3>4 DEF IrKnown, Versions
    <3>6. lock' \in [Processes -> 0..2] /\ asleep' \subseteq Actors /\ stranded' \subseteq Actors
      <4>1. p \in Processes
        BY CacheAssumption
      <4>2. QED
        BY <2>11, <4>1, UnlockTyped DEF Scan, Typed, mutex
    <3>7. QED
      BY <2>11, <3>3, <3>5, <3>6 DEF Scan, Typed
  <2>12. ASSUME NEW a \in Actors, Load(a) PROVE Typed' /\ IrKnown'
    <3>1. actor' \in [Actors -> ActorStates] /\ IrKnown'
      BY <2>12, Moved DEF Load
    <3>2. QED
      BY <2>12, <3>1, Framed DEF Load, Typed
  <2>13. ASSUME NEW a \in Actors, Dies(a) PROVE Typed' /\ IrKnown'
    <3>1. /\ \A b \in Actors : actor[b] \in ActorStates
          /\ torn \in BOOLEAN /\ torn' \in BOOLEAN
      BY <2>13 DEF Typed, Dies
    <3>2. \A b \in Actors : \E s \in Places :
            actor'[b] = [actor[b] EXCEPT !.at = s] /\ (s = actor[b].at \/ s \in {"dead", "killed"})
      <4>1. TAKE b \in Actors
      <4>2. actor[b].at \in Places
        BY <3>1 DEF ActorStates
      <4>3. CASE b = a
        BY <2>13, <4>3 DEF Dies
      <4>4. CASE b # a /\ b \in ProcessMates(a)
        BY <2>13, <4>4 DEF Dies
      <4>5. CASE b # a /\ b \notin ProcessMates(a)
        BY <2>13, <4>2, <4>5 DEF Dies
      <4>6. QED
        BY <4>3, <4>4, <4>5
    <3>3. \A b \in Actors : /\ actor'[b] \in ActorStates
                            /\ actor'[b].ir = actor[b].ir
                            /\ actor'[b].at \in Reading => actor[b].at \in Reading
      <4>1. TAKE b \in Actors
      <4>2. PICK s \in Places :
              actor'[b] = [actor[b] EXCEPT !.at = s] /\ (s = actor[b].at \/ s \in {"dead", "killed"})
        BY <3>2
      <4> HIDE DEF Places, Done, AtRest, Writing, Reading
      <4>3. /\ actor'[b] \in ActorStates
            /\ actor'[b].at = s /\ actor'[b].ir = actor[b].ir
        BY <3>1, <4>2, MovedRecord
      <4>4. QED
        BY <4>2, <4>3 DEF Reading
    <3>4. actor' \in [Actors -> ActorStates] /\ IrKnown'
      BY <2>13, <3>3 DEF Dies, IrKnown, Versions
    <3>5. file' \in [Names -> {None} \cup Copies]
      BY <2>13 DEF Dies, Typed
    <3>6. QED
      BY <2>13, <3>1, <3>4, <3>5 DEF Dies, Typed, mutex
  <2>14. ASSUME NEW a \in Actors, Codegen(a) PROVE Typed' /\ IrKnown'
    <3>1. version \in Versions
      BY DEF Typed
    <3>2. file' \in [Names -> {None} \cup Copies]
      BY <2>14, <3>1, FileTyped DEF Codegen, Names
    <3>3. actor' \in [Actors -> ActorStates] /\ IrKnown'
      BY <2>14, Moved DEF Codegen
    <3>4. QED
      BY <2>14, <3>2, <3>3, Framed DEF Codegen
  <2>27. ASSUME NEW a \in Actors, WriteObject(a) PROVE Typed' /\ IrKnown'
    <3>1. CASE Whole("parallel.bc")
      <4>1. file["parallel.bc"].version \in Versions
        BY <3>1 DEF Whole, Typed, Names, Copies
      <4>2. [by |-> None, version |-> file["parallel.bc"].version] \in Copies
        BY <4>1 DEF Copies
      <4>3. file' \in [Names -> {None} \cup Copies]
        BY <2>27, <3>1, <4>2 DEF WriteObject, Typed
      <4>4. actor' \in [Actors -> ActorStates] /\ IrKnown'
        BY <2>27, <3>1, Moved DEF WriteObject
      <4>5. QED
        BY <2>27, <3>1, <4>3, <4>4, Framed DEF WriteObject
    <3>2. CASE ~Whole("parallel.bc")
      BY <2>27, <3>2, <2>13 DEF WriteObject
    <3>3. QED
      BY <3>1, <3>2
  <2>15. ASSUME NEW a \in Actors, StartLink(a) PROVE Typed' /\ IrKnown'
    <3>1. CASE Whole("object")
      <4>1. file["object"].version \in Versions
        BY <3>1 DEF Typed, Names, Copies, Whole
      <4>2. file' \in [Names -> {None} \cup Copies]
        BY <2>15, <3>1, <4>1, FileTyped DEF StartLink, Names
      <4>3. actor' \in [Actors -> ActorStates] /\ IrKnown'
        BY <2>15, <3>1, Moved DEF StartLink
      <4>4. QED
        BY <2>15, <3>1, <4>2, <4>3, Framed DEF StartLink
    <3>2. CASE ~Whole("object")
      BY <2>15, <3>2, <2>13 DEF StartLink
    <3>3. QED
      BY <3>1, <3>2
  <2>16. ASSUME NEW a \in Actors, FinishLink(a) PROVE Typed' /\ IrKnown'
    <3>1. file' \in [Names -> {None} \cup Copies]
      BY <2>16, FileTyped DEF FinishLink, Typed, Names
    <3>2. actor' \in [Actors -> ActorStates] /\ IrKnown'
      BY <2>16, Moved DEF FinishLink
    <3>3. QED
      BY <2>16, <3>1, <3>2, Framed DEF FinishLink
  <2>17. ASSUME NEW a \in Actors, Clean(a) PROVE Typed' /\ IrKnown'
    <3>1. file' \in [Names -> {None} \cup Copies]
      BY <2>17 DEF Clean, Typed
    <3>2. actor' \in [Actors -> ActorStates] /\ IrKnown'
      BY <2>17, Moved DEF Clean
    <3>3. QED
      BY <2>17, <3>1, <3>2, Framed DEF Clean
  <2>18. ASSUME NEW a \in Actors, DlOpen(a) PROVE Typed' /\ IrKnown'
    <3> DEFINE v == file["so"].version
    <3>1. CASE Whole("so")
      <4>1. actor[a] \in ActorStates /\ v \in Versions
        BY <3>1 DEF Typed, Whole, Names, Copies
      <4>2. /\ [actor[a] EXCEPT !.at = "ran", !.runs = v] \in ActorStates
            /\ actor' = [actor EXCEPT ![a] = [actor[a] EXCEPT !.at = "ran", !.runs = v]]
        BY <2>18, <3>1, <4>1 DEF DlOpen, ActorStates
      <4>3. actor' \in [Actors -> ActorStates]
        BY <4>2 DEF Typed
      <4>4. actor'[a].at = "ran" /\ \A b \in Actors \ {a} : actor'[b] = actor[b]
        BY <4>1, <4>2 DEF Typed, ActorStates
      <4>5. IrKnown'
        BY <4>4 DEF IrKnown, Versions
      <4>6. lock' \in [Processes -> 0..2] /\ asleep' \subseteq Actors /\ stranded' \subseteq Actors
        BY <2>18, <3>1, UnlockTyped, CacheAssumption DEF DlOpen
      <4>8. loaded' \in [Processes -> {None} \cup Versions]
        BY <2>18, <3>1, <4>1, CacheAssumption DEF DlOpen, Typed
      <4>7. QED
        BY <2>18, <3>1, <4>3, <4>5, <4>6, <4>8 DEF DlOpen, Typed
    <3>2. CASE ~Whole("so")
      BY <2>18, <3>2, <2>13 DEF DlOpen
    <3>3. QED
      BY <3>1, <3>2
  <2>19. ASSUME NEW a \in Actors, Release(a) PROVE Typed' /\ IrKnown'
    <3>1. file' \in [Names -> {None} \cup Copies]
      BY <2>19 DEF Release, NoFiles, Typed
    <3>2. actor' \in [Actors -> ActorStates]
      BY <2>19, NewActorTyped DEF Release, Typed
    <3>3. IrKnown'
      BY <2>19, NewActorTyped DEF Release, Typed, IrKnown, Versions
    <3>4. QED
      BY <2>19, <3>1, <3>2, <3>3, Framed DEF Release
  <2>20. CASE Edit
    BY <2>20, CacheAssumption DEF Edit, Typed, IrKnown, Versions, mutex
  <2>21. ASSUME NEW p \in Processes, Crash(p) PROVE Typed' /\ IrKnown'
    <3>1. \A b \in Actors : /\ actor[b] \in ActorStates
                            /\ actor'[b] = actor[b] \/ actor'[b] = [actor[b] EXCEPT !.at = "killed"]
      BY <2>21 DEF Typed, Crash
    <3>2. \A b \in Actors : /\ actor'[b] \in ActorStates
                            /\ actor'[b].at \in Reading => actor'[b] = actor[b]
      <4>1. TAKE b \in Actors
      <4>2. "killed" \in Places /\ "killed" \notin Reading
        OBVIOUS
      <4> HIDE DEF Places, Done, AtRest, Writing, Reading
      <4>3. CASE actor'[b] = actor[b]
        BY <3>1, <4>3
      <4>4. CASE actor'[b] = [actor[b] EXCEPT !.at = "killed"]
        BY <3>1, <4>2, <4>4, MovedRecord
      <4>5. QED
        BY <3>1, <4>3, <4>4
    <3>3. actor' \in [Actors -> ActorStates] /\ IrKnown'
      BY <2>21, <3>2 DEF Crash, IrKnown, Versions
    <3>4. crashes' \in 0..MaxCrashes
      <4>1. crashes \in 0..MaxCrashes /\ crashes < MaxCrashes /\ crashes' = crashes + 1
        BY <2>21 DEF Crash, Typed
      <4>2. MaxCrashes \in Nat
        BY CacheAssumption
      <4>3. QED
        BY <4>1, <4>2
    <3>5. torn' \in BOOLEAN
      <4>1. torn \in BOOLEAN
        BY DEF Typed
      <4>2. QED
        BY <2>21, <4>1 DEF Crash
    <3>6. QED
      BY <2>21, <3>3, <3>4, <3>5 DEF Crash, Typed, mutex
  <2>22. CASE UNCHANGED vars
    BY <2>22 DEF vars, mutex, Typed, IrKnown, Versions
  <2>23. QED
    BY <2>1, <2>2, <2>3, <2>4, <2>5, <2>6, <2>7, <2>8, <2>9, <2>10, <2>11, <2>12, <2>14, <2>15, <2>16, <2>17, <2>18, <2>19, <2>20, <2>21, <2>22, <2>24, <2>25, <2>26, <2>27 DEF Next, CallStep
<1>2. QED
  BY InitTyped, <1>1, PTL DEF Spec

LEMMA WriterPlaces ==
  /\ WriterAt["program.bc"] = {"compile", "write"} /\ WriterAt["parallel.bc"] = {"write_parallel"}
  /\ WriterAt["so"] = {"linked"} /\ WriterAt["object"] = {"write_object"}
  /\ \A n \in Names : WriterAt[n] \subseteq Writing
BY DEF WriterAt, Names, Writing

\* What one actor may do to the files without leaving one that nobody writes.
LEMMA Kept ==
  ASSUME Typed, PartialOwned, NEW a \in Actors, torn' = torn,
         \A b \in Actors \ {a} : actor'[b].at = actor[b].at,
         \A n \in Names :
           \/ ~Partial(n)'
           \/ file'[n] = file[n] /\ (file[n].by # a \/ actor[a].at \notin WriterAt[n])
           \/ file'[n].by = a /\ actor'[a].at \in WriterAt[n]
  PROVE  PartialOwned'
<1> SUFFICES ASSUME ~torn, NEW n \in Names, Partial(n)'
             PROVE  actor'[file'[n].by].at \in WriterAt[n]
  BY DEF PartialOwned, WriterAt, Names
<1>1. CASE file'[n] = file[n] /\ (file[n].by # a \/ actor[a].at \notin WriterAt[n])
  <2>1. file[n].by \in Actors
    BY <1>1 DEF Typed, Copies, Partial
  <2>2. actor[file[n].by].at \in WriterAt[n]
    BY <1>1 DEF PartialOwned, Partial
  <2>3. QED
    BY <1>1, <2>1, <2>2
<1>2. CASE file'[n].by = a /\ actor'[a].at \in WriterAt[n]
  BY <1>2
<1>3. QED
  BY <1>1, <1>2

\* Moving one actor leaves the others where they are.
LEMMA OthersStay ==
  ASSUME Typed, NEW a \in Actors, NEW r, actor' = [actor EXCEPT ![a] = r]
  PROVE  \A b \in Actors \ {a} : actor'[b].at = actor[b].at
BY DEF Typed

LEMMA GoneTo ==
  ASSUME Typed, NEW a \in Actors, NEW s, Goto(a, s)
  PROVE  actor'[a].at = s /\ \A b \in Actors \ {a} : actor'[b].at = actor[b].at
<1>1. actor' = [actor EXCEPT ![a] = [actor[a] EXCEPT !.at = s]]
  BY DEF Goto
<1>2. actor[a] \in ActorStates
  BY DEF Typed
<1>3. QED
  BY <1>1, <1>2, OthersStay DEF Typed, ActorStates

\* Where processes end, a file that nobody writes any more is counted as torn.
LEMMA EndKept ==
  ASSUME Typed, PartialOwned, torn => torn',
         \A n \in Names : file'[n] = file[n] \/ file'[n] = None,
         \A b \in Actors, n \in Names :
           actor'[b].at # actor[b].at /\ actor[b].at \in WriterAt[n] => torn' \/ file'[n] = None
  PROVE  PartialOwned'
<1> SUFFICES ASSUME ~torn', NEW n \in Names, Partial(n)'
             PROVE  actor'[file'[n].by].at \in WriterAt[n]
  BY DEF PartialOwned, WriterAt, Names
<1>1. file'[n] = file[n] /\ Partial(n) /\ file'[n] # None
  BY DEF Partial
<1>2. file[n].by \in Actors
  BY <1>1 DEF Typed, Copies, Partial
<1>3. actor[file[n].by].at \in WriterAt[n]
  BY <1>1 DEF PartialOwned
<1>4. QED
  BY <1>1, <1>2, <1>3

\* Each file that is not whole has its writer, until a process is stopped.
LEMMA WritersKnown == Spec => []PartialOwned
<1>1. Init => PartialOwned
  BY DEF Init, PartialOwned, NoFiles, Partial
<1>2. Typed /\ PartialOwned /\ [Next]_vars => PartialOwned'
  <2> SUFFICES ASSUME Typed, PartialOwned, [Next]_vars
               PROVE  PartialOwned'
    OBVIOUS
  <2> USE DEF Names, rest
  <2>1. ASSUME NEW a \in Actors, Build(a) PROVE PartialOwned'
    <3>1. \A b \in Actors \ {a} : actor'[b].at = actor[b].at
      <4>1. TAKE b \in Actors \ {a}
      <4>2. actor'[b] = [actor[b] EXCEPT !.alone = actor[b].alone /\ actor[b].at \in AtRest]
        BY <2>1 DEF Build
      <4>3. actor[b] \in ActorStates
        BY DEF Typed
      <4>4. QED
        BY <4>2, <4>3 DEF ActorStates
    <3>2. \A m \in Names : file'[m] = None \/ file'[m] = file[m]
      BY <2>1 DEF Build, Invalidated, NoFiles
    <3>3. actor[a].at = "idle" /\ torn' = torn
      BY <2>1 DEF Build, At
    <3>4. \A m \in Names : actor[a].at \notin WriterAt[m]
      BY <3>3, WriterPlaces
    <3>5. QED
      BY <3>1, <3>2, <3>3, <3>4, Kept DEF Partial
  <2>2. ASSUME NEW a \in Actors, OpenProgram(a) PROVE PartialOwned'
    <3>1. actor[a].at = "open" /\ torn' = torn /\ \A m \in Names : actor[a].at \notin WriterAt[m]
      BY <2>2, WriterPlaces DEF OpenProgram, At
    <3>2. CASE file["program.bc"] = None
      <4>1. actor'[a].at = "compile" /\ \A b \in Actors \ {a} : actor'[b].at = actor[b].at
        BY <2>2, <3>2, GoneTo DEF OpenProgram
      <4>2. /\ file'["program.bc"].by = a
            /\ \A m \in Names \ {"program.bc"} : file'[m] = file[m]
        <5>1. PICK v : file' = [file EXCEPT !["program.bc"] = Created(a, v)]
          BY <2>2, <3>2 DEF OpenProgram
        <5>2. Created(a, v).by = a
          BY DEF Created
        <5>3. QED
          BY <5>1, <5>2 DEF Typed
      <4>3. actor'[a].at \in WriterAt["program.bc"]
        BY <4>1, WriterPlaces
      <4>4. \A m \in Names :
              \/ ~Partial(m)'
              \/ file'[m] = file[m] /\ (file[m].by # a \/ actor[a].at \notin WriterAt[m])
              \/ file'[m].by = a /\ actor'[a].at \in WriterAt[m]
        <5>1. TAKE m \in Names
        <5>2. CASE m = "program.bc"
          BY <4>2, <4>3, <5>2
        <5>3. CASE m # "program.bc"
          BY <3>1, <4>2, <5>3
        <5>4. QED
          BY <5>2, <5>3
      <4>5. torn' = torn
        BY <3>1
      <4>6. QED
        BY <4>1, <4>4, <4>5, Kept
    <3>3. CASE file["program.bc"] # None
      <4>1. \A b \in Actors \ {a} : actor'[b].at = actor[b].at
        BY <2>2, <3>3, GoneTo DEF OpenProgram
      <4>2. \A m \in Names : file'[m] = file[m]
        BY <2>2, <3>3 DEF OpenProgram
      <4>3. QED
        BY <3>1, <4>1, <4>2, Kept
    <3>4. QED
      BY <3>2, <3>3
  <2>3. ASSUME NEW a \in Actors, Compile(a) PROVE PartialOwned'
    <3>1. actor'[a].at = "write" /\ \A b \in Actors \ {a} : actor'[b].at = actor[b].at
      BY <2>3 DEF Compile, Typed, ActorStates
    <3>2. actor[a].at = "compile" /\ torn' = torn /\ file' = file
      BY <2>3 DEF Compile, At
    <3>3. \A m \in Names : m = "program.bc" \/ actor[a].at \notin WriterAt[m]
      BY <3>2, WriterPlaces
    <3>4. QED
      BY <3>1, <3>2, <3>3, WriterPlaces, Kept
  <2>4. ASSUME NEW a \in Actors, CompileFails(a) PROVE PartialOwned'
    <3>1. actor'[a].at = "refused" /\ \A b \in Actors \ {a} : actor'[b].at = actor[b].at
      BY <2>4, GoneTo DEF CompileFails
    <3>2. actor[a].at = "compile" /\ torn' = torn
      BY <2>4 DEF CompileFails, At
    <3>3. \A m \in Names : m = "program.bc" \/ actor[a].at \notin WriterAt[m]
      BY <3>2, WriterPlaces
    <3>4. \A m \in Names \ {"program.bc"} : file'[m] = file[m]
      BY <2>4 DEF CompileFails, Typed
    <3>5. file'["program.bc"] = None
      BY <2>4 DEF CompileFails, Typed, Copies
    <3>6. QED
      BY <3>1, <3>2, <3>3, <3>4, <3>5, Kept DEF Partial
  <2>5. ASSUME NEW a \in Actors, WriteProgram(a) PROVE PartialOwned'
    <3>1. actor'[a].at = "read" /\ \A b \in Actors \ {a} : actor'[b].at = actor[b].at
      BY <2>5, GoneTo DEF WriteProgram
    <3>2. actor[a].at = "write" /\ torn' = torn
      BY <2>5 DEF WriteProgram, At
    <3>3. \A m \in Names : m = "program.bc" \/ actor[a].at \notin WriterAt[m]
      BY <3>2, WriterPlaces
    <3>4. \A m \in Names \ {"program.bc"} : file'[m] = file[m]
      BY <2>5 DEF WriteProgram, Typed
    <3>5. ~Partial("program.bc")' \/ (file'["program.bc"] = file["program.bc"] /\ file["program.bc"].by # a)
      BY <2>5 DEF WriteProgram, Typed, Copies, Partial
    <3>6. QED
      BY <3>1, <3>2, <3>3, <3>4, <3>5, Kept DEF Partial
  <2>6. ASSUME NEW a \in Actors, WriteParallel(a) PROVE PartialOwned'
    <3>1. actor'[a].at = "queued" /\ \A b \in Actors \ {a} : actor'[b].at = actor[b].at
      BY <2>6, GoneTo DEF WriteParallel
    <3>2. actor[a].at = "write_parallel" /\ torn' = torn
      BY <2>6 DEF WriteParallel, At
    <3>3. \A m \in Names : m = "parallel.bc" \/ actor[a].at \notin WriterAt[m]
      BY <3>2, WriterPlaces
    <3>4. \A m \in Names \ {"parallel.bc"} : file'[m] = file[m]
      BY <2>6 DEF WriteParallel, Typed, Written
    <3>5. ~Partial("parallel.bc")' \/ (file'["parallel.bc"] = file["parallel.bc"] /\ file["parallel.bc"].by # a)
      BY <2>6 DEF WriteParallel, Typed, Copies, Written, Partial
    <3>6. QED
      BY <3>1, <3>2, <3>3, <3>4, <3>5, Kept DEF Partial
  <2>7. ASSUME NEW a \in Actors, FinishLink(a) PROVE PartialOwned'
    <3>1. actor'[a].at = "clean" /\ \A b \in Actors \ {a} : actor'[b].at = actor[b].at
      BY <2>7, GoneTo DEF FinishLink
    <3>2. actor[a].at = "linked" /\ torn' = torn
      BY <2>7 DEF FinishLink, At
    <3>3. \A m \in Names : m = "so" \/ actor[a].at \notin WriterAt[m]
      BY <3>2, WriterPlaces
    <3>4. \A m \in Names \ {"so"} : file'[m] = file[m]
      BY <2>7 DEF FinishLink, Typed, Written
    <3>5. ~Partial("so")' \/ (file'["so"] = file["so"] /\ file["so"].by # a)
      BY <2>7 DEF FinishLink, Typed, Copies, Written, Partial
    <3>6. QED
      BY <3>1, <3>2, <3>3, <3>4, <3>5, Kept DEF Partial
  <2>8. ASSUME NEW a \in Actors, Generate(a) PROVE PartialOwned'
    <3>1. actor[a].at = "generate" /\ torn' = torn /\ \A m \in Names : actor[a].at \notin WriterAt[m]
      BY <2>8, WriterPlaces DEF Generate, At
    <3>2. CASE file["parallel.bc"] = None
      <4>1. actor'[a].at = "write_parallel" /\ \A b \in Actors \ {a} : actor'[b].at = actor[b].at
        BY <2>8, <3>2, GoneTo DEF Generate
      <4>2. /\ file'["parallel.bc"].by = a
            /\ \A m \in Names \ {"parallel.bc"} : file'[m] = file[m]
        <5>1. PICK v : file' = [file EXCEPT !["parallel.bc"] = Created(a, v)]
          BY <2>8, <3>2 DEF Generate
        <5>2. Created(a, v).by = a
          BY DEF Created
        <5>3. QED
          BY <5>1, <5>2 DEF Typed
      <4>3. actor'[a].at \in WriterAt["parallel.bc"]
        BY <4>1, WriterPlaces
      <4>4. \A m \in Names :
              \/ ~Partial(m)'
              \/ file'[m] = file[m] /\ (file[m].by # a \/ actor[a].at \notin WriterAt[m])
              \/ file'[m].by = a /\ actor'[a].at \in WriterAt[m]
        <5>1. TAKE m \in Names
        <5>2. CASE m = "parallel.bc"
          BY <4>2, <4>3, <5>2
        <5>3. CASE m # "parallel.bc"
          BY <3>1, <4>2, <5>3
        <5>4. QED
          BY <5>2, <5>3
      <4>5. torn' = torn
        BY <3>1
      <4>6. QED
        BY <4>1, <4>4, <4>5, Kept
    <3>3. CASE file["parallel.bc"] # None
      <4>1. \A b \in Actors \ {a} : actor'[b].at = actor[b].at
        BY <2>8, <3>3, GoneTo DEF Generate
      <4>2. \A m \in Names : file'[m] = file[m]
        BY <2>8, <3>3 DEF Generate
      <4>3. QED
        BY <3>1, <4>1, <4>2, Kept
    <3>4. QED
      BY <3>2, <3>3
  <2>9. ASSUME NEW a \in Actors, ReadProgram(a) PROVE PartialOwned'
    <3>1. \A b \in Actors \ {a} : actor'[b].at = actor[b].at
      BY <2>9, GoneTo DEF ReadProgram, Typed
    <3>2. actor[a].at \in {"read"} /\ torn' = torn
      BY <2>9 DEF ReadProgram, At
    <3>3. \A m \in Names : actor[a].at \notin WriterAt[m]
      BY <3>2, WriterPlaces DEF Writing
    <3>4. \A m \in Names : file'[m] = None \/ file'[m] = file[m]
      BY <2>9 DEF ReadProgram, Typed
    <3>5. QED
      BY <3>1, <3>2, <3>3, <3>4, Kept DEF Partial
  <2>10. ASSUME NEW a \in Actors, Enqueue(a) PROVE PartialOwned'
    <3>1. \A b \in Actors \ {a} : actor'[b].at = actor[b].at
      BY <2>10, GoneTo DEF Enqueue, Typed
    <3>2. actor[a].at \in {"enqueue"} /\ torn' = torn
      BY <2>10 DEF Enqueue, At
    <3>3. \A m \in Names : actor[a].at \notin WriterAt[m]
      BY <3>2, WriterPlaces DEF Writing
    <3>4. \A m \in Names : file'[m] = None \/ file'[m] = file[m]
      BY <2>10 DEF Enqueue, Typed
    <3>5. QED
      BY <3>1, <3>2, <3>3, <3>4, Kept DEF Partial
  <2>11. ASSUME NEW a \in Actors, Check(a) PROVE PartialOwned'
    <3>1. \A b \in Actors \ {a} : actor'[b].at = actor[b].at
      BY <2>11, GoneTo DEF Check, Typed
    <3>2. actor[a].at \in {"queued"} /\ torn' = torn
      BY <2>11 DEF Check, At
    <3>3. \A m \in Names : actor[a].at \notin WriterAt[m]
      BY <3>2, WriterPlaces DEF Writing
    <3>4. \A m \in Names : file'[m] = None \/ file'[m] = file[m]
      BY <2>11 DEF Check, Typed
    <3>5. QED
      BY <3>1, <3>2, <3>3, <3>4, Kept DEF Partial
  <2>24. ASSUME NEW a \in Actors, InitLock(a) PROVE PartialOwned'
    <3>1. \A b \in Actors \ {a} : actor'[b].at = actor[b].at
      BY <2>24, GoneTo DEF InitLock, Typed
    <3>2. actor[a].at \in {"init"} /\ torn' = torn
      BY <2>24 DEF InitLock, At
    <3>3. \A m \in Names : actor[a].at \notin WriterAt[m]
      BY <3>2, WriterPlaces DEF Writing
    <3>4. \A m \in Names : file'[m] = None \/ file'[m] = file[m]
      BY <2>24 DEF InitLock, Typed
    <3>5. QED
      BY <3>1, <3>2, <3>3, <3>4, Kept DEF Partial
  <2>25. ASSUME NEW a \in Actors, Lock(a) PROVE PartialOwned'
    <3>1. \A b \in Actors \ {a} : actor'[b].at = actor[b].at
      BY <2>25, GoneTo DEF Lock, Typed
    <3>2. actor[a].at \in {"lock", "slept"} /\ torn' = torn
      BY <2>25 DEF Lock, At
    <3>3. \A m \in Names : actor[a].at \notin WriterAt[m]
      BY <3>2, WriterPlaces DEF Writing
    <3>4. \A m \in Names : file'[m] = None \/ file'[m] = file[m]
      BY <2>25 DEF Lock, Typed
    <3>5. QED
      BY <3>1, <3>2, <3>3, <3>4, Kept DEF Partial
  <2>26. ASSUME NEW a \in Actors, Sleep(a) PROVE PartialOwned'
    <3>1. \A b \in Actors \ {a} : actor'[b].at = actor[b].at
      BY <2>26, GoneTo DEF Sleep, Typed
    <3>2. actor[a].at \in {"lock", "slept"} /\ torn' = torn
      BY <2>26 DEF Sleep, At
    <3>3. \A m \in Names : actor[a].at \notin WriterAt[m]
      BY <3>2, WriterPlaces DEF Writing
    <3>4. \A m \in Names : file'[m] = None \/ file'[m] = file[m]
      BY <2>26 DEF Sleep, Typed
    <3>5. QED
      BY <3>1, <3>2, <3>3, <3>4, Kept DEF Partial
  <2>12. ASSUME NEW a \in Actors, Scan(a) PROVE PartialOwned'
    <3>1. \A b \in Actors \ {a} : actor'[b].at = actor[b].at
      BY <2>12, GoneTo DEF Scan, Typed
    <3>2. actor[a].at \in {"scan"} /\ torn' = torn
      BY <2>12 DEF Scan, At
    <3>3. \A m \in Names : actor[a].at \notin WriterAt[m]
      BY <3>2, WriterPlaces DEF Writing
    <3>4. \A m \in Names : file'[m] = None \/ file'[m] = file[m]
      BY <2>12 DEF Scan, Typed
    <3>5. QED
      BY <3>1, <3>2, <3>3, <3>4, Kept DEF Partial
  <2>13. ASSUME NEW a \in Actors, Load(a) PROVE PartialOwned'
    <3>1. \A b \in Actors \ {a} : actor'[b].at = actor[b].at
      BY <2>13, GoneTo DEF Load, Typed
    <3>2. actor[a].at \in {"load"} /\ torn' = torn
      BY <2>13 DEF Load, At
    <3>3. \A m \in Names : actor[a].at \notin WriterAt[m]
      BY <3>2, WriterPlaces DEF Writing
    <3>4. \A m \in Names : file'[m] = None \/ file'[m] = file[m]
      BY <2>13 DEF Load, Typed
    <3>5. QED
      BY <3>1, <3>2, <3>3, <3>4, Kept DEF Partial
  <2>14. ASSUME NEW a \in Actors, Clean(a) PROVE PartialOwned'
    <3>1. \A b \in Actors \ {a} : actor'[b].at = actor[b].at
      BY <2>14, GoneTo DEF Clean, Typed
    <3>2. actor[a].at \in {"clean"} /\ torn' = torn
      BY <2>14 DEF Clean, At
    <3>3. \A m \in Names : actor[a].at \notin WriterAt[m]
      BY <3>2, WriterPlaces DEF Writing
    <3>4. \A m \in Names : file'[m] = None \/ file'[m] = file[m]
      BY <2>14 DEF Clean, Typed
    <3>5. QED
      BY <3>1, <3>2, <3>3, <3>4, Kept DEF Partial
  <2>15. ASSUME NEW a \in Actors, Release(a) PROVE PartialOwned'
    <3>1. \A b \in Actors \ {a} : actor'[b].at = actor[b].at
      BY <2>15 DEF Release, Typed
    <3>2. actor[a].at \in {"ran", "refused", "failed"} /\ torn' = torn
      BY <2>15 DEF Release, At
    <3>3. \A m \in Names : actor[a].at \notin WriterAt[m]
      BY <3>2, WriterPlaces DEF Writing
    <3>4. \A m \in Names : file'[m] = None \/ file'[m] = file[m]
      BY <2>15 DEF Release, Typed, NoFiles
    <3>5. QED
      BY <3>1, <3>2, <3>3, <3>4, Kept DEF Partial
  <2>16. ASSUME NEW a \in Actors, actor[a].at \notin Writing \ {"write_object"}, Dies(a)
         PROVE  PartialOwned'
    <3>1. \A b \in Actors : b # a /\ b \notin ProcessMates(a) => actor'[b] = [actor[b] EXCEPT !.at = @]
      BY <2>16 DEF Dies
    <3>2. \A b \in Actors : b # a /\ b \notin ProcessMates(a) => actor'[b].at = actor[b].at
      BY <3>1 DEF Typed, ActorStates
    <3>3. /\ torn => torn'
          /\ \A b \in ProcessMates(a) : actor[b].at \in Writing \ {"write_object"} => torn'
      BY <2>16 DEF Dies
    <3>4. /\ \A m \in Names : file'[m] = file[m] \/ file'[m] = None
          /\ \A b \in {a} \cup ProcessMates(a) : actor[b].at = "write_object" => file'["object"] = None
      BY <2>16 DEF Dies, At, Typed
    <3>5. ASSUME NEW b \in Actors, NEW m \in Names, actor'[b].at # actor[b].at, actor[b].at \in WriterAt[m]
          PROVE  torn' \/ file'[m] = None
      <4>1. b \in {a} \cup ProcessMates(a) /\ actor[b].at \in Writing
        BY <3>2, <3>5, WriterPlaces
      <4>2. CASE actor[b].at = "write_object"
        BY <3>4, <3>5, <4>1, <4>2, WriterPlaces
      <4>3. CASE actor[b].at # "write_object"
        BY <2>16, <3>3, <4>1, <4>3
      <4>4. QED
        BY <4>2, <4>3
    <3>6. QED
      BY <3>3, <3>4, <3>5, EndKept
  <2>17. ASSUME NEW a \in Actors, Codegen(a) PROVE PartialOwned'
    <3>1. /\ actor[a].at = "codegen" /\ torn' = torn /\ \A m \in Names : actor[a].at \notin WriterAt[m]
          /\ file' = [file EXCEPT !["object"] = Created(a, version)] /\ Goto(a, "write_object")
      BY <2>17, WriterPlaces DEF Codegen, At
    <3>2. actor'[a].at = "write_object" /\ \A b \in Actors \ {a} : actor'[b].at = actor[b].at
      BY <3>1, GoneTo
    <3>3. file'["object"].by = a /\ \A m \in Names \ {"object"} : file'[m] = file[m]
      BY <3>1 DEF Created, Typed
    <3>4. QED
      BY <3>1, <3>2, <3>3, WriterPlaces, Kept
  <2>27. ASSUME NEW a \in Actors, WriteObject(a) PROVE PartialOwned'
    <3>1. actor[a].at = "write_object" /\ \A m \in Names \ {"object"} : actor[a].at \notin WriterAt[m]
      BY <2>27, WriterPlaces DEF WriteObject, At
    <3>2. CASE Whole("parallel.bc")
      <4>1. \A b \in Actors \ {a} : actor'[b].at = actor[b].at
        BY <2>27, <3>2, GoneTo DEF WriteObject
      <4>2. /\ \A m \in Names \ {"object"} : file'[m] = file[m]
            /\ ~Partial("object")' \/ (file'["object"] = file["object"] /\ file["object"].by # a)
        BY <2>27, <3>2 DEF WriteObject, Typed, Partial
      <4>3. torn' = torn
        BY <2>27, <3>2 DEF WriteObject
      <4>4. QED
        BY <3>1, <4>1, <4>2, <4>3, Kept
    <3>3. CASE ~Whole("parallel.bc")
      BY <2>27, <3>1, <3>3, <2>16 DEF WriteObject
    <3>4. QED
      BY <3>2, <3>3
  <2>18. ASSUME NEW a \in Actors, StartLink(a) PROVE PartialOwned'
    <3>1. actor[a].at = "link" /\ \A m \in Names : actor[a].at \notin WriterAt[m]
      BY <2>18, WriterPlaces DEF StartLink, At
    <3>2. CASE Whole("object")
      <4>1. actor'[a].at = "linked" /\ \A b \in Actors \ {a} : actor'[b].at = actor[b].at
        BY <2>18, <3>2, GoneTo DEF StartLink
      <4>2. file'["so"].by = a /\ \A m \in Names \ {"so"} : file'[m] = file[m]
        BY <2>18, <3>2 DEF StartLink, Created, Typed
      <4>3. torn' = torn
        BY <2>18, <3>2 DEF StartLink
      <4>4. QED
        BY <3>1, <4>1, <4>2, <4>3, WriterPlaces, Kept
    <3>3. CASE ~Whole("object")
      BY <2>18, <3>1, <3>3, <2>16 DEF StartLink, Writing
    <3>4. QED
      BY <3>2, <3>3
  <2>19. ASSUME NEW a \in Actors, DlOpen(a) PROVE PartialOwned'
    <3>1. actor[a].at = "dlopen" /\ \A m \in Names : actor[a].at \notin WriterAt[m]
      BY <2>19, WriterPlaces DEF DlOpen, At
    <3>2. CASE Whole("so")
      <4>1. \A b \in Actors \ {a} : actor'[b].at = actor[b].at
        BY <2>19, <3>2 DEF DlOpen, Typed
      <4>2. file' = file /\ torn' = torn
        BY <2>19, <3>2 DEF DlOpen
      <4>3. QED
        BY <3>1, <4>1, <4>2, Kept
    <3>3. CASE ~(Whole("so"))
      BY <2>19, <3>1, <3>3, <2>16 DEF DlOpen, Writing
    <3>4. QED
      BY <3>2, <3>3
  <2>20. CASE Edit
    BY <2>20, EndKept DEF Edit
  <2>21. ASSUME NEW p \in Processes, Crash(p) PROVE PartialOwned'
    <3>1. \A b \in Actors : ProcessOf[b] # p => actor'[b] = actor[b]
      BY <2>21 DEF Crash
    <3>2. /\ file' = file /\ (torn => torn')
          /\ \A b \in Actors : ProcessOf[b] = p /\ actor[b].at \in Writing => torn'
      BY <2>21 DEF Crash
    <3>3. QED
      BY <3>1, <3>2, WriterPlaces, EndKept
  <2>22. CASE UNCHANGED vars
    BY <2>22, EndKept DEF vars
  <2>23. QED
    BY <2>1, <2>2, <2>3, <2>4, <2>5, <2>6, <2>7, <2>8, <2>9, <2>10, <2>11, <2>12, <2>13, <2>14, <2>15, <2>17, <2>18, <2>19, <2>20, <2>21, <2>22, <2>24, <2>25, <2>26, <2>27 DEF Next, CallStep
<1>3. QED
  BY <1>1, <1>2, Types, PTL DEF Spec

\* No failed build, assert or removal by another process leaves a file for good
\* that is not whole: only a process that is stopped while it writes does.
THEOREM PartialFilesAreBeingWritten == Spec => []PartialIsBeingWritten
<1>1. PartialOwned => PartialIsBeingWritten
  BY WriterPlaces DEF PartialOwned, PartialIsBeingWritten
<1>2. QED
  BY <1>1, WritersKnown, PTL
-----------------------------------------------------------------------------
\* One actor goes to s; what its program is called, and the others, stay.
Moves(a, s) ==
  /\ actor'[a].at = s
  /\ actor'[a].alone = actor[a].alone /\ actor'[a].warm = actor[a].warm
  /\ \A b \in Actors \ {a} : actor'[b] = actor[b]

LEMMA GotoMoves ==
  ASSUME Typed, NEW a \in Actors, NEW s, Goto(a, s)
  PROVE  Moves(a, s)
<1>1. actor' = [actor EXCEPT ![a] = [actor[a] EXCEPT !.at = s]] /\ actor[a] \in ActorStates
  BY DEF Goto, Typed
<1>2. actor'[a] = [actor[a] EXCEPT !.at = s] /\ \A b \in Actors \ {a} : actor'[b] = actor[b]
  BY <1>1 DEF Typed
<1>3. QED
  BY <1>1, <1>2 DEF ActorStates, Moves

LEMMA GotoWithIrMoves ==
  ASSUME Typed, NEW a \in Actors, NEW s, NEW v,
         actor' = [actor EXCEPT ![a].at = s, ![a].ir = v]
  PROVE  Moves(a, s)
<1>1. actor[a] \in ActorStates /\ actor'[a] = [actor[a] EXCEPT !.at = s, !.ir = v]
  BY DEF Typed
<1>2. \A b \in Actors \ {a} : actor'[b] = actor[b]
  BY DEF Typed
<1>3. /\ actor'[a].at = s
      /\ actor'[a].alone = actor[a].alone /\ actor'[a].warm = actor[a].warm
  BY <1>1 DEF ActorStates
<1>4. QED
  BY <1>2, <1>3 DEF Moves

LEMMA GotoWithRunsMoves ==
  ASSUME Typed, NEW a \in Actors, NEW s, NEW v,
         actor' = [actor EXCEPT ![a].at = s, ![a].runs = v]
  PROVE  Moves(a, s)
<1>1. actor[a] \in ActorStates /\ actor'[a] = [actor[a] EXCEPT !.at = s, !.runs = v]
  BY DEF Typed
<1>2. \A b \in Actors \ {a} : actor'[b] = actor[b]
  BY DEF Typed
<1>3. /\ actor'[a].at = s
      /\ actor'[a].alone = actor[a].alone /\ actor'[a].warm = actor[a].warm
  BY <1>1 DEF ActorStates
<1>4. QED
  BY <1>2, <1>3 DEF Moves

\* What a step of one actor leaves as it was, whatever the step.
Frame(a) ==
  /\ mode' = mode /\ (torn => torn')
  /\ \A b \in Actors : actor'[b].alone = actor[b].alone /\ actor'[b].warm = actor[b].warm
  /\ \A b \in Actors \ {a} : actor'[b].at \in {actor[b].at, "killed"}

LEMMA MovesFrame ==
  ASSUME NEW a \in Actors, NEW s, Moves(a, s), mode' = mode, torn' = torn
  PROVE  Frame(a)
BY DEF Moves, Frame

LEMMA DiesFrame ==
  ASSUME Typed, NEW a \in Actors, Dies(a)
  PROVE  Frame(a) /\ actor'[a].at = "dead"
<1> DEFINE s(b) == IF b = a THEN "dead" ELSE IF b \in ProcessMates(a) THEN "killed" ELSE actor[b].at
<1>1. \A b \in Actors : actor[b] \in ActorStates /\ actor'[b] = [actor[b] EXCEPT !.at = s(b)]
  BY DEF Dies, Typed
<1>2. \A b \in Actors \ {a} : s(b) \in {actor[b].at, "killed"}
  OBVIOUS
<1>3. s(a) = "dead"
  OBVIOUS
<1> HIDE DEF s
<1>4. \A b \in Actors : /\ actor'[b].at = s(b)
                        /\ actor'[b].alone = actor[b].alone /\ actor'[b].warm = actor[b].warm
  BY <1>1 DEF ActorStates
<1>5. QED
  BY <1>2, <1>3, <1>4 DEF Dies, Frame

\* A thread that takes a step of a call is in that call, and the others stay
\* where they are unless it ends the process.
LEMMA CallFrame ==
  ASSUME Typed, NEW a \in Actors, CallStep(a)
  PROVE  actor[a].at \notin Done /\ Frame(a)
<1> USE DEF Done, AtRest, At, rest
<1>1. CASE OpenProgram(a)
  <2>1. actor[a].at = "open" /\ mode' = mode /\ torn' = torn /\ \E s \in {"compile", "read"} : Goto(a, s)
    BY <1>1 DEF OpenProgram
  <2>2. QED
    BY <2>1, GotoMoves, MovesFrame
<1>2. CASE Compile(a)
  <2>1. Moves(a, "write")
    BY <1>2, GotoWithIrMoves DEF Compile
  <2>2. QED
    BY <1>2, <2>1, MovesFrame DEF Compile
<1>3. CASE CompileFails(a)
  <2>1. actor[a].at = "compile" /\ mode' = mode /\ torn' = torn /\ \E s \in Places : Goto(a, s)
    BY <1>3 DEF CompileFails, Places, Writing
  <2>2. QED
    BY <2>1, GotoMoves, MovesFrame
<1>4. CASE WriteProgram(a)
  <2>1. actor[a].at = "write" /\ mode' = mode /\ torn' = torn /\ \E s \in Places : Goto(a, s)
    BY <1>4 DEF WriteProgram, Places, Writing
  <2>2. QED
    BY <2>1, GotoMoves, MovesFrame
<1>5. CASE Enqueue(a)
  <2>1. actor[a].at = "enqueue" /\ mode' = mode /\ torn' = torn /\ \E s \in Places : Goto(a, s)
    BY <1>5 DEF Enqueue, Places, Writing
  <2>2. QED
    BY <2>1, GotoMoves, MovesFrame
<1>6. CASE WriteParallel(a)
  <2>1. actor[a].at = "write_parallel" /\ mode' = mode /\ torn' = torn /\ \E s \in Places : Goto(a, s)
    BY <1>6 DEF WriteParallel, Places, Writing
  <2>2. QED
    BY <2>1, GotoMoves, MovesFrame
<1>7. CASE Check(a)
  <2>1. actor[a].at = "queued" /\ mode' = mode /\ torn' = torn /\ \E s \in Places : Goto(a, s)
    BY <1>7 DEF Check, Places, Writing
  <2>2. QED
    BY <2>1, GotoMoves, MovesFrame
<1>18. CASE InitLock(a)
  <2>1. actor[a].at = "init" /\ mode' = mode /\ torn' = torn /\ \E s \in Places : Goto(a, s)
    BY <1>18 DEF InitLock, Places, Writing
  <2>2. QED
    BY <2>1, GotoMoves, MovesFrame
<1>19. CASE Lock(a)
  <2>1. actor[a].at \in {"lock", "slept"} /\ mode' = mode /\ torn' = torn /\ \E s \in Places : Goto(a, s)
    BY <1>19 DEF Lock, Places, Writing
  <2>2. QED
    BY <2>1, GotoMoves, MovesFrame
<1>20. CASE Sleep(a)
  <2>1. actor[a].at \in {"lock", "slept"} /\ mode' = mode /\ torn' = torn /\ \E s \in Places : Goto(a, s)
    BY <1>20 DEF Sleep, Places, Writing
  <2>2. QED
    BY <2>1, GotoMoves, MovesFrame
<1>8. CASE Load(a)
  <2>1. actor[a].at = "load" /\ mode' = mode /\ torn' = torn /\ \E s \in Places : Goto(a, s)
    BY <1>8 DEF Load, Places, Writing
  <2>2. QED
    BY <2>1, GotoMoves, MovesFrame
<1>9. CASE FinishLink(a)
  <2>1. actor[a].at = "linked" /\ mode' = mode /\ torn' = torn /\ \E s \in Places : Goto(a, s)
    BY <1>9 DEF FinishLink, Places, Writing
  <2>2. QED
    BY <2>1, GotoMoves, MovesFrame
<1>10. CASE Clean(a)
  <2>1. actor[a].at = "clean" /\ mode' = mode /\ torn' = torn /\ \E s \in Places : Goto(a, s)
    BY <1>10 DEF Clean, Places, Writing
  <2>2. QED
    BY <2>1, GotoMoves, MovesFrame
<1>11. CASE ReadProgram(a)
  <2>1. actor[a].at = "read" /\ mode' = mode /\ torn' = torn
    BY <1>11 DEF ReadProgram
  <2>2. CASE Goto(a, "failed")
    BY <2>1, <2>2, GotoMoves, MovesFrame
  <2>3. CASE \E v : actor' = [actor EXCEPT ![a].at = "enqueue", ![a].ir = v]
    BY <2>1, <2>3, GotoWithIrMoves, MovesFrame
  <2>4. QED
    BY <1>11, <2>2, <2>3 DEF ReadProgram
<1>12. CASE Generate(a)
  <2>1. actor[a].at = "generate" /\ mode' = mode /\ torn' = torn /\ \E s \in {"write_parallel", "queued"} : Goto(a, s)
    BY <1>12 DEF Generate
  <2>2. QED
    BY <2>1, GotoMoves, MovesFrame
<1>13. CASE Scan(a)
  <2>1. \E s, v : actor' = [actor EXCEPT ![a].at = s, ![a].runs = v]
    BY <1>13 DEF Scan
  <2>2. QED
    BY <1>13, <2>1, GotoWithRunsMoves, MovesFrame DEF Scan
<1>14. CASE Codegen(a)
  <2>1. actor[a].at = "codegen" /\ mode' = mode /\ torn' = torn /\ Goto(a, "write_object")
    BY <1>14 DEF Codegen
  <2>2. QED
    BY <2>1, GotoMoves, MovesFrame
<1>21. CASE WriteObject(a)
  <2>1. CASE Whole("parallel.bc")
    BY <1>21, <2>1, GotoMoves, MovesFrame DEF WriteObject
  <2>2. CASE ~Whole("parallel.bc")
    BY <1>21, <2>2, DiesFrame DEF WriteObject
  <2>3. QED
    BY <2>1, <2>2
<1>15. CASE StartLink(a)
  <2>1. CASE Whole("object")
    BY <1>15, <2>1, GotoMoves, MovesFrame DEF StartLink
  <2>2. CASE ~Whole("object")
    BY <1>15, <2>2, DiesFrame DEF StartLink
  <2>3. QED
    BY <2>1, <2>2
<1>16. CASE DlOpen(a)
  <2>1. CASE Whole("so")
    <3>1. Moves(a, "ran")
      BY <1>16, <2>1, GotoWithRunsMoves DEF DlOpen
    <3>2. QED
      BY <1>16, <2>1, <3>1, MovesFrame DEF DlOpen
  <2>2. CASE ~Whole("so")
    BY <1>16, <2>2, DiesFrame DEF DlOpen
  <2>3. QED
    BY <2>1, <2>2
<1>17. QED
  BY <1>1, <1>2, <1>3, <1>4, <1>5, <1>6, <1>7, <1>8, <1>9, <1>10, <1>11, <1>12, <1>13, <1>14, <1>15, <1>16, <1>18, <1>19, <1>20, <1>21 DEF CallStep

\* A launch that ran has called a function that was loaded.
LEMMA FunctionCall ==
  ASSUME Typed, FunctionKnown, NEW a \in Actors, CallStep(a)
  PROVE  FunctionKnown'
<1>1. ASSUME NEW s, s # "ran", Moves(a, s) PROVE FunctionKnown'
  BY <1>1 DEF FunctionKnown, Moves
<1>2. ASSUME NEW s, s # "ran", Goto(a, s) PROVE FunctionKnown'
  BY <1>1, <1>2, GotoMoves
<1>3. ASSUME Dies(a) PROVE FunctionKnown'
  <2>1. ASSUME NEW b \in Actors, actor'[b].at = "ran" PROVE actor'[b].runs # None
    <3> DEFINE s == IF b = a THEN "dead" ELSE IF b \in ProcessMates(a) THEN "killed" ELSE actor[b].at
    <3>1. actor[b] \in ActorStates /\ actor'[b] = [actor[b] EXCEPT !.at = s]
      BY <1>3 DEF Dies, Typed
    <3>2. s \in {"dead", "killed"} \/ s = actor[b].at
      OBVIOUS
    <3> HIDE DEF s
    <3>3. actor'[b].at = s /\ actor'[b].runs = actor[b].runs
      BY <3>1 DEF ActorStates
    <3>4. QED
      BY <2>1, <3>2, <3>3 DEF FunctionKnown
  <2>2. QED
    BY <2>1 DEF FunctionKnown
<1>4. ASSUME NEW v, v # None, actor' = [actor EXCEPT ![a].at = "ran", ![a].runs = v]
      PROVE  FunctionKnown'
  BY <1>4 DEF FunctionKnown, Typed, ActorStates
<1>5. CASE OpenProgram(a) \/ CompileFails(a) \/ WriteProgram(a) \/ Enqueue(a)
  BY <1>2, <1>5 DEF OpenProgram, CompileFails, WriteProgram, Enqueue
<1>6. CASE Generate(a) \/ WriteParallel(a) \/ Check(a) \/ InitLock(a) \/ Lock(a) \/ Sleep(a)
  BY <1>2, <1>6 DEF Generate, WriteParallel, Check, InitLock, Lock, Sleep
<1>7. CASE Load(a) \/ Codegen(a) \/ FinishLink(a) \/ Clean(a)
  BY <1>2, <1>7 DEF Load, Codegen, FinishLink, Clean
<1>8. CASE WriteObject(a) \/ StartLink(a)
  BY <1>2, <1>3, <1>8 DEF WriteObject, StartLink
<1>9. CASE Compile(a)
  BY <1>1, <1>9, GotoWithIrMoves DEF Compile
<1>10. CASE ReadProgram(a)
  <2>1. Goto(a, "failed") \/ \E v : actor' = [actor EXCEPT ![a].at = "enqueue", ![a].ir = v]
    BY <1>10 DEF ReadProgram
  <2>2. QED
    BY <1>1, <1>2, <2>1, GotoWithIrMoves
<1>11. CASE Scan(a)
  <2>1. CASE loaded[ProcessOf[a]] = None
    <3>1. actor' = [actor EXCEPT ![a].at = "load", ![a].runs = None]
      BY <1>11, <2>1 DEF Scan
    <3>2. QED
      BY <1>1, <3>1, GotoWithRunsMoves
  <2>2. CASE loaded[ProcessOf[a]] # None
    BY <1>4, <1>11, <2>2 DEF Scan
  <2>3. QED
    BY <2>1, <2>2
<1>12. CASE DlOpen(a)
  <2>1. CASE Whole("so")
    <3>1. file["so"].version # None
      BY <2>1, NoneAssumption, CacheAssumption DEF Whole, Typed, Copies, Names, Versions
    <3>2. QED
      BY <1>4, <1>12, <2>1, <3>1 DEF DlOpen
  <2>2. CASE ~Whole("so")
    BY <1>3, <1>12, <2>2 DEF DlOpen
  <2>3. QED
    BY <2>1, <2>2
<1>13. QED
  BY <1>5, <1>6, <1>7, <1>8, <1>9, <1>10, <1>11, <1>12 DEF CallStep

LEMMA FunctionNext == Typed /\ FunctionKnown /\ [Next]_vars => FunctionKnown'
<1> SUFFICES ASSUME Typed, FunctionKnown, [Next]_vars PROVE FunctionKnown'
  OBVIOUS
<1>1. ASSUME NEW a \in Actors, Build(a) PROVE FunctionKnown'
  <2>1. ASSUME NEW b \in Actors, actor'[b].at = "ran" PROVE actor'[b].runs # None
    <3>1. actor'[a].at = "open"
      BY <1>1 DEF Build
    <3>2. b # a
      BY <2>1, <3>1
    <3>3. actor[b] \in ActorStates /\ actor'[b] = [actor[b] EXCEPT !.alone = @ /\ actor[b].at \in AtRest]
      BY <1>1, <3>2 DEF Build, Typed
    <3>4. actor'[b].at = actor[b].at /\ actor'[b].runs = actor[b].runs
      BY <3>3 DEF ActorStates
    <3>5. QED
      BY <2>1, <3>4 DEF FunctionKnown
  <2>2. QED
    BY <2>1 DEF FunctionKnown
<1>2. ASSUME NEW a \in Actors, Release(a) PROVE FunctionKnown'
  BY <1>2, NewActorTyped DEF Release, FunctionKnown, Typed
<1>3. ASSUME NEW p \in Processes, Crash(p) PROVE FunctionKnown'
  <2>1. ASSUME NEW b \in Actors, actor'[b].at = "ran" PROVE actor'[b].runs # None
    <3>1. /\ actor[b] \in ActorStates
          /\ actor'[b] = actor[b] \/ actor'[b] = [actor[b] EXCEPT !.at = "killed"]
      BY <1>3 DEF Crash, Typed
    <3>2. actor'[b] = actor[b]
      BY <2>1, <3>1 DEF ActorStates
    <3>3. QED
      BY <2>1, <3>2 DEF FunctionKnown
  <2>2. QED
    BY <2>1 DEF FunctionKnown
<1>4. CASE Edit
  BY <1>4 DEF Edit, FunctionKnown
<1>5. CASE UNCHANGED vars
  BY <1>5 DEF vars, FunctionKnown
<1>6. QED
  BY <1>1, <1>2, <1>3, <1>4, <1>5, FunctionCall DEF Next

\* Every variable keeps its type, whatever is compiled comes from a module that
\* was read or built, and a launch that ran called a function that was loaded.
THEOREM TypeCorrect == Spec => []TypeOK
<1>1. Init => FunctionKnown
  BY NewActorTyped DEF Init, FunctionKnown
<1>2. Typed /\ IrKnown /\ FunctionKnown => TypeOK
  BY NoneAssumption, CacheAssumption DEF TypeOK, ModuleKnown, IrKnown, Reading, Versions
<1>3. QED
  BY <1>1, <1>2, FunctionNext, Types, PTL DEF Spec
-----------------------------------------------------------------------------
\* Where an actor with a warm cache may stand before it is done.
WarmPlaces == {"open", "read", "enqueue", "queued", "init", "lock", "slept", "scan", "load", "dlopen"}
WarmOK(a) ==
  /\ actor[a].at \in WarmPlaces
  /\ mode = "cached" /\ Whole("program.bc") /\ Whole("so")
  /\ \A b \in Actors : actor[b].at \in Done \/ actor[b].warm
WarmInv ==
  \A a \in Actors : actor[a].warm =>
    /\ actor[a].at \notin {"failed", "dead"}
    /\ actor[a].at \notin Done => WarmOK(a)


\* A warm cache: what the actors that are done may do.
LEMMA WarmBuild ==
  ASSUME Typed, WarmInv, NEW a \in Actors, Build(a)
  PROVE  WarmInv'
<1> SUFFICES ASSUME NEW b \in Actors, actor'[b].warm
             PROVE  /\ actor'[b].at \notin {"failed", "dead"}
                    /\ actor'[b].at \notin Done => WarmOK(b)'
  BY DEF WarmInv
<1> USE DEF Done, AtRest
<1>1. actor'[a].at = "open" /\ actor[a].at = "idle" /\ mode' = mode
  BY DEF Build, At
<1>2. actor'[a].warm = (/\ mode = "cached" /\ Whole("program.bc") /\ Whole("so")
                        /\ \A c \in Actors \ {a} : actor[c].at \in Done \/ actor[c].warm)
  BY DEF Build
<1>3. \A c \in Actors \ {a} : actor'[c].at = actor[c].at /\ actor'[c].warm = actor[c].warm
  <2>1. TAKE c \in Actors \ {a}
  <2>2. PICK v \in BOOLEAN : actor'[c] = [actor[c] EXCEPT !.alone = v]
    BY DEF Build
  <2>3. actor[c] \in ActorStates
    BY DEF Typed
  <2>4. QED
    BY <2>2, <2>3 DEF ActorStates
<1>4. mode = "cached" => file' = file
  BY DEF Build, Invalidated
<1>5. CASE b = a
  BY <1>1, <1>2, <1>3, <1>4, <1>5 DEF WarmOK, WarmPlaces, Whole
<1>6. CASE b # a
  <2>1. actor[b].warm /\ actor'[b].at = actor[b].at
    BY <1>3, <1>6
  <2>2. CASE actor[b].at \notin Done
    <3>1. WarmOK(b)
      BY <2>1, <2>2 DEF WarmInv
    <3>2. actor'[a].warm
      BY <1>2, <3>1 DEF WarmOK
    <3>3. QED
      BY <1>1, <1>3, <1>4, <1>6, <2>1, <3>1, <3>2 DEF WarmOK, Whole, WarmInv
  <2>3. QED
    BY <2>1, <2>2 DEF WarmInv
<1>7. QED
  BY <1>5, <1>6

LEMMA WarmCall ==
  ASSUME Typed, WarmInv, NEW a \in Actors, CallStep(a)
  PROVE  WarmInv'
<1>1. actor[a].at \notin Done /\ Frame(a)
  BY CallFrame
<1>2. CASE ~actor[a].warm
  <2>1. \A b \in Actors : actor[b].warm => actor[b].at \in Done \ {"failed", "dead"}
    BY <1>1, <1>2 DEF WarmInv, WarmOK
  <2>2. \A b \in Actors : actor'[b].warm => actor'[b].at \in Done \ {"failed", "dead"}
    BY <1>1, <1>2, <2>1 DEF Frame, Done, AtRest
  <2>3. QED
    BY <2>2 DEF WarmInv
<1>3. CASE actor[a].warm
  <2>1. WarmOK(a)
    BY <1>1, <1>3 DEF WarmInv
  <2>2. ASSUME Enqueue(a) \/ Check(a) \/ InitLock(a) \/ Lock(a) \/ Sleep(a) \/ Load(a) \/ OpenProgram(a)
        PROVE  file' = file /\ \E s \in WarmPlaces \cup {"ran"} : Moves(a, s)
    <3>1. \E s \in WarmPlaces : Goto(a, s)
      BY <2>1, <2>2 DEF Enqueue, Check, InitLock, Lock, Sleep, Load, MustGenerate, OpenProgram, Whole, WarmOK, WarmPlaces
    <3>2. file' = file
      BY <2>1, <2>2 DEF Enqueue, Check, InitLock, Lock, Sleep, Load, OpenProgram, Whole, WarmOK
    <3>3. QED
      BY <3>1, <3>2, GotoMoves
  <2>3. ASSUME ReadProgram(a)
        PROVE  file' = file /\ \E s \in WarmPlaces \cup {"ran"} : Moves(a, s)
    <3>1. Whole("program.bc") /\ file["program.bc"].version # None
      BY <2>1, NoneAssumption, CacheAssumption DEF Whole, Typed, Copies, Names, Versions, WarmOK
    <3>2. \E v : actor' = [actor EXCEPT ![a].at = "enqueue", ![a].ir = v]
      BY <2>3, <3>1 DEF ReadProgram, Whole
    <3>3. file' = file
      BY <2>3 DEF ReadProgram
    <3>4. QED
      BY <3>2, <3>3, GotoWithIrMoves DEF WarmPlaces
  <2>4. ASSUME Scan(a)
        PROVE  file' = file /\ \E s \in WarmPlaces \cup {"ran"} : Moves(a, s)
    <3>1. \E s \in WarmPlaces \cup {"ran"} : \E v : actor' = [actor EXCEPT ![a].at = s, ![a].runs = v]
      BY <2>4 DEF Scan, WarmPlaces
    <3>2. file' = file
      BY <2>4 DEF Scan
    <3>3. QED
      BY <3>1, <3>2, GotoWithRunsMoves
  <2>5. ASSUME DlOpen(a)
        PROVE  file' = file /\ \E s \in WarmPlaces \cup {"ran"} : Moves(a, s)
    <3>1. \E v : actor' = [actor EXCEPT ![a].at = "ran", ![a].runs = v]
      BY <2>1, <2>5 DEF DlOpen, WarmOK
    <3>2. file' = file
      BY <2>1, <2>5 DEF DlOpen, WarmOK
    <3>3. QED
      BY <3>1, <3>2, GotoWithRunsMoves
  <2>6. file' = file /\ \E s \in WarmPlaces \cup {"ran"} : Moves(a, s)
    <3>1. actor[a].at \in WarmPlaces
      BY <2>1 DEF WarmOK
    <3>2. \/ Enqueue(a) \/ Check(a) \/ InitLock(a) \/ Lock(a) \/ Sleep(a) \/ Load(a) \/ OpenProgram(a)
          \/ ReadProgram(a) \/ Scan(a) \/ DlOpen(a)
      BY <3>1 DEF CallStep, At, WarmPlaces, Compile, CompileFails, WriteProgram, Generate,
                  WriteParallel, Codegen, WriteObject, StartLink, FinishLink, Clean
    <3>3. QED
      BY <2>2, <2>3, <2>4, <2>5, <3>2
  <2>7. actor'[a].at \in WarmPlaces \cup {"ran"} /\ \A b \in Actors \ {a} : actor'[b] = actor[b]
    BY <2>6 DEF Moves
  <2>8. ASSUME NEW b \in Actors PROVE actor'[b].at \in Done \/ actor'[b].warm
    BY <1>1, <1>3, <2>1, <2>7 DEF WarmOK, Frame
  <2>9. mode' = mode /\ Whole("program.bc")' /\ Whole("so")'
    BY <1>1, <2>1, <2>6 DEF Frame, WarmOK, Whole
  <2>10. SUFFICES ASSUME NEW b \in Actors, actor'[b].warm
                  PROVE  /\ actor'[b].at \notin {"failed", "dead"}
                         /\ actor'[b].at \notin Done => actor'[b].at \in WarmPlaces
    BY <2>1, <2>8, <2>9 DEF WarmInv, WarmOK
  <2>11. CASE b = a
    BY <2>7, <2>11 DEF WarmPlaces, Done
  <2>12. CASE b # a
    BY <2>7, <2>10, <2>12 DEF WarmInv, WarmOK
  <2>13. QED
    BY <2>11, <2>12
<1>4. QED
  BY <1>2, <1>3

\* A process may be killed at any place, and a client may release its programs.
LEMMA CrashFrame ==
  ASSUME Typed, NEW p \in Processes, Crash(p)
  PROVE  /\ mode' = mode /\ file' = file /\ (torn => torn')
         /\ \A b \in Actors : /\ actor'[b].alone = actor[b].alone /\ actor'[b].warm = actor[b].warm
                             /\ actor'[b].at \in {actor[b].at, "killed"}
<1>1. \A b \in Actors : /\ actor[b] \in ActorStates
                        /\ actor'[b] = actor[b] \/ actor'[b] = [actor[b] EXCEPT !.at = "killed"]
  BY DEF Crash, Typed
<1>2. ASSUME NEW b \in Actors
      PROVE  /\ actor'[b].alone = actor[b].alone /\ actor'[b].warm = actor[b].warm
             /\ actor'[b].at \in {actor[b].at, "killed"}
  BY <1>1 DEF ActorStates
<1>3. QED
  BY <1>2 DEF Crash

LEMMA ReleaseFrame ==
  ASSUME Typed, NEW a \in Actors, Release(a)
  PROVE  /\ actor[a].at \in {"ran", "refused", "failed"}
         /\ actor'[a].at = "idle" /\ ~actor'[a].alone /\ ~actor'[a].warm
         /\ \A b \in Actors \ {a} : actor'[b] = actor[b]
         /\ mode' = mode /\ torn' = torn
         /\ file' = IF mode = "off" THEN NoFiles ELSE file
BY DEF Release, rest, Typed, NewActor

\* While the cache is warm nobody changes a file, so a launch finds what it needs.
LEMMA WarmNext == Typed /\ WarmInv /\ [Next]_vars => WarmInv'
<1> SUFFICES ASSUME Typed, WarmInv, [Next]_vars PROVE WarmInv'
  OBVIOUS
<1>1. ASSUME NEW a \in Actors, Release(a) PROVE WarmInv'
  <2>1. /\ actor'[a].at = "idle" /\ \A b \in Actors \ {a} : actor'[b] = actor[b]
        /\ mode' = mode /\ (mode = "cached" => file' = file)
    BY <1>1, ReleaseFrame
  <2>2. actor'[a].at \in Done \ {"failed", "dead"} /\ \A b \in Actors \ {a} : actor'[b] = actor[b]
    BY <2>1 DEF Done, AtRest
  <2>3. QED
    BY <2>1, <2>2 DEF WarmInv, WarmOK, Whole
<1>2. CASE Edit
  BY <1>2 DEF Edit, WarmInv, WarmOK, Whole
<1>3. ASSUME NEW p \in Processes, Crash(p) PROVE WarmInv'
  <2>1. /\ mode' = mode /\ file' = file
        /\ \A b \in Actors : /\ actor'[b].warm = actor[b].warm
                            /\ actor'[b].at \in {actor[b].at, "killed"}
    BY <1>3, CrashFrame
  <2>2. "killed" \in Done \ {"failed", "dead"}
    BY DEF Done, AtRest
  <2>3. QED
    BY <2>1, <2>2 DEF WarmInv, WarmOK, Whole
<1>4. CASE UNCHANGED vars
  BY <1>4 DEF vars, WarmInv, WarmOK, Whole
<1>5. QED
  BY <1>1, <1>2, <1>3, <1>4, WarmBuild, WarmCall DEF Next

\* Once the cache holds the shared object, and whoever made it is done, any
\* number of threads of any number of processes build and launch the kernel
\* without an error or an assert, even when some of them are killed.
THEOREM WarmCacheIsSafe == Spec => []WarmCacheSafe
<1>1. Init => WarmInv
  BY DEF Init, WarmInv, NewActor
<1>2. WarmInv => WarmCacheSafe
  BY DEF WarmInv, WarmCacheSafe
<1>3. QED
  BY <1>1, <1>2, WarmNext, Types, PTL DEF Spec
-----------------------------------------------------------------------------
\* The files that an actor nobody disturbs has already made or found.
Cleared(a) ==
  /\ actor[a].at \in {"compile", "write"} => file["program.bc"] # None /\ file["program.bc"].by = a
  /\ actor[a].at = "read" => file["program.bc"] # None
  /\ actor[a].at = "write_parallel" => file["parallel.bc"] # None
  /\ actor[a].at \in {"queued", "init", "lock", "slept", "scan", "load"} => file["so"] # None \/ file["parallel.bc"] # None
  /\ actor[a].at \in {"codegen", "write_object"} => file["parallel.bc"] # None
  /\ actor[a].at = "write_object" => file["object"] # None /\ file["object"].by = a
  /\ actor[a].at = "link" => file["object"] # None
  /\ actor[a].at \in {"linked", "clean", "dlopen"} => file["so"] # None
AloneOK(a) ==
  /\ actor[a].at \notin {"failed", "dead"}
  /\ actor[a].at \notin AtRest => Cleared(a) /\ \A b \in Actors \ {a} : actor[b].at \in AtRest
AloneInv == torn \/ \A a \in Actors : actor[a].alone => AloneOK(a)

\* Nobody writes but the actor that runs alone: what it does not write is whole.
LEMMA AloneWhole ==
  ASSUME Typed, PartialOwned, ~torn, NEW a \in Actors,
         \A b \in Actors \ {a} : actor[b].at \in AtRest,
         NEW n \in Names, file[n] # None, actor[a].at \notin WriterAt[n]
  PROVE  Whole(n)
<1> SUFFICES ASSUME Partial(n) PROVE FALSE
  BY DEF Whole, Partial
<1>1. file[n].by \in Actors
  BY DEF Typed, Copies, Partial
<1>2. actor[file[n].by].at \in WriterAt[n]
  BY DEF PartialOwned
<1>3. actor[file[n].by].at \in Writing
  BY <1>2, WriterPlaces
<1>4. file[n].by # a
  BY <1>2
<1>5. QED
  BY <1>1, <1>3, <1>4 DEF AtRest, Writing

LEMMA CopyIsThere == \A f \in Copies : f # None
<1>1. Versions \subseteq Nat
  BY CacheAssumption DEF Versions
<1>2. Copies \subseteq [by : {None} \cup Actors, version : Nat]
  BY <1>1 DEF Copies
<1>3. QED
  BY <1>2, NoneAssumption

LEMMA CreatedIsThere ==
  ASSUME NEW a \in Actors, NEW v \in Versions
  PROVE  Created(a, v) # None /\ Created(a, v).by = a
<1>1. Created(a, v) \in Copies
  BY DEF Created, Copies
<1>2. QED
  BY <1>1, CopyIsThere DEF Created

LEMMA WrittenStays ==
  ASSUME Typed, NEW a \in Actors, NEW n \in Names, file[n] # None
  PROVE  Written(n, a)[n] # None
<1>1. CASE file[n].by = a
  <2>1. file[n] \in Copies
    BY DEF Typed
  <2>2. [file[n] EXCEPT !.by = None] \in Copies
    BY <2>1 DEF Copies
  <2>3. Written(n, a)[n] = [file[n] EXCEPT !.by = None]
    BY <1>1 DEF Written, Typed
  <2>4. QED
    BY <2>2, <2>3, CopyIsThere
<1>2. CASE file[n].by # a
  BY <1>2 DEF Written
<1>3. QED
  BY <1>1, <1>2

\* A thread that runs alone has what its next step needs, and none of its steps
\* fails.
LEMMA AloneGoesOn ==
  ASSUME Typed, Typed', IrKnown, PartialOwned, ~torn, NEW a \in Actors, CallStep(a),
         Cleared(a), \A b \in Actors \ {a} : actor[b].at \in AtRest
  PROVE  actor'[a].at \notin {"failed", "dead"} /\ Cleared(a)'
<1>1. CASE OpenProgram(a)
  <2>1. CASE file["program.bc"] = None
    <3>1. actor'[a].at = "compile"
      BY <1>1, <2>1, GotoMoves DEF OpenProgram, Moves
    <3>2. file'["program.bc"] = Created(a, version) /\ version \in Versions
      BY <1>1, <2>1 DEF OpenProgram, Typed, Names
    <3>3. QED
      BY <3>1, <3>2, CreatedIsThere DEF Cleared
  <2>2. CASE file["program.bc"] # None
    <3>1. actor'[a].at = "read" /\ file' = file
      BY <1>1, <2>2, GotoMoves DEF OpenProgram, Moves
    <3>2. QED
      BY <2>2, <3>1 DEF Cleared
  <2>3. QED
    BY <2>1, <2>2
<1>2. CASE Compile(a)
  <2>1. actor'[a].at = "write" /\ file' = file /\ actor[a].at = "compile"
    BY <1>2, GotoWithIrMoves DEF Compile, Moves, At
  <2>2. QED
    BY <2>1 DEF Cleared
<1>3. CASE CompileFails(a)
  <2>1. actor'[a].at = "refused"
    BY <1>3, GotoMoves DEF CompileFails, Moves
  <2>2. QED
    BY <2>1 DEF Cleared
<1>4. CASE WriteProgram(a)
  <2> DEFINE f == [by |-> None, version |-> actor[a].ir]
  <2>1. actor'[a].at = "read" /\ actor[a].at = "write"
    BY <1>4, GotoMoves DEF WriteProgram, Moves, At
  <2>2. file["program.bc"] # None /\ file["program.bc"].by = a
    BY <2>1 DEF Cleared
  <2>3. file["program.bc"] \in Copies /\ actor[a].ir \in Versions
    BY <2>1, <2>2 DEF Typed, Names, IrKnown, Reading
  <2>4. f \in Copies
    BY <2>3 DEF Copies
  <2>5. file'["program.bc"] = f
    BY <1>4, <2>2 DEF WriteProgram, Typed, Names
  <2> HIDE DEF f
  <2>6. QED
    BY <2>1, <2>4, <2>5, CopyIsThere DEF Cleared
<1>5. CASE ReadProgram(a)
  <2>1. actor[a].at = "read" /\ file["program.bc"] # None
    BY <1>5 DEF ReadProgram, At, Cleared
  <2>2. Whole("program.bc")
    BY <2>1, AloneWhole, WriterPlaces DEF Names
  <2>3. file["program.bc"].version # None
    BY <2>2, NoneAssumption, CacheAssumption DEF Whole, Typed, Copies, Names, Versions
  <2>4. \E v : actor' = [actor EXCEPT ![a].at = "enqueue", ![a].ir = v]
    BY <1>5, <2>2, <2>3 DEF ReadProgram, Whole
  <2>5. actor'[a].at = "enqueue"
    <3>1. PICK v : actor' = [actor EXCEPT ![a].at = "enqueue", ![a].ir = v]
      BY <2>4
    <3>2. Moves(a, "enqueue")
      BY <3>1, GotoWithIrMoves
    <3>3. QED
      BY <3>2 DEF Moves
  <2>6. QED
    BY <2>5 DEF Cleared
<1>6. CASE Enqueue(a)
  <2>1. Goto(a, IF file["so"] = None THEN "generate" ELSE "queued") /\ file' = file
    BY <1>6 DEF Enqueue
  <2>2. actor'[a].at = IF file["so"] = None THEN "generate" ELSE "queued"
    BY <2>1, GotoMoves DEF Moves
  <2>3. QED
    BY <2>1, <2>2 DEF Cleared
<1>7. CASE Generate(a)
  <2>1. CASE file["parallel.bc"] = None
    <3>1. actor'[a].at = "write_parallel" /\ actor[a].at = "generate"
      BY <1>7, <2>1, GotoMoves DEF Generate, Moves, At
    <3>2. file'["parallel.bc"] = Created(a, actor[a].ir) /\ actor[a].ir \in Versions
      BY <1>7, <2>1, <3>1 DEF Generate, Typed, Names, IrKnown, Reading
    <3>3. QED
      BY <3>1, <3>2, CreatedIsThere DEF Cleared
  <2>2. CASE file["parallel.bc"] # None
    <3>1. actor'[a].at = "queued" /\ file' = file
      BY <1>7, <2>2, GotoMoves DEF Generate, Moves
    <3>2. QED
      BY <2>2, <3>1 DEF Cleared
  <2>3. QED
    BY <2>1, <2>2
<1>8. CASE WriteParallel(a)
  <2>1. actor'[a].at = "queued" /\ file["parallel.bc"] # None
    BY <1>8, GotoMoves DEF WriteParallel, Moves, At, Cleared
  <2>2. file'["parallel.bc"] # None
    BY <1>8, <2>1, WrittenStays DEF WriteParallel, Names
  <2>3. QED
    BY <2>1, <2>2 DEF Cleared
<1>9. CASE Check(a)
  <2>1. actor'[a].at \in {"init", "lock"} /\ actor[a].at = "queued" /\ file' = file
    BY <1>9, GotoMoves DEF Check, Moves, At
  <2>2. QED
    BY <2>1 DEF Cleared
<1>18. CASE InitLock(a)
  <2>1. actor'[a].at \in {"lock"} /\ actor[a].at = "init" /\ file' = file
    BY <1>18, GotoMoves DEF InitLock, Moves, At
  <2>2. QED
    BY <2>1 DEF Cleared
<1>19. CASE Lock(a)
  <2>1. actor'[a].at \in {"scan"} /\ actor[a].at \in {"lock", "slept"} /\ file' = file
    BY <1>19, GotoMoves DEF Lock, Moves, At
  <2>2. QED
    BY <2>1 DEF Cleared
<1>20. CASE Sleep(a)
  <2>1. actor'[a].at \in {"slept"} /\ actor[a].at \in {"lock", "slept"} /\ file' = file
    BY <1>20, GotoMoves DEF Sleep, Moves, At
  <2>2. QED
    BY <2>1 DEF Cleared
<1>10. CASE Scan(a)
  <2>1. \E s \in {"load", "ran"} : \E v : actor' = [actor EXCEPT ![a].at = s, ![a].runs = v]
    BY <1>10 DEF Scan
  <2>2. actor'[a].at \in {"load", "ran"} /\ actor[a].at = "scan" /\ file' = file
    BY <1>10, <2>1, GotoWithRunsMoves DEF Scan, Moves, At
  <2>3. QED
    BY <2>2 DEF Cleared
<1>11. CASE Load(a)
  <2>1. Goto(a, IF file["so"] = None THEN "codegen" ELSE "dlopen") /\ actor[a].at = "load" /\ file' = file
    BY <1>11 DEF Load, MustGenerate, At
  <2>2. actor'[a].at = IF file["so"] = None THEN "codegen" ELSE "dlopen"
    BY <2>1, GotoMoves DEF Moves
  <2>3. QED
    BY <2>1, <2>2 DEF Cleared
<1>12. CASE Codegen(a)
  <2>1. actor[a].at = "codegen" /\ file["parallel.bc"] # None
    BY <1>12 DEF Codegen, At, Cleared
  <2>2. actor'[a].at = "write_object"
    BY <1>12, GotoMoves DEF Codegen, Moves
  <2>3. /\ file'["object"] = Created(a, version) /\ version \in Versions
        /\ file'["parallel.bc"] = file["parallel.bc"]
    BY <1>12 DEF Codegen, Typed, Names
  <2>4. QED
    BY <2>1, <2>2, <2>3, CreatedIsThere DEF Cleared
<1>21. CASE WriteObject(a)
  <2>1. /\ actor[a].at = "write_object" /\ file["parallel.bc"] # None
        /\ file["object"] # None /\ file["object"].by = a
    BY <1>21 DEF WriteObject, At, Cleared
  <2>2. Whole("parallel.bc")
    BY <2>1, AloneWhole, WriterPlaces DEF Names
  <2>3. actor'[a].at = "link"
    BY <1>21, <2>2, GotoMoves DEF WriteObject, Moves
  <2> DEFINE f == [by |-> None, version |-> file["parallel.bc"].version]
  <2>4. file["parallel.bc"] \in Copies
    BY <2>1 DEF Typed, Names
  <2>5. f \in Copies
    BY <2>4 DEF Copies
  <2>6. file'["object"] = f
    BY <1>21, <2>1, <2>2 DEF WriteObject, Typed, Names
  <2> HIDE DEF f
  <2>7. QED
    BY <2>3, <2>5, <2>6, CopyIsThere DEF Cleared
<1>13. CASE StartLink(a)
  <2>1. actor[a].at = "link" /\ file["object"] # None
    BY <1>13 DEF StartLink, At, Cleared
  <2>2. Whole("object")
    BY <2>1, AloneWhole, WriterPlaces DEF Names
  <2>3. actor'[a].at = "linked"
    BY <1>13, <2>2, GotoMoves DEF StartLink, Moves
  <2>4. file["object"].version \in Versions
    BY <2>1 DEF Typed, Names, Copies
  <2>5. file'["so"] = Created(a, file["object"].version)
    BY <1>13, <2>2 DEF StartLink, Typed, Names
  <2>6. QED
    BY <2>3, <2>4, <2>5, CreatedIsThere DEF Cleared
<1>14. CASE FinishLink(a)
  <2>1. actor'[a].at = "clean" /\ file["so"] # None
    BY <1>14, GotoMoves DEF FinishLink, Moves, At, Cleared
  <2>2. file'["so"] # None
    BY <1>14, <2>1, WrittenStays DEF FinishLink, Names
  <2>3. QED
    BY <2>1, <2>2 DEF Cleared
<1>15. CASE Clean(a)
  <2>1. actor'[a].at = "dlopen" /\ file["so"] # None
    BY <1>15, GotoMoves DEF Clean, Moves, At, Cleared
  <2>2. file'["so"] = file["so"]
    BY <1>15 DEF Clean, Typed, Names
  <2>3. QED
    BY <2>1, <2>2 DEF Cleared
<1>16. CASE DlOpen(a)
  <2>1. actor[a].at = "dlopen" /\ file["so"] # None
    BY <1>16 DEF DlOpen, At, Cleared
  <2>2. Whole("so")
    BY <2>1, AloneWhole, WriterPlaces DEF Names
  <2>3. actor'[a].at = "ran"
    BY <1>16, <2>2, GotoWithRunsMoves DEF DlOpen, Moves
  <2>4. QED
    BY <2>3 DEF Cleared
<1>17. QED
  BY <1>1, <1>2, <1>3, <1>4, <1>5, <1>6, <1>7, <1>8, <1>9, <1>10, <1>11, <1>12, <1>13, <1>14, <1>15, <1>16, <1>18, <1>19, <1>20, <1>21 DEF CallStep

\* An actor that is alone stays undisturbed until another program is built.
LEMMA AloneNext == Typed /\ Typed' /\ IrKnown /\ PartialOwned /\ AloneInv /\ [Next]_vars => AloneInv'
<1> SUFFICES ASSUME Typed, Typed', IrKnown, PartialOwned, AloneInv, [Next]_vars PROVE AloneInv'
  OBVIOUS
<1>1. ASSUME NEW a \in Actors, Build(a) PROVE AloneInv'
  <2>1. actor'[a].at = "open" /\ actor[a].at = "idle" /\ torn' = torn
    BY <1>1 DEF Build, At
  <2>2. actor'[a].alone = \A c \in Actors \ {a} : actor[c].at \in AtRest
    BY <1>1 DEF Build
  <2>3. ASSUME NEW c \in Actors \ {a}
        PROVE  /\ actor'[c].at = actor[c].at
               /\ actor'[c].alone => actor[c].alone /\ actor[c].at \in AtRest
    <3>1. actor'[c] = [actor[c] EXCEPT !.alone = @ /\ actor[c].at \in AtRest]
      BY <1>1 DEF Build
    <3>2. actor[c] \in ActorStates
      BY DEF Typed
    <3>3. QED
      BY <3>1, <3>2 DEF ActorStates
  <2>4. SUFFICES ASSUME ~torn, NEW b \in Actors, actor'[b].alone PROVE AloneOK(b)'
    BY <2>1 DEF AloneInv
  <2>5. CASE b = a
    <3>1. Cleared(a)'
      BY <2>1 DEF Cleared
    <3>2. QED
      BY <2>1, <2>2, <2>3, <2>4, <2>5, <3>1 DEF AloneOK
  <2>6. CASE b # a
    BY <2>3, <2>4, <2>6 DEF AloneInv, AloneOK, AtRest
  <2>7. QED
    BY <2>5, <2>6
<1>2. ASSUME NEW a \in Actors, CallStep(a) PROVE AloneInv'
  <2>1. actor[a].at \notin Done /\ Frame(a)
    BY <1>2, CallFrame
  <2>2. SUFFICES ASSUME ~torn, NEW b \in Actors, actor'[b].alone PROVE AloneOK(b)'
    BY <2>1 DEF AloneInv, Frame
  <2>3. actor[b].alone /\ AloneOK(b)
    BY <2>1, <2>2 DEF Frame, AloneInv
  <2>4. CASE b = a
    <3>1. Cleared(a) /\ \A c \in Actors \ {a} : actor[c].at \in AtRest
      BY <2>1, <2>3, <2>4 DEF AloneOK, Done
    <3>2. actor'[a].at \notin {"failed", "dead"} /\ Cleared(a)'
      BY <1>2, <2>2, <3>1, AloneGoesOn
    <3>3. \A c \in Actors \ {a} : actor'[c].at \in AtRest
      BY <2>1, <3>1 DEF Frame, AtRest
    <3>4. QED
      BY <2>4, <3>2, <3>3 DEF AloneOK
  <2>5. CASE b # a
    <3>1. actor[b].at \in AtRest
      BY <2>1, <2>3, <2>5 DEF AloneOK, Done
    <3>2. actor'[b].at \in AtRest \ {"failed", "dead"}
      BY <2>1, <2>3, <2>5, <3>1 DEF Frame, AloneOK, AtRest
    <3>3. QED
      BY <3>2 DEF AloneOK
  <2>6. QED
    BY <2>4, <2>5
<1>3. ASSUME NEW a \in Actors, Release(a) PROVE AloneInv'
  <2>1. /\ actor[a].at \notin AtRest /\ torn' = torn /\ actor'[a].at = "idle" /\ ~actor'[a].alone
        /\ \A b \in Actors \ {a} : actor'[b] = actor[b]
    BY <1>3, ReleaseFrame DEF AtRest
  <2>2. SUFFICES ASSUME ~torn, NEW b \in Actors, actor'[b].alone PROVE AloneOK(b)'
    BY <2>1 DEF AloneInv
  <2>3. CASE b = a
    BY <2>1, <2>2, <2>3
  <2>4. CASE b # a
    <3>1. AloneOK(b) /\ actor'[b] = actor[b]
      BY <2>1, <2>2, <2>4 DEF AloneInv
    <3>2. QED
      BY <2>1, <2>4, <3>1 DEF AloneOK
  <2>5. QED
    BY <2>3, <2>4
<1>4. CASE Edit
  BY <1>4 DEF Edit, AloneInv, AloneOK, Cleared
<1>5. ASSUME NEW p \in Processes, Crash(p) PROVE AloneInv'
  <2>1. /\ file' = file /\ (torn => torn')
        /\ \A b \in Actors : /\ actor'[b].alone = actor[b].alone
                            /\ actor'[b].at \in {actor[b].at, "killed"}
    BY <1>5, CrashFrame
  <2>2. SUFFICES ASSUME ~torn, NEW b \in Actors, actor'[b].alone PROVE AloneOK(b)'
    BY <2>1 DEF AloneInv
  <2>3. AloneOK(b)
    BY <2>1, <2>2 DEF AloneInv
  <2>4. CASE actor'[b].at = actor[b].at
    BY <2>1, <2>3, <2>4 DEF AloneOK, Cleared, AtRest
  <2>5. CASE actor'[b].at = "killed"
    BY <2>5 DEF AloneOK, AtRest
  <2>6. QED
    BY <2>1, <2>4, <2>5
<1>6. CASE UNCHANGED vars
  BY <1>6 DEF vars, AloneInv, AloneOK, Cleared
<1>7. QED
  BY <1>1, <1>2, <1>3, <1>4, <1>5, <1>6 DEF Next

\* A program that nobody else builds or launches meanwhile is built and its kernel
\* runs, in whatever state earlier users left the directory, unless one of them
\* was stopped while it wrote a file.
THEOREM AloneRuns == Spec => []AloneSucceeds
<1>1. Init => AloneInv
  BY DEF Init, AloneInv, AloneOK, NewActor, AtRest
<1>2. AloneInv => AloneSucceeds
  BY DEF AloneInv, AloneOK, AloneSucceeds
<1>3. QED
  BY <1>1, <1>2, AloneNext, Types, WritersKnown, PTL DEF Spec

=============================================================================
