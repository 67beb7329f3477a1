----------------------------- MODULE KernelCache -----------------------------
(***************************************************************************)
(* The compiler cache of one kernel: the files of a program's cache        *)
(* directory, which every process that builds the same source shares, and  *)
(* the work-group functions each process has loaded.                       *)
(*                                                                         *)
(* An actor is a program object and the launch of its kernel, in one       *)
(* thread: clBuildProgram and clCreateKernel, clEnqueueNDRangeKernel,      *)
(* later check_compiler_cache when clFinish executes the launch, and       *)
(* clReleaseProgram.  No lock is shared by processes, and each may crash.  *)
(***************************************************************************)
EXTENDS Integers, FiniteSets

CONSTANTS
  Actors,
  Processes,
  ProcessOf,    \* the process of each actor
  Modes,        \* "cached"; "includes": the source has an #include, and is never
                \* cached; "off": POCL_KERNEL_CACHE is off
  None,         \* no file, no module, nobody
  MaxBuilds,    \* bound: programs built, in each mode
  MaxVersion,   \* bound: edits of the headers the source includes
  MaxCrashes    \* bound: processes killed from outside

ASSUME CacheAssumption ==
  /\ ProcessOf \in [Actors -> Processes]
  /\ Modes \subseteq {"cached", "includes", "off"}
  /\ MaxBuilds \in [Modes -> Nat]
  /\ {MaxVersion, MaxCrashes} \subseteq Nat
ASSUME NoneAssumption == None \notin Nat \cup Actors \cup [by : {None} \cup Actors, version : Nat]

VARIABLES
  mode,     \* how the client configured the cache
  version,  \* the version of the headers
  file,     \* program.bc, parallel.bc, the object file and the shared object:
            \* None, or who is writing it (None: it is whole) and of which version
  actor,    \* at; ir, its llvm_irs; runs, the function it launches;
            \* history: alone, warm
  loaded,   \* compiler_cache of each process: its one item
  lock,     \* compiler_cache_lock of each process, as glibc keeps it: 0 free,
            \* 1 held, 2 held and somebody may be asleep
  asleep,   \* the threads that sleep on the lock of their process
  builds, crashes,
  torn,     \* history: a process ended while it wrote a file
  stranded  \* history: the threads that slept on a lock when it was initialised

mutex == <<lock, asleep, stranded>>
vars == <<mode, version, file, actor, loaded, mutex, builds, crashes, torn>>
rest == <<mode, version, loaded, mutex, builds, crashes, torn>>

Names == {"program.bc", "parallel.bc", "object", "so"}
NoFiles == [n \in Names |-> None]
Whole(n) == file[n] # None /\ file[n].by = None
Partial(n) == file[n] # None /\ file[n].by # None
Created(a, v) == [by |-> a, version |-> v]
\* The writer has the file open: it completes what it created, even if that
\* was removed or replaced meanwhile.
Written(n, a) == IF file[n] # None /\ file[n].by = a
                 THEN [file EXCEPT ![n].by = None] ELSE file

NewActor == [at |-> "idle", ir |-> None, runs |-> None, alone |-> FALSE, warm |-> FALSE]
At(a, s) == actor[a].at = s
Goto(a, s) == actor' = [actor EXCEPT ![a].at = s]
AtRest == {"idle", "dead", "killed"}
Done == AtRest \cup {"ran", "refused", "failed"}
Writing == {"compile", "write", "write_parallel", "write_object", "linked"}
ProcessMates(a) == {b \in Actors \ {a} : ProcessOf[b] = ProcessOf[a]}

\* The process of a ends, and with it all its threads.  LLVM removes an object
\* file that one of them was writing; the others stay as they are.
Dies(a) ==
  /\ actor' = [b \in Actors |-> [actor[b] EXCEPT !.at =
                 IF b = a THEN "dead" ELSE IF b \in ProcessMates(a) THEN "killed" ELSE @]]
  /\ torn' = (torn \/ \E b \in ProcessMates(a) : actor[b].at \in Writing \ {"write_object"})
  /\ file' = IF \E b \in {a} \cup ProcessMates(a) : At(b, "write_object")
             THEN [file EXCEPT !["object"] = None] ELSE file
  /\ UNCHANGED <<mode, version, loaded, mutex, builds, crashes>>
-----------------------------------------------------------------------------
\* clBuildProgram and clCreateKernel.

\* pocl_check_and_invalidate_cache.
Invalidated == IF mode = "cached" THEN file ELSE NoFiles
Build(a) ==
  /\ At(a, "idle") /\ builds < MaxBuilds[mode]
  /\ builds' = builds + 1
  /\ file' = Invalidated
  /\ actor' = [b \in Actors |->
       IF b = a THEN [at |-> "open", ir |-> None, runs |-> None,
                      alone |-> \A c \in Actors \ {a} : actor[c].at \in AtRest,
                      warm |-> /\ mode = "cached" /\ Whole("program.bc") /\ Whole("so")
                               /\ \A c \in Actors \ {a} : actor[c].at \in Done \/ actor[c].warm]
       ELSE [actor[b] EXCEPT !.alone = @ /\ actor[b].at \in AtRest]]
  /\ UNCHANGED <<mode, version, loaded, mutex, crashes, torn>>

\* O_CREAT | O_EXCL: whoever creates the file builds the program.
OpenProgram(a) ==
  /\ At(a, "open")
  /\ IF file["program.bc"] = None
     THEN file' = [file EXCEPT !["program.bc"] = Created(a, version)] /\ Goto(a, "compile")
     ELSE Goto(a, "read") /\ UNCHANGED file
  /\ UNCHANGED rest

Compile(a) ==
  /\ At(a, "compile")
  /\ actor' = [actor EXCEPT ![a].at = "write", ![a].ir = version]
  /\ UNCHANGED <<file, rest>>

\* Mutant: the file stays.
CompileFailsKeeps(a) ==
  /\ At(a, "compile")
  /\ Goto(a, "refused")
  /\ UNCHANGED <<file, rest>>
CompileFails(a) ==
  /\ At(a, "compile")
  /\ file' = [file EXCEPT !["program.bc"] = None]
  /\ Goto(a, "refused")
  /\ UNCHANGED rest

WriteProgram(a) ==
  /\ At(a, "write")
  /\ file' = IF file["program.bc"] # None /\ file["program.bc"].by = a
             THEN [file EXCEPT !["program.bc"] = [by |-> None, version |-> actor[a].ir]]
             ELSE file
  /\ Goto(a, "read")
  /\ UNCHANGED rest

\* Mutant: a program without a module has a kernel.
ReadProgramUnchecked(a) ==
  /\ At(a, "read")
  /\ actor' = [actor EXCEPT ![a].at = "enqueue",
                            ![a].ir = IF @ = None /\ Whole("program.bc")
                                      THEN file["program.bc"].version ELSE @]
  /\ UNCHANGED <<file, rest>>
\* The file is opened, and parsed where the program was not built here.
\* Without a module clCreateKernel fails.
ReadProgram(a) ==
  LET ir == IF actor[a].ir = None /\ Whole("program.bc")
            THEN file["program.bc"].version ELSE actor[a].ir
  IN  /\ At(a, "read")
      /\ IF file["program.bc"] = None \/ ir = None
         THEN Goto(a, "failed")
         ELSE actor' = [actor EXCEPT ![a].at = "enqueue", ![a].ir = ir]
      /\ UNCHANGED <<file, rest>>
-----------------------------------------------------------------------------
\* clEnqueueNDRangeKernel compiles the work-group function unless the shared
\* object is there, in whatever state.
Enqueue(a) ==
  /\ At(a, "enqueue")
  /\ Goto(a, IF file["so"] = None THEN "generate" ELSE "queued")
  /\ UNCHANGED <<file, rest>>

Generate(a) ==
  /\ At(a, "generate")
  /\ IF file["parallel.bc"] = None
     THEN /\ file' = [file EXCEPT !["parallel.bc"] = Created(a, actor[a].ir)]
          /\ Goto(a, "write_parallel")
     ELSE Goto(a, "queued") /\ UNCHANGED file
  /\ UNCHANGED rest

WriteParallel(a) ==
  /\ At(a, "write_parallel")
  /\ file' = Written("parallel.bc", a)
  /\ Goto(a, "queued")
  /\ UNCHANGED rest
-----------------------------------------------------------------------------
\* check_compiler_cache.  Whoever finds nothing loaded initialises the lock,
\* although it may be held and slept on by then.
Check(a) ==
  /\ At(a, "queued")
  /\ Goto(a, IF loaded[ProcessOf[a]] = None THEN "init" ELSE "lock")
  /\ UNCHANGED <<file, rest>>

Sleepers(p) == {b \in asleep : ProcessOf[b] = p}
\* The lock is free, and who sleeps on it sleeps on.
InitLock(a) ==
  /\ At(a, "init")
  /\ lock' = [lock EXCEPT ![ProcessOf[a]] = 0]
  /\ stranded' = stranded \cup Sleepers(ProcessOf[a])
  /\ Goto(a, "lock")
  /\ UNCHANGED <<mode, version, file, loaded, asleep, builds, crashes, torn>>

\* A thread that has slept does not know whether others still do.
Lock(a) ==
  /\ actor[a].at \in {"lock", "slept"} /\ a \notin asleep /\ lock[ProcessOf[a]] = 0
  /\ lock' = [lock EXCEPT ![ProcessOf[a]] = IF At(a, "slept") THEN 2 ELSE 1]
  /\ Goto(a, "scan")
  /\ UNCHANGED <<mode, version, file, loaded, asleep, stranded, builds, crashes, torn>>
Sleep(a) ==
  /\ actor[a].at \in {"lock", "slept"} /\ a \notin asleep /\ lock[ProcessOf[a]] # 0
  /\ lock' = [lock EXCEPT ![ProcessOf[a]] = 2]
  /\ asleep' = asleep \cup {a}
  /\ Goto(a, "slept")
  /\ UNCHANGED <<mode, version, file, loaded, stranded, builds, crashes, torn>>

\* Unlocking wakes one thread where one may be asleep.
Unlock(p) ==
  /\ lock' = [lock EXCEPT ![p] = 0]
  /\ IF lock[p] = 2 /\ Sleepers(p) # {}
     THEN \E b \in Sleepers(p) : asleep' = asleep \ {b}
     ELSE UNCHANGED asleep
  /\ UNCHANGED stranded

\* Mutant: the lock is kept where the function is found.
ScanKeeps(a) ==
  /\ At(a, "scan")
  /\ actor' = [actor EXCEPT ![a].at = IF loaded[ProcessOf[a]] = None THEN "load" ELSE "ran",
                            ![a].runs = loaded[ProcessOf[a]]]
  /\ UNCHANGED <<file, rest>>
Scan(a) ==
  LET p == ProcessOf[a]
  IN  /\ At(a, "scan")
      /\ actor' = [actor EXCEPT ![a].at = IF loaded[p] = None THEN "load" ELSE "ran",
                                ![a].runs = loaded[p]]
      /\ IF loaded[p] = None THEN UNCHANGED mutex ELSE Unlock(p)
      /\ UNCHANGED <<mode, version, file, loaded, builds, crashes, torn>>

\* Mutant: code is generated although the shared object is there.
MustGenerateAlways == TRUE
MustGenerate == file["so"] = None
\* llvm_codegen.
Load(a) ==
  /\ At(a, "load")
  /\ Goto(a, IF MustGenerate THEN "codegen" ELSE "dlopen")
  /\ UNCHANGED <<file, rest>>

\* The object file is opened for writing, whoever else reads or writes it,
\* before parallel.bc is parsed.
Codegen(a) ==
  /\ At(a, "codegen")
  /\ file' = [file EXCEPT !["object"] = Created(a, version)]
  /\ Goto(a, "write_object")
  /\ UNCHANGED rest
WriteObject(a) ==
  /\ At(a, "write_object")
  /\ IF Whole("parallel.bc")
     THEN /\ file' = IF file["object"] # None /\ file["object"].by = a
                     THEN [file EXCEPT !["object"] =
                             [by |-> None, version |-> file["parallel.bc"].version]]
                     ELSE file
          /\ Goto(a, "link")
          /\ UNCHANGED rest
     ELSE Dies(a)

\* The linker replaces the shared object.
StartLink(a) ==
  /\ At(a, "link")
  /\ IF Whole("object")
     THEN /\ file' = [file EXCEPT !["so"] = Created(a, file["object"].version)]
          /\ Goto(a, "linked")
          /\ UNCHANGED rest
     ELSE Dies(a)
FinishLink(a) ==
  /\ At(a, "linked")
  /\ file' = Written("so", a)
  /\ Goto(a, "clean")
  /\ UNCHANGED rest

Clean(a) ==
  /\ At(a, "clean")
  /\ file' = [file EXCEPT !["object"] = None, !["parallel.bc"] = None]
  /\ Goto(a, "dlopen")
  /\ UNCHANGED rest

DlOpen(a) ==
  /\ At(a, "dlopen")
  /\ IF Whole("so")
     THEN /\ loaded' = [loaded EXCEPT ![ProcessOf[a]] = file["so"].version]
          /\ Unlock(ProcessOf[a])
          /\ actor' = [actor EXCEPT ![a].at = "ran", ![a].runs = file["so"].version]
          /\ UNCHANGED <<mode, version, file, builds, crashes, torn>>
     ELSE Dies(a)

\* clReleaseProgram.
Release(a) ==
  /\ actor[a].at \in {"ran", "refused", "failed"}
  /\ file' = IF mode = "off" THEN NoFiles ELSE file
  /\ actor' = [actor EXCEPT ![a] = NewActor]
  /\ UNCHANGED rest
-----------------------------------------------------------------------------
Edit ==
  /\ mode # "cached" /\ version < MaxVersion
  /\ version' = version + 1
  /\ UNCHANGED <<mode, file, actor, loaded, mutex, builds, crashes, torn>>

\* A process is killed; what it was writing stays as it is.
Crash(p) ==
  LET mine == {a \in Actors : ProcessOf[a] = p}
  IN  /\ crashes < MaxCrashes /\ \E a \in mine : actor[a].at \notin AtRest
      /\ crashes' = crashes + 1
      /\ actor' = [a \in Actors |-> IF a \in mine THEN [actor[a] EXCEPT !.at = "killed"] ELSE actor[a]]
      /\ torn' = (torn \/ \E a \in mine : actor[a].at \in Writing)
      /\ UNCHANGED <<mode, version, file, loaded, mutex, builds>>

Init ==
  /\ mode \in Modes /\ version = 0
  /\ file = NoFiles
  /\ actor = [a \in Actors |-> NewActor]
  /\ loaded = [p \in Processes |-> None] /\ lock = [p \in Processes |-> 0]
  /\ asleep = {} /\ stranded = {}
  /\ builds = 0 /\ crashes = 0 /\ torn = FALSE

CallStep(a) ==
  \/ OpenProgram(a) \/ Compile(a) \/ CompileFails(a) \/ WriteProgram(a) \/ ReadProgram(a)
  \/ Enqueue(a) \/ Generate(a) \/ WriteParallel(a)
  \/ Check(a) \/ InitLock(a) \/ Lock(a) \/ Sleep(a) \/ Scan(a)
  \/ Load(a) \/ Codegen(a) \/ WriteObject(a) \/ StartLink(a) \/ FinishLink(a)
  \/ Clean(a) \/ DlOpen(a)

Next ==
  \/ \E a \in Actors : Build(a) \/ CallStep(a) \/ Release(a)
  \/ Edit
  \/ \E p \in Processes : Crash(p)

Spec == Init /\ [][Next]_vars

\* A thread inside a call of the runtime keeps running, unless it sleeps.
FairSpec == Spec /\ \A a \in Actors : WF_vars(CallStep(a))
-----------------------------------------------------------------------------
\* Properties.
Versions == 0..MaxVersion
Copies == [by : {None} \cup Actors, version : Versions]
Places == Done \cup Writing \cup
          {"open", "read", "enqueue", "generate", "queued", "init", "lock", "slept", "scan",
           "load", "codegen", "link", "clean", "dlopen"}
ActorStates == [at : Places, ir : {None} \cup Versions, runs : {None} \cup Versions,
                alone : BOOLEAN, warm : BOOLEAN]
Typed ==
  /\ mode \in Modes /\ version \in Versions /\ torn \in BOOLEAN
  /\ builds \in 0..MaxBuilds[mode] /\ crashes \in 0..MaxCrashes
  /\ file \in [Names -> {None} \cup Copies]
  /\ actor \in [Actors -> ActorStates]
  /\ loaded \in [Processes -> {None} \cup Versions]
  /\ lock \in [Processes -> 0..2] /\ asleep \subseteq Actors /\ stranded \subseteq Actors
\* Where a module is compiled, and where a function is called, there is one.
ModuleKnown == \A a \in Actors : actor[a].at \in {"write", "enqueue", "generate"} => actor[a].ir # None
FunctionKnown == \A a \in Actors : actor[a].at = "ran" => actor[a].runs # None
TypeOK == Typed /\ ModuleKnown /\ FunctionKnown

\* A program nobody else builds or launches meanwhile is built and its kernel
\* runs, whatever state earlier users left the directory in; unless one of them
\* was stopped while it wrote.  (The client's own error in the source aside.)
AloneSucceeds ==
  \A a \in Actors : actor[a].at \in {"failed", "dead"} => ~actor[a].alone \/ torn

\* Once the cache holds the shared object, and whoever made it is done, any
\* number of threads and processes may build and launch the kernel at once,
\* and be killed while they do.
WarmCacheSafe ==
  \A a \in Actors : actor[a].at \in {"failed", "dead"} => ~actor[a].warm

\* A file that is not whole is being written: no failed build, no assert and no
\* removal by another process leaves one for good.  Only a writer that is
\* stopped does.
PartialIsBeingWritten ==
  \A n \in Names : Partial(n) => actor[file[n].by].at \in Writing \/ torn

\* A call ends: nobody waits for the lock of the loaded functions for ever,
\* except a thread that was asleep on it when it was initialised again.
CallsEnd ==
  \A a \in Actors : actor[a].at = "open" ~>
    actor[a].at \in {"ran", "refused", "failed", "dead", "killed"} \/ a \in stranded

\* What a launch runs was compiled from the headers as they were when its
\* program was built.
RunsWhatWasBuilt ==
  \A a \in Actors : actor[a].at = "ran" => actor[a].runs = actor[a].ir
=============================================================================
