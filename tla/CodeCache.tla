------------------------------ MODULE CodeCache -----------------------------
(***************************************************************************)
(* The CPU driver's code cache. A script's bitcode, and the closures of a  *)
(* script group, are compiled to an object file, linked to a shared        *)
(* library in the application's cache directory and loaded; later          *)
(* instances and later processes reuse the library when its checksum       *)
(* matches. The files survive a crash of the process, which may come       *)
(* between any two of the steps.                                           *)
(***************************************************************************)
EXTENDS Integers, Sequences, FiniteSets

CONSTANTS
    ScriptNames,    \* resource names of the application's scripts
    GroupNames,     \* names of its script groups
    Variants,       \* groups of different closures that share a name
    MaxLive,        \* bound: instances loaded at a time
    MaxBuilds,      \* bound: versions of the application and of the system
    MaxCopies       \* bound: copies of libraries a process makes

Names == ScriptNames \cup GroupNames

VARIABLES
    debuggable,     \* ro.debuggable: scripts are checked too
    reuse,          \* no forced recompilation, no debug context
    build,          \* version of the bitcode, the compiler and its libraries
    so,             \* librs.<name>.so: NoFile, Partial, or [code, sum]
    obj,            \* <name>.o: NoFile or the code in it
    mislinked,      \* a group was linked from an object file it did not write
    LoadedLibraries,\* names of libraries the process has loaded
    copies,         \* copies made so far: each has a name of its own
    live,           \* instances: [name, want, code, lib]
    task            \* the initialisation in progress, under the driver's lock

cacheVars == <<debuggable, reuse, build, so, obj, mislinked, LoadedLibraries, copies,
               live, task>>

NoFile == [kind |-> "none"]
Partial == [kind |-> "partial"]
Library(c, s) == [kind |-> "lib", code |-> c, sum |-> s]

\* what an instance should run: the closures (0 for a script) as of a build
Code(n, v) == [name |-> n, variant |-> v, build |-> build]
NoCode == [name |-> "", variant |-> 0, build |-> 0]

Idle == [pc |-> "idle", name |-> "", variant |-> 0, loaded |-> FALSE, code |-> NoCode]
IsGroup(n) == n \in GroupNames

-----------------------------------------------------------------------------
(* Loading *)

\* defect: the library is opened under its own name every time
LoadSOSame(n) ==
    IF so[n].kind # "lib" THEN [ok |-> FALSE, loaded |-> FALSE]
    ELSE [ok |-> TRUE, lib |-> <<n, 0>>, names |-> {n}, copies |-> copies,
          loaded |-> n \in LoadedLibraries]

\* loadSOHelper: the first time under its own name, later as a fresh copy.
\* A file that is not a whole library does not open.
LoadSO(n) ==
    IF so[n].kind # "lib" THEN [ok |-> FALSE, loaded |-> FALSE]
    ELSE IF n \notin LoadedLibraries
    THEN [ok |-> TRUE, lib |-> <<n, 0>>, names |-> {n}, copies |-> copies,
          loaded |-> FALSE]
    ELSE [ok |-> TRUE, lib |-> <<n, copies + 1>>, names |-> {}, copies |-> copies + 1,
          loaded |-> TRUE]

\* createFromSharedObject: expected 0 accepts every checksum
CreateFromSharedObject(n, expected) == expected = 0 \/ so[n].sum = expected

\* constructBuildChecksum over the bitcode, the command line and the compiler's
\* files, taken to tell codes apart; a constant where none is needed
Dummy == 1
Checksum(c) == 2 + c.variant + 10 * c.build
ScriptSum(c) == IF debuggable THEN Checksum(c) ELSE Dummy
Expected(c) == IF IsGroup(c.name) THEN Checksum(c)
               ELSE IF debuggable THEN Checksum(c) ELSE 0
Stamp(c) == IF IsGroup(c.name) THEN Checksum(c) ELSE ScriptSum(c)

Want == Code(task.name, task.variant)
Instance(n, want, code, lib) == [name |-> n, want |-> want, code |-> code, lib |-> lib]

-----------------------------------------------------------------------------
(* Initialising a script (RsdCpuScriptImpl::init) or a group (compile) *)

\* a group remembers that its library had been loaded before
AlreadyLoaded(n, l) == IsGroup(n) /\ l.loaded

\* bcc's output: for a group whose library is loaded, under another name
ObjectsCompiled == IF task.loaded THEN obj ELSE [obj EXCEPT ![task.name] = Want]

\* a group's object file is deleted, linked or not
ObjectsLinked == IF IsGroup(task.name) THEN [obj EXCEPT ![task.name] = NoCode] ELSE obj

\* the library just linked: a group's is not checked again
Accepted(n) == IsGroup(n) \/ CreateFromSharedObject(n, Expected(Want))

Begin(n, v) ==
    /\ task = Idle /\ Cardinality(live) < MaxLive
    /\ IsGroup(n) <=> v # 0
    /\ task' = [pc |-> IF reuse THEN "load" ELSE "compile", name |-> n, variant |-> v,
               loaded |-> FALSE, code |-> NoCode]
    /\ UNCHANGED <<debuggable, reuse, build, so, obj, mislinked, LoadedLibraries, copies,
                   live>>

\* Look in the cache. A mismatch closes the library again, but its name stays
\* among the loaded ones.
LoadCached ==
    LET n == task.name
        l == LoadSO(n)
    IN  /\ task.pc = "load" /\ copies < MaxCopies
        /\ IF l.ok /\ CreateFromSharedObject(n, Expected(Want))
           THEN /\ live' = live \cup {Instance(n, Want, so[n].code, l.lib)}
                /\ task' = Idle
           ELSE /\ task' = [task EXCEPT !.pc = "compile", !.loaded = AlreadyLoaded(n, l)]
                /\ UNCHANGED live
        /\ IF l.ok THEN /\ LoadedLibraries' = LoadedLibraries \cup l.names
                        /\ copies' = l.copies
           ELSE UNCHANGED <<LoadedLibraries, copies>>
        /\ UNCHANGED <<debuggable, reuse, build, so, obj, mislinked>>

\* bcc writes the object file. When it fails, a script cannot be created and a
\* group runs its kernels unfused.
Compile(ok) ==
    /\ task.pc = "compile"
    /\ task' = IF ok THEN [task EXCEPT !.pc = "link"] ELSE Idle
    /\ obj' = IF ok THEN ObjectsCompiled ELSE obj
    /\ UNCHANGED <<debuggable, reuse, build, so, mislinked, LoadedLibraries, copies, live>>

\* createSharedLibrary links <name>.o. Where nothing is reused the library has a
\* name of its own and is deleted after loading.
Link(ok) ==
    LET n == task.name
    IN  /\ task.pc = "link" /\ (ok => obj[n] # NoCode)
        /\ task' = IF ~ok THEN Idle
                  ELSE IF reuse THEN [task EXCEPT !.pc = "reload"]
                  ELSE [task EXCEPT !.pc = "open", !.code = obj[n]]
        /\ so' = IF ok /\ reuse THEN [so EXCEPT ![n] = Library(obj[n], Stamp(obj[n]))] ELSE so
        /\ obj' = ObjectsLinked
        /\ mislinked' = (mislinked \/ (ok /\ task.loaded))
        /\ UNCHANGED <<debuggable, reuse, build, LoadedLibraries, copies, live>>

\* The library just linked is loaded.
Reload ==
    LET n == task.name
        l == LoadSO(n)
    IN  /\ task.pc = "reload" /\ copies < MaxCopies
        /\ IF l.ok /\ Accepted(n)
           THEN live' = live \cup {Instance(n, Want, so[n].code, l.lib)}
           ELSE UNCHANGED live
        /\ IF l.ok THEN /\ LoadedLibraries' = LoadedLibraries \cup l.names
                        /\ copies' = l.copies
           ELSE UNCHANGED <<LoadedLibraries, copies>>
        /\ task' = Idle
        /\ UNCHANGED <<debuggable, reuse, build, so, obj, mislinked>>

\* loadAndDeleteSharedLibrary: a file that no other instance ever sees
OpenPrivate ==
    /\ task.pc = "open" /\ copies < MaxCopies
    /\ copies' = copies + 1
    /\ live' = live \cup {Instance(task.name, Want, task.code, <<task.name, copies + 1>>)}
    /\ task' = Idle
    /\ UNCHANGED <<debuggable, reuse, build, so, obj, mislinked, LoadedLibraries>>

-----------------------------------------------------------------------------
(* The environment *)

\* An instance is destroyed: its library is closed, the name is not forgotten.
Destroy(i) ==
    /\ live' = live \ {i}
    /\ UNCHANGED <<debuggable, reuse, build, so, obj, mislinked, LoadedLibraries, copies, task>>

\* The process dies. While linking, the library may be left half written.
Crash ==
    /\ live' = {} /\ LoadedLibraries' = {} /\ copies' = 0 /\ task' = Idle
    /\ so' \in IF task.pc = "link" /\ reuse THEN {so, [so EXCEPT ![task.name] = Partial]}
               ELSE {so}
    /\ UNCHANGED <<debuggable, reuse, build, obj, mislinked>>

\* The application is reinstalled, which clears the cache, or, where the build
\* is debuggable, the system's compiler changes under the cache.
Rebuild(clear) ==
    /\ task = Idle /\ live = {} /\ LoadedLibraries = {} /\ build < MaxBuilds
    /\ ~clear => debuggable
    /\ build' = build + 1
    /\ IF clear THEN /\ so' = [n \in Names |-> NoFile]
                     /\ obj' = [n \in Names |-> NoCode]
       ELSE UNCHANGED <<so, obj>>
    /\ UNCHANGED <<mislinked, debuggable, reuse, LoadedLibraries, copies, live, task>>

CacheInit ==
    /\ debuggable \in BOOLEAN /\ reuse \in BOOLEAN /\ build = 1
    /\ so = [n \in Names |-> NoFile] /\ obj = [n \in Names |-> NoCode] /\ mislinked = FALSE
    /\ LoadedLibraries = {} /\ copies = 0 /\ live = {} /\ task = Idle

CacheNext ==
    \/ \E n \in Names, v \in Variants \cup {0} : Begin(n, v)
    \/ LoadCached \/ Reload \/ OpenPrivate
    \/ \E ok \in BOOLEAN : Compile(ok) \/ Link(ok)
    \/ \E i \in live : Destroy(i)
    \/ Crash
    \/ \E clear \in BOOLEAN : Rebuild(clear)

CacheSpec == CacheInit /\ [][CacheNext]_cacheVars

-----------------------------------------------------------------------------
(* Properties *)

\* No two instances share a loaded library, whose globals are the instance's
\* own: "which are supposed to be completely independent" (loadSOHelper).
OwnGlobals == \A i, j \in live : i # j => i.lib # j.lib

\* What an instance runs was compiled from its own bitcode or closures by the
\* compiler of the day, whatever was in the cache and whenever a process
\* crashed; until a group whose library is loaded is linked, which takes an
\* object file that a crash left behind.
CodeMatches == ~mislinked => \A i \in live : i.code = i.want

=============================================================================
