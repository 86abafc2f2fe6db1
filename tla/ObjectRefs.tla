----------------------------- MODULE ObjectRefs -----------------------------
(***************************************************************************)
(* Lifetime of the runtime's objects (rsObjectBase.cpp): user and system   *)
(* reference counts, checkDelete and the lock it shares with the cache of  *)
(* types and elements (rsType.cpp, rsElement.cpp), destruction requested   *)
(* by clients and finalizers and carried out by the context's thread, and  *)
(* the release of everything by rsi_ContextDestroy on the client's thread. *)
(*                                                                         *)
(* Objects are 1 .. NumObjs in the order they are created; each but the    *)
(* first holds a system reference to the one before it, as an allocation   *)
(* does to its type and a type to its element.                             *)
(***************************************************************************)
EXTENDS Integers, Sequences, FiniteSets, FiniteSetsExt

CONSTANTS
  NumObjs,
  Makers,      \* client threads that create objects directly
  Owner,       \* the one that destroys the context
  MaxHandles,  \* bound on the handles a client has on one object
  MaxQueue,    \* bound on the commands in the FIFO
  Shared,      \* objects of a class that shares equal objects through a cache
  MayBind,     \* TRUE when clients bind objects to script slots
  Split,       \* objects whose two counts checkDelete reads one by one
  MayDestroy,  \* TRUE when the client destroys the context
  LateDestroy  \* TRUE when finalizers run between finish() and the destroy

ASSUME ObjsAssumption == NumObjs \in Nat /\ MaxHandles \in Nat /\ MaxQueue \in Nat
ASSUME ThreadsAssumption == Owner \in Makers /\ "core" \notin Makers
ASSUME ClassAssumption == Shared \subseteq 1 .. NumObjs /\ Split \subseteq 1 .. NumObjs
ASSUME FlagsAssumption == {MayBind, MayDestroy, LateDestroy} \subseteq BOOLEAN

Objs    == 1 .. NumObjs
None    == 0
Threads == Makers \cup {"core"}
Held(o) == o - 1     \* the object o holds a reference to, None for the first

VARIABLES
  user, sys,   \* mUserRefCount and mSysRefCount
  life,        \* "none", "live" or "dead" (deleted)
  cached,      \* objects in mObjHead's list and in the cache of their class
  handles,     \* handles the clients have and will give back
  queue,       \* commands in the FIFO
  slot,        \* the object a script slot refers to
  lock,        \* holder of gObjectInitMutex
  pc, obj,     \* control point and object of each thread
  next,        \* the object the context's thread is binding
  phase,       \* the context: up, finishing, closed or gone
  visited      \* objects zeroAllUserRef has passed since it last restarted

counts == <<user, sys>>
vars == <<user, sys, life, cached, handles, queue, slot, lock, pc, obj, next,
          phase, visited>>

Init ==
  /\ user = [o \in Objs |-> 0] /\ sys = [o \in Objs |-> 0]
  /\ life = [o \in Objs |-> "none"] /\ cached = {}
  /\ handles = [o \in Objs |-> 0] /\ queue = <<>> /\ slot = None
  /\ lock = "free"
  /\ pc = [t \in Threads |-> "idle"] /\ obj = [t \in Threads |-> None]
  /\ next = None /\ phase = "up" /\ visited = {}

Goto(t, where) == pc' = [pc EXCEPT ![t] = where]
At(t, where, o) == /\ pc' = [pc EXCEPT ![t] = where]
                   /\ obj' = [obj EXCEPT ![t] = o]
Bump(c, o, k) == [c EXCEPT ![o] = @ + k]

\* Where a thread goes on when a release is over: the owner's walk over all
\* objects, the rest of a bind, or its next command.
Resume(t) ==
  IF t = Owner /\ phase = "closed" THEN At(t, "walk", None)
  ELSE IF t = "core" /\ next # None THEN At(t, "setSlot", None)
  ELSE At(t, "idle", None)

-----------------------------------------------------------------------------
(* decUserRef, decSysRef, zeroUserRef and checkDelete, on any thread. *)

\* __sync_fetch_and_sub of one count; the last reference looks at the other.
DecUser(t) ==
  LET o == obj[t] IN
  /\ pc[t] = "decUser"
  /\ user' = Bump(user, o, -1)
  /\ IF user[o] <= 1 THEN Goto(t, "readSys") /\ UNCHANGED obj ELSE Resume(t)
  /\ UNCHANGED <<sys, life, cached, handles, queue, slot, lock, next, phase,
                 visited>>

DecSys(t) ==
  LET o == obj[t] IN
  /\ pc[t] = "decSys"
  /\ sys' = Bump(sys, o, -1)
  /\ IF sys[o] <= 1 THEN Goto(t, "readUser") /\ UNCHANGED obj ELSE Resume(t)
  /\ UNCHANGED <<user, life, cached, handles, queue, slot, lock, next, phase,
                 visited>>

\* The thread reads the other count without the lock.
ReadOther(t) ==
  LET o == obj[t] IN
  /\ \/ pc[t] = "readSys" /\ IF sys[o] <= 0 THEN At(t, "lock", o) ELSE Resume(t)
     \/ pc[t] = "readUser" /\ IF user[o] <= 0 THEN At(t, "lock", o) ELSE Resume(t)
  /\ UNCHANGED <<counts, life, cached, handles, queue, slot, lock, next, phase,
                 visited>>

\* checkDelete: asyncLock.
Lock(t) ==
  /\ pc[t] = "lock" /\ lock = "free"
  /\ lock' = t
  /\ Goto(t, "check")
  /\ UNCHANGED <<counts, life, cached, handles, queue, slot, obj, next, phase,
                 visited>>

KeepIt(t) == lock' = "free" /\ Resume(t) /\ UNCHANGED <<cached, visited>>

\* remove() and preDestroy(), and asyncUnlock.  zeroAllUserRef starts over.
Unlist(t) ==
  /\ cached' = cached \ {obj[t]}
  /\ lock' = "free"
  /\ Goto(t, "delete") /\ UNCHANGED obj
  /\ visited' = {}

\* A bug: checkDelete trusts what was read before it took the lock.
Check_Trusting(t) ==
  /\ pc[t] = "check"
  /\ Unlist(t)
  /\ UNCHANGED <<counts, life, handles, queue, slot, next, phase>>

\* if (ref->mUserRefCount || ref->mSysRefCount), under the lock.
Check(t) ==
  LET o == obj[t] IN
  /\ pc[t] = "check"
  /\ IF user[o] # 0 THEN KeepIt(t)
     ELSE IF o \in Split
            THEN Goto(t, "check2") /\ UNCHANGED <<obj, lock, cached, visited>>
     ELSE IF sys[o] # 0 THEN KeepIt(t) ELSE Unlist(t)
  /\ UNCHANGED <<counts, life, handles, queue, slot, next, phase>>

\* The second operand of the condition, when it is a read of its own.
Check2(t) ==
  /\ pc[t] = "check2"
  /\ IF sys[obj[t]] # 0 THEN KeepIt(t) ELSE Unlist(t)
  /\ UNCHANGED <<counts, life, handles, queue, slot, next, phase>>

\* A bug: the destructor does not give up the object's own reference.
Delete_Leaks(t) ==
  /\ pc[t] = "delete"
  /\ life' = [life EXCEPT ![obj[t]] = "dead"]
  /\ Resume(t)
  /\ UNCHANGED <<counts, cached, handles, queue, slot, lock, next, phase, visited>>

\* The destructor, which releases the reference the object holds.
Delete(t) ==
  LET o == obj[t] IN
  /\ pc[t] = "delete"
  /\ life' = [life EXCEPT ![o] = "dead"]
  /\ IF Held(o) = None THEN Resume(t) ELSE At(t, "decSys", Held(o))
  /\ UNCHANGED <<counts, cached, handles, queue, slot, lock, next, phase, visited>>

ReleaseStep(t) == \/ DecUser(t) \/ DecSys(t) \/ ReadOther(t) \/ Lock(t)
                  \/ Check(t) \/ Check2(t) \/ Delete(t)

-----------------------------------------------------------------------------
(* Creation: getTypeRef and getType, on a client's thread. *)

Making(t) == phase = "up" /\ pc[t] = "idle"

\* A search of the cache that finds o: a temporary system reference is taken
\* under the lock.
Lookup(t, o) ==
  /\ o \in Shared /\ Making(t) /\ o \in cached /\ handles[o] < MaxHandles /\ lock = "free"
  /\ sys' = Bump(sys, o, 1)
  /\ At(t, "incUser", o)
  /\ UNCHANGED <<user, life, cached, handles, queue, slot, lock, next, phase,
                 visited>>

\* A search that finds nothing: the new object is constructed; it holds a
\* reference to an object the client has a handle on.
Create(t, o) ==
  /\ Making(t) /\ life[o] = "none"
  /\ \A p \in Objs : p < o => life[p] # "none"
  /\ IF Held(o) = None THEN TRUE ELSE handles[Held(o)] > 0
  /\ life' = [life EXCEPT ![o] = "live"]
  /\ sys' = [p \in Objs |-> IF p \in {o, Held(o)} THEN sys[p] + 1 ELSE sys[p]]
  /\ At(t, "push", o)
  /\ UNCHANGED <<user, cached, handles, queue, slot, lock, next, phase, visited>>

\* mTypes.push_back, under the lock.
Push(t) ==
  /\ pc[t] = "push" /\ lock = "free"
  /\ cached' = cached \cup {obj[t]}
  /\ Goto(t, "incUser")
  /\ UNCHANGED <<counts, life, handles, queue, slot, lock, obj, next, phase,
                 visited>>

\* getType: incUserRef, and then the temporary reference goes out of scope.
IncUser(t) ==
  /\ pc[t] = "incUser"
  /\ user' = Bump(user, obj[t], 1)
  /\ Goto(t, "gotUser")
  /\ UNCHANGED <<sys, life, cached, handles, queue, slot, lock, obj, next, phase,
                 visited>>

\* ~ObjectBaseRef's decSysRef ...
DropTemp(t) ==
  LET o == obj[t] IN
  /\ pc[t] = "gotUser"
  /\ sys' = Bump(sys, o, -1)
  /\ IF sys[o] <= 1 THEN Goto(t, "gotRead") /\ UNCHANGED <<obj, handles>>
     ELSE Resume(t) /\ handles' = Bump(handles, o, 1)
  /\ UNCHANGED <<user, life, cached, queue, slot, lock, next, phase, visited>>

\* ... which finds this thread's own user reference; the handle is returned.
GotRead(t) ==
  LET o == obj[t] IN
  /\ pc[t] = "gotRead"
  /\ IF user[o] <= 0 THEN At(t, "lock", o) /\ UNCHANGED handles
     ELSE Resume(t) /\ handles' = Bump(handles, o, 1)
  /\ UNCHANGED <<counts, life, cached, queue, slot, lock, next, phase, visited>>

-----------------------------------------------------------------------------
(* Commands: clients send them, the context's thread runs them. *)

Sends == /\ Len(queue) < MaxQueue
         /\ phase = "up" \/ (phase = "finishing" /\ LateDestroy)

\* A client, or a finalizer, gives a handle back: ObjDestroy.
SendDestroy(o) ==
  /\ Sends /\ handles[o] > 0
  /\ handles' = Bump(handles, o, -1)
  /\ queue' = Append(queue, [op |-> "destroy", o |-> o])
  /\ UNCHANGED <<counts, life, cached, slot, lock, pc, obj, next, phase, visited>>

\* A client binds an object it has a handle on to a script slot, or clears it.
SendBind(o) ==
  /\ MayBind /\ Sends /\ phase = "up"
  /\ IF o = None THEN TRUE ELSE handles[o] > 0
  /\ queue' = Append(queue, [op |-> "bind", o |-> o])
  /\ UNCHANGED <<counts, life, cached, handles, slot, lock, pc, obj, next, phase,
                 visited>>

\* rsi_ObjDestroy.
PlayDestroy ==
  /\ pc["core"] = "idle" /\ phase # "gone" /\ queue # <<>>
  /\ Head(queue).op = "destroy"
  /\ At("core", "decUser", Head(queue).o)
  /\ queue' = Tail(queue)
  /\ UNCHANGED <<counts, life, cached, handles, slot, lock, next, phase, visited>>

\* A bug: the slot keeps no reference of its own.
PlayBind_NoRef ==
  /\ pc["core"] = "idle" /\ phase # "gone" /\ queue # <<>>
  /\ Head(queue).op = "bind"
  /\ slot' = Head(queue).o
  /\ queue' = Tail(queue)
  /\ UNCHANGED <<counts, life, cached, handles, lock, pc, obj, next, phase, visited>>

\* ObjectBaseRef::set on a slot: first release the old object ...
PlayBind ==
  LET o == Head(queue).o IN
  /\ pc["core"] = "idle" /\ phase # "gone" /\ queue # <<>>
  /\ Head(queue).op = "bind"
  /\ queue' = Tail(queue)
  /\ IF o = slot THEN UNCHANGED <<slot, next, pc, obj>>
     ELSE /\ slot' = None
          /\ next' = o
          /\ IF slot # None THEN At("core", "decSys", slot)
             ELSE At("core", "setSlot", None)
  /\ UNCHANGED <<counts, life, cached, handles, lock, phase, visited>>

\* ... then take the reference to the new one.
SetSlot ==
  /\ pc["core"] = "setSlot"
  /\ slot' = next /\ next' = None
  /\ sys' = IF next = None THEN sys ELSE Bump(sys, next, 1)
  /\ At("core", "idle", None)
  /\ UNCHANGED <<user, life, cached, handles, queue, lock, phase, visited>>

-----------------------------------------------------------------------------
(* The end of the context. *)

\* finish(): the commands sent so far have run.
Finish ==
  /\ MayDestroy /\ phase = "up"
  /\ \A t \in Threads : pc[t] = "idle"
  /\ queue = <<>>
  /\ phase' = "finishing"
  /\ UNCHANGED <<counts, life, cached, handles, queue, slot, lock, pc, obj, next,
                 visited>>

\* nContextDestroy takes the write lock and clears mContext: from here on no
\* finalizer sends anything.  rsi_ContextDestroy runs on this thread; the
\* script, the newest object, goes first and gives up its slot.
Close ==
  /\ phase = "finishing"
  /\ phase' = "closed"
  /\ slot' = None
  /\ IF slot # None THEN At(Owner, "decSys", slot) ELSE At(Owner, "walk", None)
  /\ UNCHANGED <<counts, life, cached, handles, queue, lock, next, visited>>

\* zeroAllUserRef, without the lock: zeroUserRef on the next object of the
\* list, newest first.
Walk ==
  /\ pc[Owner] = "walk"
  /\ cached \ visited # {}
  /\ LET o == Max(cached \ visited) IN
       /\ user' = [user EXCEPT ![o] = 0]
       /\ visited' = visited \cup {o}
       /\ At(Owner, "readSys", o)
  /\ UNCHANGED <<sys, life, cached, handles, queue, slot, lock, next, phase>>

\* mExit = true; ~Context shuts the FIFO down and joins the context's thread.
Gone ==
  /\ pc[Owner] = "walk" /\ cached \subseteq visited
  /\ pc["core"] = "idle"
  /\ phase' = "gone"
  /\ At(Owner, "idle", None)
  /\ UNCHANGED <<counts, life, cached, handles, queue, slot, lock, next, visited>>

ThreadStep(t) == ReleaseStep(t) \/ Push(t) \/ IncUser(t) \/ DropTemp(t) \/ GotRead(t)
CoreStep == PlayDestroy \/ PlayBind \/ SetSlot
EndStep  == Close \/ Walk \/ Gone

\* Nothing is left to do.
Idle ==
  /\ \A t \in Threads : pc[t] = "idle"
  /\ queue = <<>> \/ phase = "gone"
  /\ UNCHANGED vars

Next == \/ \E t \in Threads : ThreadStep(t)
        \/ \E t \in Makers, o \in Objs : Lookup(t, o) \/ Create(t, o)
        \/ \E o \in Objs : SendDestroy(o)
        \/ \E o \in Objs \cup {None} : SendBind(o)
        \/ CoreStep \/ Finish \/ EndStep \/ Idle

Spec == Init /\ [][Next]_vars

\* Threads in the middle of an operation go on.  No client has to create,
\* destroy or bind anything.
FairSpec == /\ Spec
            /\ \A t \in Threads : WF_vars(ThreadStep(t))
            /\ WF_vars(CoreStep) /\ WF_vars(EndStep)

-----------------------------------------------------------------------------
(* Properties. *)

Points == {"idle", "decUser", "decSys", "readSys", "readUser", "lock", "check",
           "check2", "delete", "push", "incUser", "gotUser", "gotRead", "setSlot",
           "walk"}

\* Counts, lists and control points keep their types; the counts never become
\* negative, as the assertions in decUserRef and decSysRef say.
TypeOK ==
  /\ user \in [Objs -> Nat] /\ sys \in [Objs -> Nat]
  /\ life \in [Objs -> {"none", "live", "dead"}]
  /\ cached \subseteq Objs /\ visited \subseteq Objs
  /\ handles \in [Objs -> Nat]
  /\ queue \in Seq([op : {"destroy", "bind"}, o : Objs \cup {None}])
  /\ slot \in Objs \cup {None} /\ next \in Objs \cup {None}
  /\ lock \in Threads \cup {"free"}
  /\ pc \in [Threads -> Points] /\ obj \in [Threads -> Objs \cup {None}]
  /\ phase \in {"up", "finishing", "closed", "gone"}

\* No thread works on an object that has been deleted, and nothing a client,
\* a slot or the cache still refers to has been.
NoUseAfterFree ==
  /\ \A t \in Threads : obj[t] # None => life[obj[t]] = "live"
  /\ \A o \in Objs : life[o] = "dead" => /\ slot # o /\ next # o /\ o \notin cached
                                         /\ phase = "up" => handles[o] = 0

OfUser(o) == Cardinality({t \in Threads :
                           obj[t] = o /\ pc[t] \in {"gotUser", "gotRead", "decUser"}})
OfSys(o) == Cardinality({t \in Threads :
                          obj[t] = o /\ pc[t] \in {"push", "incUser", "gotUser", "decSys"}})
InQueue(o) == Cardinality({i \in DOMAIN queue : queue[i] = [op |-> "destroy", o |-> o]})

\* Before the context is closed the counts are exact: one user reference per
\* handle, ObjDestroy under way and getType about to return; one system
\* reference per slot, living holder and temporary reference.
CountsExact ==
  phase \in {"up", "finishing"} => \A o \in Objs :
    /\ user[o] = handles[o] + InQueue(o) + OfUser(o)
    /\ sys[o] = OfSys(o) + (IF slot = o THEN 1 ELSE 0)
                + Cardinality({p \in Objs : Held(p) = o /\ life[p] = "live"})

\* When everything has come to rest, an object nobody refers to is gone.
NoLeak ==
  (\A t \in Threads : pc[t] = "idle") /\ phase \in {"up", "finishing"} =>
    \A o \in Objs : life[o] = "live" => user[o] + sys[o] > 0

\* The counts say exactly who refers to an object, and one at rest without
\* references is gone (incUserRef to decSysRef, checkDelete).
ReferencesExact == TypeOK /\ CountsExact /\ NoLeak

\* The context's destruction ends, and leaves no object behind (rsi_ContextDestroy,
\* and the assertion in ~TypeState).
DestroyFrees ==
  (phase = "finishing") ~> (phase = "gone" /\ cached = {} /\ \A o \in Objs : life[o] # "live")
=============================================================================
