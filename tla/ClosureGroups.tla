---------------------------- MODULE ClosureGroups ---------------------------
(***************************************************************************)
(* The second kind of script group: closures (a kernel or an invocable     *)
(* function with its arguments and the values of the globals it reads)     *)
(* created through ScriptGroup.Builder2, recorded by the core with the     *)
(* closures they depend on, cut into batches by CpuScriptGroup2Impl and    *)
(* executed batch by batch. In a batch of kernels every cell runs all the  *)
(* closures before the next cell does. A result records what was read.     *)
(***************************************************************************)
EXTENDS Integers, Sequences, FiniteSets, SequencesExt

CONSTANTS
    MaxClosures,    \* bound: closures of a group
    MaxRuns,        \* bound: executions of a group
    ClosureCells    \* cells of every allocation

\* The functions of the scripts: "reader", a kernel that reads its script's global, "writer", one
\* of another script that writes the allocation its global refers to, and
\* "invoke", an invocable function of the first script that sets its global.
FunctionScript(f) == IF f = "writer" THEN 2 ELSE 1

VARIABLES
    bstage,     \* "build", "made", "running", "done"
    closures,   \* closures in the order they were added
    references, \* where the group's input is used: <<closure, place, index>>
    batches,    \* batches: sequences of closure numbers
    runs,       \* executions started
    at,         \* batch to run next
    globals,    \* value of each script's global
    cells       \* contents of the allocations

closureVars == <<bstage, closures, references, batches, runs, at, globals, cells>>

Cells == 1 .. ClosureCells
Nothing == <<"none", 0>>            \* not bound, or value 0 with size 0
Ext == <<"ext", 1>>                 \* an allocation of the application
Written(c) == <<"out", c>>          \* one that closure c writes through its global
TheInput == <<"input", 0>>          \* an Input, before it is set
Ret(c) == <<"ret", c>>              \* the return value of closure c
InputOf(r) == <<"given", r>>        \* what execution r passes for the input
Places == {Ext} \cup UNION {{Ret(c), Written(c)} : c \in 1 .. MaxClosures}
          \cup {InputOf(r) : r \in 1 .. MaxRuns}

-----------------------------------------------------------------------------
(* Builder2 *)

\* What the application may pass: a value, the input, or a future. A future is
\* [value, dep, field]: the closure it comes from, and whether it is a global's.
Plain(v) == [value |-> v, dep |-> 0, field |-> FALSE]
\* Closure.getReturn
ReturnFuture(c) == [value |-> Ret(c), dep |-> c, field |-> FALSE]
\* Closure.getGlobal: the value bound to the field, none when it is not bound
GlobalFuture(c) == [value |-> closures[c].global, dep |-> c, field |-> TRUE]

Returning == {c \in DOMAIN closures : closures[c].fn # "invoke"}
ReturnFutures == {ReturnFuture(c) : c \in Returning}
BoundFutures == {GlobalFuture(c) : c \in {d \in Returning : closures[d].global # Nothing}}

\* plain values: one allocation stands for all, beside the input
FirstArgs == (IF closures = <<>> THEN {Plain(Ext), Plain(TheInput)} ELSE {Plain(TheInput)})
             \cup ReturnFutures \cup BoundFutures
SecondArgs == {<<>>} \cup {<<f>> : f \in ReturnFutures}

\* A reader's global: nothing, an allocation, the input, a future, or what an
\* invocable function of the same script set. Every writer has an allocation of
\* its own.
InvokeFutures == {GlobalFuture(c) : c \in {d \in DOMAIN closures :
                                              closures[d].fn = "invoke"}}
Bindings(f) == CASE f = "reader" -> {Plain(Nothing), Plain(Ext)}
                                    \cup ReturnFutures \cup BoundFutures
                                    \cup InvokeFutures
                 [] f = "writer" -> {Plain(Written(Len(closures) + 1))}
                 [] f = "invoke" -> {Plain(Nothing), Plain(TheInput)}

\* retrieveValueAndDependenceInfo: an Input is remembered with the place it is
\* used at; index 0 stands for the closure's global.
AddReference(c, index, v) == IF v = TheInput THEN {<<c, index>>} ELSE {}

\* the core's Closure of a kernel: the values, and the closures they depend on
KernelClosure(f, args, global) ==
    [fn |-> f,
     args |-> [i \in DOMAIN args |-> args[i].value],
     global |-> global.value,
     skip |-> global.dep # 0 /\ global.value = Nothing,
     argDeps |-> {<<args[i].dep, i, args[i].field>> :
                     i \in {j \in DOMAIN args : args[j].dep # 0}},
     globalDeps |-> IF global.dep # 0 THEN {global.dep} ELSE {}]

\* the core's Closure of an invocable function: no dependences are kept
InvokeClosure(global) ==
    [fn |-> "invoke", args |-> <<>>, global |-> global.value, skip |-> FALSE,
     argDeps |-> {}, globalDeps |-> {}]

AddKernelClosure(f, args, global) ==
    LET c == Len(closures) + 1
    IN  /\ bstage = "build" /\ c <= MaxClosures
        /\ closures' = Append(closures, KernelClosure(f, args, global))
        /\ references' = references \cup AddReference(c, 0, global.value)
                         \cup UNION {AddReference(c, i, args[i].value) : i \in DOMAIN args}
        /\ UNCHANGED <<bstage, batches, runs, at, globals, cells>>

\* an invocable function without parameters
AddInvoke(global) ==
    LET c == Len(closures) + 1
    IN  /\ bstage = "build" /\ c <= MaxClosures
        /\ closures' = Append(closures, InvokeClosure(global))
        /\ references' = references \cup AddReference(c, 0, global.value)
        /\ UNCHANGED <<bstage, batches, runs, at, globals, cells>>

-----------------------------------------------------------------------------
(* Batches *)

\* defect: a global's future does not end the batch
ConflictArgsOnly(batch, c) ==
    /\ batch # <<>>
    /\ \/ closures[c].fn = "invoke" \/ closures[batch[1]].fn = "invoke"
       \/ <<Last(batch), 1, FALSE>> \notin closures[c].argDeps

\* Batch::conflict: an invoke is alone; a batched closure that c takes a global
\* of, or a field's future as an argument, ends the batch; and the first
\* argument must be the return value of the last one batched.
Conflict(batch, c) ==
    /\ batch # <<>>
    /\ \/ closures[c].fn = "invoke" \/ closures[batch[1]].fn = "invoke"
       \/ \E i \in DOMAIN batch :
             \/ batch[i] \in closures[c].globalDeps
             \/ \E d \in closures[c].argDeps : d[1] = batch[i] /\ d[3]
       \/ <<Last(batch), 1, FALSE>> \notin closures[c].argDeps

\* CpuScriptGroup2Impl's constructor
Batch(bs, c) ==
    IF Conflict(Last(bs), c) THEN Append(bs, <<c>>)
    ELSE [bs EXCEPT ![Len(bs)] = Append(@, c)]

CreateGroup ==
    /\ bstage = "build" /\ closures # <<>>
    /\ batches' = FoldLeft(Batch, << <<>> >>, [c \in DOMAIN closures |-> c])
    /\ bstage' = "made"
    /\ UNCHANGED <<closures, references, runs, at, globals, cells>>

-----------------------------------------------------------------------------
(* Execution *)

\* Input.set: every place the input was used at gets the value. An invoke has
\* no arguments in the core.
SetReferences(cs, r) ==
    [c \in DOMAIN cs |->
        [cs[c] EXCEPT !.global = IF <<c, 0>> \in references THEN InputOf(r) ELSE @,
                      !.args = [i \in DOMAIN @ |-> IF <<c, i>> \in references
                                                   THEN InputOf(r) ELSE @[i]]]]

FreshCells == [a \in Places |-> [x \in Cells |-> IF a[1] \in {"ret", "out"}
                                                 THEN Nothing ELSE <<a[1], a[2], x>>]]

\* execute(inputs), first half: the input is set, the group is started. With
\* too few inputs, or a future among them, execute returns before it sets one.
ExecuteGroup ==
    /\ bstage \in {"made", "done"} /\ runs < MaxRuns
    /\ runs' = runs + 1
    /\ closures' = SetReferences(closures, runs')
    /\ bstage' = "running" /\ at' = 1
    /\ cells' = FreshCells /\ globals' = [s \in {1, 2} |-> Nothing]
    /\ UNCHANGED <<references, batches>>

\* setGlobalsForBatch: the globals of all closures of the batch, in order
SetGlobals(gs, batch) ==
    FoldLeft(LAMBDA g, c : IF closures[c].global = Nothing THEN g
                           ELSE [g EXCEPT ![FunctionScript(closures[c].fn)] =
                                              closures[c].global],
             gs, batch)

\* what a function sees in its script's global: an allocation's contents, or
\* the value an invocable function left
Seen(m, gs, c) ==
    IF closures[c].global = Nothing /\ ~closures[c].skip THEN Nothing
    ELSE LET v == gs[FunctionScript(closures[c].fn)]
         IN  IF v \in Places THEN <<"contents", m[v]>> ELSE v

\* a closure's kernel at one cell: a writer also writes through its global
RunCell(m, gs, c, x) ==
    LET cl == closures[c]
        result == IF cl.fn = "writer"
                  THEN <<"writer", c, [i \in DOMAIN cl.args |-> m[cl.args[i]][x]]>>
                  ELSE <<"reader", c, [i \in DOMAIN cl.args |-> m[cl.args[i]][x]],
                         Seen(m, gs, c)>>
        after == [m EXCEPT ![Ret(c)][x] = result]
    IN  IF cl.fn = "writer" THEN [after EXCEPT ![gs[2]][x] = <<"by", c, result>>]
        ELSE after

\* groupRoot: all the closures of the batch at one cell
GroupRoot(m, gs, batch, x) == FoldLeft(LAMBDA mm, c : RunCell(mm, gs, c, x), m, batch)

\* Batch::run: an invoke sets its script's global; kernels are launched over
\* the cells, which the lanes may take in any order
Orders == {p \in [Cells -> Cells] : \A x, y \in Cells : x # y => p[x] # p[y]}

RunBatch ==
    /\ bstage = "running"
    /\ LET batch == batches[at]
           gs == SetGlobals(globals, batch)
       IN  IF closures[batch[1]].fn = "invoke"
           THEN /\ globals' = [gs EXCEPT ![1] = <<"invoked", batch[1]>>]
                /\ UNCHANGED cells
           ELSE /\ globals' = gs
                /\ \E p \in Orders :
                      cells' = FoldLeft(LAMBDA m, x : GroupRoot(m, gs, batch, x), cells, p)
    /\ at' = at + 1
    /\ bstage' = IF at = Len(batches) THEN "done" ELSE "running"
    /\ UNCHANGED <<closures, references, batches, runs>>

ClosureInit ==
    /\ bstage = "build" /\ closures = <<>> /\ references = {} /\ batches = <<>>
    /\ runs = 0 /\ at = 1 /\ globals = [s \in {1, 2} |-> Nothing]
    /\ cells = FreshCells

ClosureNext ==
    \/ \E f \in {"reader", "writer"} : \E a \in FirstArgs : \E b \in SecondArgs :
          \E g \in Bindings(f) : AddKernelClosure(f, <<a>> \o b, g)
    \/ \E g \in Bindings("invoke") : AddInvoke(g)
    \/ CreateGroup \/ ExecuteGroup \/ RunBatch

ClosureSpec == ClosureInit /\ [][ClosureNext]_closureVars

-----------------------------------------------------------------------------
(* Properties *)

\* The closures one after the other in the order they were added, each with its
\* own globals: "the order that the closures are added is a legal evaluation
\* order"
OneByOne ==
    LET step(st, c) ==
            LET gs == SetGlobals(st.gs, <<c>>)
            IN  IF closures[c].fn = "invoke"
                THEN [m |-> st.m, gs |-> [gs EXCEPT ![1] = <<"invoked", c>>]]
                ELSE [m |-> FoldLeft(LAMBDA m, x : RunCell(m, gs, c, x), st.m,
                                     [x \in Cells |-> x]),
                      gs |-> gs]
    IN  FoldLeft(step, [m |-> FreshCells, gs |-> [s \in {1, 2} |-> Nothing]],
                 [c \in DOMAIN closures |-> c]).m

\* closures of one batch that bind the global of one script differently
SharedGlobal ==
    \E b \in ToSet(batches) : \E c, d \in ToSet(b) :
        /\ FunctionScript(closures[c].fn) = FunctionScript(closures[d].fn)
        /\ closures[c].global # closures[d].global

\* Executing a group batch by batch, with its cells in any order, leaves what
\* the closures leave when they run one by one: cutting into batches keeps
\* every dependence through arguments, globals and invocable functions, and
\* each execution's input reaches every place it is used at.
BatchesCompute == bstage = "done" /\ ~SharedGlobal => cells = OneByOne
InputsSet == bstage \in {"running", "done"} =>
    \A c \in DOMAIN closures :
        closures[c].global # TheInput /\ TheInput \notin ToSet(closures[c].args)

\* The same for every group: closures that bind the global of one script to
\* different values included.
EveryGroupComputes == bstage = "done" => cells = OneByOne

=============================================================================
