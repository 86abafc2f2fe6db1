---------------------------- MODULE ScriptGroups ----------------------------
(***************************************************************************)
(* The first kind of script group: kernels of several scripts connected    *)
(* into a graph with ScriptGroup.Builder, validated in Java, ordered by    *)
(* calcOrder (in the core, or in Java when an intrinsic of the             *)
(* compatibility library is used) and executed one kernel after the other  *)
(* or, on the CPU driver, fused: every lane takes a row and runs all the   *)
(* kernels on it, keeping the intermediate results in a row of its own.    *)
(* A kernel's result is the record of what it read, so that two results    *)
(* are equal exactly when the kernels read the same data.                  *)
(***************************************************************************)
EXTENDS Integers, Sequences, FiniteSets, SequencesExt

CONSTANTS
    ScriptOf,       \* ScriptOf[k]: the script of kernel k
    HasInput,       \* the kernels with an input (mHasKernelInput)
    MaxLines,       \* bound: connections of a group
    GroupLanes,     \* the lanes of the worker pool
    GroupRows       \* rows of every allocation

Kernels == DOMAIN ScriptOf
Scripts == {ScriptOf[k] : k \in Kernels}
Nobody == 0

VARIABLES
    inc,        \* a script comes from the compatibility library (mUseIncSupp)
    objects,    \* some script has object slots
    twoD,       \* the allocations have a Y dimension
    stage,      \* "build", "failed", "made", "running", "missing", "done"
    kernels,    \* kernels added, in order
    lines,      \* connections: [from, toK, toF], one of the last two Nobody
    order,      \* scripts in execution order
    ordered,    \* what calcOrder returned, and create ignored
    todo,       \* kernels left to launch, one by one
    lane,       \* per lane: the row it works on and its next kernel
    next,       \* next row to hand out (mSliceNum)
    mem         \* contents of the allocations, by row

groupVars == <<inc, objects, twoD, stage, kernels, lines, order, ordered,
               todo, lane, next, mem>>

Rows == 0 .. GroupRows - 1
Lanes == 0 .. GroupLanes - 1

-----------------------------------------------------------------------------
(* The nodes: one per script, in the order the scripts appeared *)

\* the node of a connection's target
LineTo(l) == IF l.toF # Nobody THEN l.toF ELSE ScriptOf[l.toK]
LineFrom(l) == ScriptOf[l.from]

Nodes == LET Add(ns, k) == IF Contains(ns, ScriptOf[k]) THEN ns
                           ELSE Append(ns, ScriptOf[k])
         IN  FoldLeft(Add, <<>>, kernels)
NodeKernels(s) == SelectSeq(kernels, LAMBDA k : ScriptOf[k] = s)
NodeOutputs(s) == SelectSeq(lines, LAMBDA l : LineFrom(l) = s)
NodeInputs(s) == SelectSeq(lines, LAMBDA l : LineTo(l) = s)

\* validateCycle: a walk over the outputs of target that looks for original
RECURSIVE FindsCycle(_, _, _)
FindsCycle(target, original, ls) ==
    \E i \in DOMAIN ls :
        /\ LineFrom(ls[i]) = target
        /\ \/ LineTo(ls[i]) = original
           \/ FindsCycle(LineTo(ls[i]), original, ls)

\* defect: only the direct targets are looked at
FindsSelfLoop(target, original, ls) ==
    \E i \in DOMAIN ls : LineFrom(ls[i]) = target /\ LineTo(ls[i]) = original

\* addConnection's validateCycle(nf, nf)
ValidateCycleDirect(from, ls) == ~FindsSelfLoop(from, from, ls)
ValidateCycle(from, ls) == ~FindsCycle(from, from, ls)

\* mergeDAGs
MergeDAGs(dag, used, killed) ==
    [s \in DOMAIN dag |-> IF dag[s] = killed THEN used ELSE dag[s]]

\* validateDAGRecurse: number the nodes below s; a node of another number
\* renames this walk's number, but not the one the walk goes on with
RECURSIVE ValidateDAGRecurse(_, _, _)
ValidateDAGRecurse(dag, s, number) ==
    IF dag[s] # 0 /\ dag[s] # number THEN MergeDAGs(dag, dag[s], number)
    ELSE FoldLeft(LAMBDA d, l : ValidateDAGRecurse(d, LineTo(l), number),
                  [dag EXCEPT ![s] = number], NodeOutputs(s))

\* validateDAG: no unconnected script, one number for every node
ValidateDAG ==
    LET roots == {i \in DOMAIN Nodes : NodeInputs(Nodes[i]) = <<>>}
        walk(d, i) == IF i \in roots THEN ValidateDAGRecurse(d, Nodes[i], i) ELSE d
        dag == FoldLeft(walk, [s \in Scripts |-> 0],
                        [i \in DOMAIN Nodes |-> i])
    IN  /\ Len(Nodes) > 1 => \A i \in roots : NodeOutputs(Nodes[i]) # <<>>
        /\ \A i \in DOMAIN Nodes : dag[Nodes[i]] = dag[Nodes[1]]

-----------------------------------------------------------------------------
(* calcOrder, the same in the core and in Java but for the first depth *)

\* calcOrderRecurse: st = [seen, depth, ok]. A target seen before in this walk
\* ends the loop over the outputs.
RECURSIVE CalcOrderRecurse(_, _, _)
CalcOrderRecurse(st, s, d) ==
    LET here == [st EXCEPT !.seen = @ \cup {s},
                           !.depth[s] = IF @ < d THEN d ELSE @]
        output(a, l) ==
            IF a.stop THEN a
            ELSE IF LineTo(l) \in a.st.seen
                 THEN [st |-> [a.st EXCEPT !.ok = FALSE], stop |-> TRUE]
                 ELSE [st |-> CalcOrderRecurse(a.st, LineTo(l), a.st.depth[s] + 1),
                       stop |-> FALSE]
    IN  FoldLeft(output, [st |-> here, stop |-> FALSE], NodeOutputs(s)).st

\* calcOrder: one walk from every node without inputs
CalcDepths(first) ==
    LET walk(st, s) == IF NodeInputs(s) # <<>> THEN st
                       ELSE CalcOrderRecurse([st EXCEPT !.seen = {}], s, first)
    IN  FoldLeft(walk, [seen |-> {}, depth |-> [s \in Scripts |-> 0], ok |-> TRUE],
                 Nodes)

CoreCalcOrder == CalcDepths(0)
JavaCalcOrder == CalcDepths(1)

\* std::sort by mOrder: nodes of the same order may come out in any order
SortsTo(ns, depth) ==
    {p \in [1 .. Len(ns) -> ToSet(ns)] :
        /\ ToSet(p) = ToSet(ns)
        /\ \A i, j \in DOMAIN p : i < j => depth[p[i]] <= depth[p[j]]}

\* Collections.sort: stable
SortStable(ns, depth) ==
    SortSeq([i \in DOMAIN ns |-> <<i, ns[i]>>],
            LAMBDA a, b : \/ depth[a[2]] < depth[b[2]]
                          \/ depth[a[2]] = depth[b[2]] /\ a[1] < b[1])

-----------------------------------------------------------------------------
(* Building *)

\* Kernels are alike up to their names, so adding them in the order of the
\* names loses nothing: the connections are arbitrary.
AddKernel(k) ==
    /\ stage = "build" /\ lines = <<>>
    /\ \A i \in DOMAIN kernels : kernels[i] < k
    /\ kernels' = Append(kernels, k)
    /\ UNCHANGED <<inc, objects, twoD, stage, lines, order, ordered, todo, lane,
                   next, mem>>

\* The line is added before validateCycle throws; a builder that has thrown
\* is not used again. No connection is made twice.
AddConnection(l) ==
    /\ stage = "build" /\ Len(lines) < MaxLines /\ ~Contains(lines, l)
    /\ Contains(kernels, l.from)
    /\ \/ l.toF # Nobody /\ Contains(Nodes, l.toF)
       \/ l.toK # Nobody /\ Contains(kernels, l.toK)
    /\ lines' = Append(lines, l)
    /\ stage' = IF ValidateCycle(LineFrom(l), lines') THEN "build" ELSE "failed"
    /\ UNCHANGED <<inc, objects, twoD, kernels, order, ordered, todo, lane, next, mem>>

\* Builder.create hands a valid group to ScriptGroup::create; for mUseIncSupp
\* it orders the nodes itself. What calcOrder returned is ignored by both.
CoreCreate ==
    LET st == CoreCalcOrder
    IN  order' \in SortsTo(Nodes, st.depth) /\ ordered' = st.ok
JavaCreate ==
    LET st == JavaCalcOrder
        p == SortStable(Nodes, st.depth)
    IN  order' = [i \in DOMAIN p |-> p[i][2]] /\ ordered' = st.ok

Create ==
    /\ stage = "build" /\ kernels # <<>>
    /\ IF ValidateDAG
       THEN stage' = "made" /\ IF inc THEN JavaCreate ELSE CoreCreate
       ELSE stage' = "failed" /\ UNCHANGED <<order, ordered>>
    /\ UNCHANGED <<inc, objects, twoD, kernels, lines, todo, lane, next, mem>>

\* The inputs and outputs Java offers: a kernel no connection reaches or leaves
JavaInputs == {k \in ToSet(kernels) : \A i \in DOMAIN lines : lines[i].toK # k}
JavaOutputs == {k \in ToSet(kernels) : \A i \in DOMAIN lines : lines[i].from # k}

\* The ones the core keeps: only of kernels that have an input
CoreInputs == JavaInputs \cap HasInput
CoreOutputs == JavaOutputs

-----------------------------------------------------------------------------
(* Executing *)

\* contents: a kernel's result, an application's input, or nothing yet
Unset == <<>>
Given(k, r) == <<0, <<k, r>>, Unset>>
Result(k, in, field) == <<k, in, field>>

\* the connection a kernel reads: CpuScriptGroupImpl stops at the first one,
\* the Java and the portable loop keep the last one
InLinks(k) == {i \in DOMAIN lines : lines[i].toK = k}
FirstOf(S) == CHOOSE i \in S : \A j \in S : i <= j
LastOf(S) == CHOOSE i \in S : \A j \in S : i >= j
JavaInLink(k) == LastOf(InLinks(k))
CpuInLink(k) == FirstOf(InLinks(k))
InLink(k) == IF inc THEN JavaInLink(k) ELSE CpuInLink(k)

\* the allocation a kernel reads and the one it writes: the connections of a
\* source share one allocation
SourceOf(k) == IF InLinks(k) # {} THEN <<"link", lines[InLink(k)].from>>
               ELSE IF k \in HasInput THEN <<"in", k>> ELSE <<"none", k>>
TargetOf(k) == IF k \in CoreOutputs THEN <<"out", k>> ELSE <<"link", k>>

\* the allocation bound to the field of script s: setVarObj, the last one stays.
\* The Java loop binds none.
FieldLinks(s) == {i \in DOMAIN lines : lines[i].toF = s}
FieldOf(s) == IF FieldLinks(s) = {} \/ inc THEN <<"none", 0>>
              ELSE <<"link", lines[LastOf(FieldLinks(s))].from>>

Allocs == {"in", "out", "link"} \X Kernels
GivenRows == [a \in Allocs |-> [r \in Rows |-> IF a[1] = "in" THEN Given(a[2], r) ELSE Unset]]

ReadCell(m, a, r) == IF a \in Allocs THEN m[a][r] ELSE Unset
ReadField(m, a) == IF a \in Allocs THEN [i \in 1 .. GroupRows |-> m[a][i - 1]] ELSE Unset

\* a kernel over one row: reads row `from` of its input, writes row `to`
RunRow(m, k, from, to) ==
    [m EXCEPT ![TargetOf(k)][to] =
        Result(k, ReadCell(m, SourceOf(k), from), ReadField(m, FieldOf(ScriptOf[k])))]

\* a launch of one kernel over all rows
RunKernel(m, k) == FoldLeft(LAMBDA mm, i : RunRow(mm, k, i - 1, i - 1), m,
                            [i \in 1 .. GroupRows |-> i])

\* the kernels in execution order
Sequence == FoldLeft(LAMBDA ks, s : ks \o NodeKernels(s), <<>>, order)

\* fieldDep: a script has object slots, or a kernel's first connection out
\* goes to a field
OutLinks(k) == {i \in DOMAIN lines : lines[i].from = k}
FieldDep == \/ objects
            \/ \E k \in ToSet(kernels) :
                  OutLinks(k) # {} /\ lines[FirstOf(OutLinks(k))].toF # Nobody

\* The application sets every input and output but, in `missing`, one.
Missing == {{}} \cup {{k} : k \in CoreInputs \cup CoreOutputs}

\* ScriptGroup::execute: refused while an input or output is missing
Execute(missing) ==
    /\ stage = "made" /\ ~inc
    /\ IF missing # {}
       THEN stage' = "missing" /\ UNCHANGED <<todo, lane, next, mem>>
       ELSE /\ stage' = "running" /\ mem' = GivenRows
            /\ todo' = IF FieldDep THEN Sequence ELSE <<>>
            /\ next' = 0 /\ lane' = [l \in Lanes |-> <<Nobody, 0>>]
    /\ UNCHANGED <<inc, objects, twoD, kernels, lines, order, ordered>>

\* ScriptGroup.execute for mUseIncSupp: the kernels one by one
JavaExecute ==
    /\ stage = "made" /\ inc
    /\ stage' = "running" /\ mem' = GivenRows /\ todo' = Sequence
    /\ UNCHANGED <<inc, objects, twoD, kernels, lines, order, ordered, lane, next>>

\* one launch of the Java loop, or of CpuScriptGroupImpl::execute with fieldDep
LaunchKernel ==
    /\ stage = "running" /\ todo # <<>>
    /\ mem' = RunKernel(mem, Head(todo))
    /\ todo' = Tail(todo)
    /\ stage' = IF Len(todo) = 1 THEN "done" ELSE "running"
    /\ UNCHANGED <<inc, objects, twoD, kernels, lines, order, ordered, lane, next>>

Fused == stage = "running" /\ ~inc /\ ~FieldDep

\* A lane claims the next row (or, in one dimension, the next cell).
TakeRow(l) ==
    /\ Fused /\ lane[l][2] = 0 /\ next < GroupRows
    /\ lane' = [lane EXCEPT ![l] = <<next, 1>>]
    /\ next' = next + 1
    /\ UNCHANGED <<inc, objects, twoD, stage, kernels, lines, order, ordered,
                   todo, mem>>

\* defect: every allocation indexed by the lane
RootRowLane(a, r, l) == l

\* scriptGroupRoot: an application's allocation is indexed by the row, an
\* intermediate one by the lane when it has that many rows. The start of the
\* cells in one dimension is not added to either.
RootRow(a, r, l) ==
    IF ~twoD THEN 0
    ELSE IF a[1] # "link" THEN r
    ELSE IF GroupRows > l THEN l ELSE 0

\* One kernel of the fused launch on the row of lane l
RunFused(l) ==
    LET r == lane[l][1]
        k == Sequence[lane[l][2]]
    IN  /\ Fused /\ lane[l][2] # 0
        /\ mem' = RunRow(mem, k, RootRow(SourceOf(k), r, l), RootRow(TargetOf(k), r, l))
        /\ lane' = [lane EXCEPT ![l] = IF lane[l][2] < Len(Sequence)
                                       THEN <<r, lane[l][2] + 1>> ELSE <<Nobody, 0>>]
        /\ UNCHANGED <<inc, objects, twoD, stage, kernels, lines, order, ordered,
                       todo, next>>

\* launchForEach returns when every lane is done
FusedDone ==
    /\ Fused /\ next = GroupRows /\ \A l \in Lanes : lane[l][2] = 0
    /\ stage' = "done"
    /\ UNCHANGED <<inc, objects, twoD, kernels, lines, order, ordered, todo, lane,
                   next, mem>>

GroupInit ==
    /\ inc \in BOOLEAN /\ objects \in BOOLEAN /\ twoD \in BOOLEAN
    /\ stage = "build" /\ kernels = <<>> /\ lines = <<>> /\ order = <<>>
    /\ ordered = TRUE /\ todo = <<>> /\ next = 0
    /\ lane = [l \in Lanes |-> <<Nobody, 0>>]
    /\ mem = GivenRows

\* connections that respect the kernels' signatures
Connections ==
    {[from |-> k, toK |-> t, toF |-> Nobody] : k \in Kernels, t \in HasInput}
    \cup {[from |-> k, toK |-> Nobody, toF |-> s] : k \in Kernels, s \in Scripts}

GroupNext ==
    \/ \E k \in Kernels : AddKernel(k)
    \/ \E l \in Connections : AddConnection(l)
    \/ Create
    \/ \E m \in Missing : Execute(m)
    \/ JavaExecute \/ LaunchKernel
    \/ \E l \in Lanes : TakeRow(l) \/ RunFused(l)
    \/ FusedDone

GroupSpec == GroupInit /\ [][GroupNext]_groupVars

-----------------------------------------------------------------------------
(* Properties *)

Arcs == {<<LineFrom(lines[i]), LineTo(lines[i])>> : i \in DOMAIN lines}
RECURSIVE ReachFrom(_, _)
ReachFrom(S, arcs) == LET T == S \cup {a[2] : a \in {b \in arcs : b[1] \in S}}
                      IN  IF T = S THEN S ELSE ReachFrom(T, arcs)

\* A group that create accepted is one connected graph without cycles, as the
\* Builder's validateCycle and validateDAG are there to ensure: walks from
\* several roots merge their numbers in any order.
MadeIsDag ==
    stage \in {"made", "running", "done"} =>
        /\ \A s \in ToSet(Nodes) :
              s \notin ReachFrom({a[2] : a \in {b \in Arcs : b[1] = s}}, Arcs)
        /\ ReachFrom({Nodes[1]}, Arcs \cup {<<a[2], a[1]>> : a \in Arcs}) = ToSet(Nodes)

\* What kernel k computes for row r when every kernel runs after the ones that
\* feed it: the meaning of the graph.
RECURSIVE Meaning(_, _)
Meaning(k, r) ==
    Result(k,
           IF InLinks(k) # {} THEN Meaning(lines[InLink(k)].from, r)
           ELSE IF k \in HasInput THEN Given(k, r) ELSE Unset,
           IF FieldLinks(ScriptOf[k]) = {} THEN Unset
           ELSE [i \in 1 .. GroupRows |->
                    Meaning(lines[LastOf(FieldLinks(ScriptOf[k]))].from, i - 1)])

AsOneKernel == \A k \in CoreOutputs : \A r \in Rows : mem[<<"out", k>>][r] = Meaning(k, r)

\* A group executed as a whole gives what its kernels compute along the
\* connections, "as if they were a single kernel": whenever calcOrder found an
\* order, for fused launches over rows with no more lanes than rows, and for
\* field connections where the native loop finds the dependence.
GroupComputes ==
    (/\ stage = "done" /\ ordered
     /\ inc \/ ~FieldDep => \A s \in Scripts : FieldLinks(s) = {}
     /\ inc \/ FieldDep \/ (twoD /\ GroupLanes <= GroupRows)) => AsOneKernel

\* A group with an intrinsic of the compatibility library runs "one by one in
\* the correct order", as ScriptGroup.execute's documentation says: also when a
\* walk of calcOrder reaches a node twice.
RunsInOrder ==
    stage = "made" /\ inc => \A i, j \in DOMAIN order :
        i < j => <<order[j], order[i]>> \notin Arcs

=============================================================================
