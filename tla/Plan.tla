-------------------------------- MODULE Plan --------------------------------
(***************************************************************************)
(* A plan (src/tools/plan/): a RunSpec of tensors and calls, the live run  *)
(* ("build") and the hollow run ("build_hollow") made from it while other  *)
(* threads still give its values, tensors moved between them, edits,       *)
(* dynamic meta, captured runs.  The thread `planner` owns the spec and    *)
(* the runs; its reads of deferred values are those of Deferred.  A tensor *)
(* or call is named by its position in the plan.                           *)
(***************************************************************************)
EXTENDS Deferred, DataKinds, SequencesExt

CONSTANTS
  Plans,          \* what PlanBuilders were told: [tensors, calls]
  Shaders,        \* [shader -> [layout, fields]]
  min_lens(_, _), \* elements each slot of a shader needs for a meta
  EditTensors,    \* [kind, len] of tensors an edit puts in place
  EditNodes,      \* [shader, meta] of nodes an edit puts in place
  MaxEdits,       \* bound on the edits
  planner

ASSUME PlannerAssumption == planner \in Threads
ASSUME PlansAssumption ==
    \A p \in Plans :
        /\ p.tensors \in Seq(Range(p.tensors))
        /\ p.calls \in Seq(Range(p.calls))
        /\ \A call \in Range(p.calls) :
              call.tensors \in Seq(Range(call.tensors)) /\ call.sources \in Seq(Range(call.sources))
\* What a plan names is there: its specs hold the handles to cells and dynamics, and the
\* data, whose length is a usize.
ASSUME NamesAssumption ==
    \A p \in Plans :
        /\ \A t \in Range(p.tensors) :
              /\ t.kind \in DataKind /\ t.len \in Cells
              /\ t.init = "Upload" => t.data.len \in 0..(Word - 1)
        /\ \A call \in Range(p.calls) :
              /\ call.shader \in DOMAIN Shaders /\ call.workgroups \in Cells
              /\ \A source \in Range(call.sources) :
                    IF source.per_run THEN source.from \in DOMAIN Dynamics ELSE source.from \in Cells
\* A node is only made with a meta of its shader's fields.
ASSUME EditsAssumption ==
    /\ EditTensors \subseteq [kind : DataKind, len : Nat]
    /\ \A new \in EditNodes :
          /\ DOMAIN new = {"shader", "meta"} /\ new.shader \in DOMAIN Shaders
          /\ new.meta \in Seq(Nat) /\ Len(new.meta) = Len(Shaders[new.shader].fields)
\* Lengths and workgroup counts are unsigned, and a meta field is a 32-bit word.
ASSUME NumbersAssumption == Values \subseteq Nat

VARIABLES
  plan,      \* the plan
  spec,      \* "none", "refused", "here" (the planner has the RunSpec), "moved"
  work,      \* what the planner is building, and which read it is at
  made,      \* tensors made so far: their identities are 1..made
  run,       \* the runs: [st, tensors, nodes], and their nodes when bound
  recorded,  \* what each captured run recorded
  fits,      \* runs whose last edit, if any, did not fail
  edits,     \* edits so far
  apply,     \* apply_dynamics in progress
  result     \* what the planner's last operation returned

planvars == <<plan, spec, work, made, run, recorded, fits, edits, apply, result>>
vars == <<deferred, planvars>>

Runs == {"build", "build_hollow"}
Ids == DOMAIN plan.tensors
Calls == DOMAIN plan.calls
Idle == work.op = "idle" /\ ~ apply.on
Result(op, error) == [op |-> op, error |-> error, at |-> work.at]
Ok == "Ok"

-----------------------------------------------------------------------------
(* Checks.                                                                 *)

\* Mutant: the kinds of a call's tensors are not looked at.
Planned_AnyKind(p) ==
    /\ \A t \in Range(p.tensors) : t.init = "Upload" => same_kind(t.kind, t.data.kind)
    /\ \A call \in Range(p.calls) :
          LET layout == Shaders[call.shader].layout IN
          /\ meta_types(Shaders[call.shader].fields, [i \in DOMAIN call.sources |-> call.sources[i].ty])
          /\ slot_count(layout, Len(call.tensors))
          /\ Range(call.tensors) \subseteq DOMAIN p.tensors
          /\ not_aliased(layout, call.tensors)

\* TensorSpec::new, NodeSpec::new, CallSpec::new and RunSpec::new all return Ok.
Planned(p) ==
    /\ \A t \in Range(p.tensors) : t.init = "Upload" => same_kind(t.kind, t.data.kind)
    /\ \A call \in Range(p.calls) :
          LET layout == Shaders[call.shader].layout IN
          /\ meta_types(Shaders[call.shader].fields, [i \in DOMAIN call.sources |-> call.sources[i].ty])
          /\ slot_count(layout, Len(call.tensors))
          /\ Range(call.tensors) \subseteq DOMAIN p.tensors
          /\ slot_kinds(layout, [i \in DOMAIN call.tensors |-> p.tensors[call.tensors[i]].kind])
          /\ not_aliased(layout, call.tensors)

TensorsOf(c) == plan.calls[c].tensors
KindsOf(r, c) == [i \in DOMAIN TensorsOf(c) |-> r.tensors[TensorsOf(c)[i]].kind]
TypesOf(c) == [i \in DOMAIN plan.calls[c].sources |-> plan.calls[c].sources[i].ty]

LongEnough(r, c) ==
    LET needs == min_lens(r.nodes[c].shader, r.nodes[c].meta)
    IN  \A i \in DOMAIN TensorsOf(c) : long_enough(needs[i], r.tensors[TensorsOf(c)[i]].len)

\* Mutant: the kinds of a call's tensors are not looked at.
Fitting_Types(r) ==
    \A c \in Calls : meta_types(Shaders[r.nodes[c].shader].fields, TypesOf(c))

\* What Run::edit looks at when the closure has returned.
Fitting(r) ==
    \A c \in Calls :
        /\ slot_kinds(Shaders[r.nodes[c].shader].layout, KindsOf(r, c))
        /\ meta_types(Shaders[r.nodes[c].shader].fields, TypesOf(c))

\* What Scope::execute says of a call, with the args Run::bind made for it.
Executed(r, c) ==
    LET layout == Shaders[r.nodes[c].shader].layout IN
    CASE ~ slot_count(layout, Len(TensorsOf(c))) -> "SlotCount"
      [] slot_count(layout, Len(TensorsOf(c))) /\ ~ slot_kinds(layout, KindsOf(r, c)) -> "SlotKind"
      [] slot_kinds(layout, KindsOf(r, c)) /\ ~ LongEnough(r, c) -> "TooShort"
      [] slot_kinds(layout, KindsOf(r, c)) /\ LongEnough(r, c) ->
            IF not_aliased(layout, TensorsOf(c)) THEN Ok ELSE "Aliased"

IsLive(tensor) == tensor.name # None
Whole(r) == \A id \in Ids : IsLive(r.tensors[id])

-----------------------------------------------------------------------------
(* Building.                                                               *)

NoRun == [st |-> "none", tensors |-> <<>>, nodes |-> <<>>, bound |-> <<>>]

Init ==
    /\ DeferredInit
    /\ plan \in Plans
    /\ spec = "none"
    /\ work = [op |-> "idle", at |-> 0]
    /\ made = 0
    /\ run = [r \in Runs |-> NoRun]
    /\ recorded = [r \in Runs |-> NoRun]
    /\ fits = Runs
    /\ edits = 0
    /\ apply = [on |-> FALSE, run |-> None, got |-> <<>>, todo |-> {}, before |-> <<>>]
    /\ result = Result("none", Ok)

\* PlanBuilder::finish.
finish ==
    /\ spec = "none"
    /\ spec' = IF Planned(plan) THEN "here" ELSE "refused"
    /\ UNCHANGED <<deferred, plan, work, made, run, recorded, fits, edits, apply, result>>

OnceKnown(source) == ~ source.per_run
LensOf == [id \in Ids |-> plan.tensors[id].len]
MetaReads(call) ==
    FlattenSeq([i \in DOMAIN call.sources |->
        IF OnceKnown(call.sources[i]) THEN <<call.sources[i].from>> ELSE <<>>])
CallsReady == FlattenSeq([c \in Calls |-> <<plan.calls[c].workgroups>> \o MetaReads(plan.calls[c])])
CallsBuild == FlattenSeq([c \in Calls |-> MetaReads(plan.calls[c]) \o <<plan.calls[c].workgroups>>])

\* The reads of RunSpec::ready, and of the whole of build and build_hollow.
ReadyReads == LensOf \o CallsReady
Reads(op) ==
    IF op = "build" THEN ReadyReads \o LensOf \o CallsBuild
    ELSE CallsReady \o LensOf \o CallsBuild

\* The tensor whose length a build's read is, to look at the data it starts with.
LenReadAt(op, at) ==
    {id \in Ids : op = "build" /\ (at = id \/ at = Len(ReadyReads) + id)}

\* Mutant: the length of the data is not looked at.
Misfit_Never(id, len) == FALSE

\* TensorSpec::ready: the data isn't of the length, rounded up to whole words.
Misfit(id, len) ==
    /\ plan.tensors[id].init = "Upload"
    /\ ~ same_len(UpTo(len, elems_per_host_word(plan.tensors[id].kind)), plan.tensors[id].data.len)

Start(op) ==
    /\ spec = "here" /\ Idle
    /\ run[op].st = "none"
    /\ work' = [op |-> op, at |-> 1]
    /\ Forget(planner)
    /\ UNCHANGED <<plan, spec, made, run, recorded, fits, edits, apply, result>>

Ask ==
    /\ work.op # "idle" /\ work.at <= Len(Reads(work.op))
    /\ read[planner] = None
    /\ \E c \in Cells : c = Reads(work.op)[work.at] /\ StartValue(planner, c)
    /\ UNCHANGED planvars

\* The spec comes back; what was built so far is dropped.
GiveBack(error) ==
    /\ work' = [op |-> "idle", at |-> 0]
    /\ result' = Result(work.op, error)
    /\ UNCHANGED <<plan, spec, made, run, recorded, fits, edits, apply>>

Take ==
    /\ work.op # "idle" /\ read[planner] # None
    /\ LET got == read[planner].value IN
       \/ got = NotGivenYet /\ GiveBack("NotGivenYet")
       \/ /\ got # NotGivenYet
          /\ \E id \in LenReadAt(work.op, work.at) : Misfit(id, got)
          /\ GiveBack("LenMismatch")
       \/ /\ got # NotGivenYet
          /\ \A id \in LenReadAt(work.op, work.at) : ~ Misfit(id, got)
          /\ work' = [work EXCEPT !.at = @ + 1]
          /\ UNCHANGED <<plan, spec, made, run, recorded, fits, edits, apply, result>>
    /\ Forget(planner)

\* A per-run value is 0 until apply_dynamics sets it.
build_value(source) == IF source.per_run THEN 0 ELSE value[source.from]

BuiltNode(call) ==
    [shader |-> call.shader, meta |-> [i \in DOMAIN call.sources |-> build_value(call.sources[i])]]

\* A live tensor has whole words; a hollow one keeps the length as it was given.
BuiltTensor(op, id) ==
    LET t == plan.tensors[id] IN
    IF op = "build"
    THEN [name |-> made + id, kind |-> t.kind, len |-> whole_words(t.kind, value[t.len])]
    ELSE [name |-> None, kind |-> t.kind, len |-> value[t.len]]

Built(op) ==
    [st |-> "open", tensors |-> [id \in Ids |-> BuiltTensor(op, id)],
     nodes |-> [c \in Calls |-> BuiltNode(plan.calls[c])], bound |-> <<>>]

Uploads ==
    \A id \in Ids : plan.tensors[id].init = "Upload" =>
        upload(plan.tensors[id].kind, BuiltTensor("build", id).len,
               plan.tensors[id].data.kind, plan.tensors[id].data.len)

BackendFails == {"Backend"}
UploadFails(op) == IF op = "build" /\ ~ Uploads THEN {"LenMismatch"} ELSE {}
NodeFails ==
    IF \A c \in Calls : has_workgroups(<<value[plan.calls[c].workgroups]>>) THEN {} ELSE {"NoWorkgroups"}

\* Mutant: the lengths a call needs are not looked at.
LengthFails_Never(r) == {}

LengthFails(r) == IF \A c \in Calls : LongEnough(r, c) THEN {} ELSE {"TooShort"}

\* Everything is read: alloc and upload, then the nodes, then the lengths.  The device
\* may fail to make any of them.
Build ==
    LET op == work.op
        built == Built(op)
        errors == UploadFails(op) \cup NodeFails \cup LengthFails(built)
    IN
    /\ op # "idle" /\ work.at > Len(Reads(op))
    /\ \/ \E error \in errors \cup BackendFails : GiveBack(error)
       \/ /\ errors = {}
          /\ run' = [run EXCEPT ![op] = built]
          /\ made' = IF op = "build" THEN made + Len(plan.tensors) ELSE made
          /\ spec' = IF op = "build" THEN "moved" ELSE spec
          /\ work' = [op |-> "idle", at |-> 0]
          /\ result' = Result(op, Ok)
          /\ UNCHANGED <<plan, recorded, fits, edits, apply>>
    /\ UNCHANGED deferred

-----------------------------------------------------------------------------
(* Between runs.                                                           *)

Open(r) == Idle /\ run[r].st = "open"

\* Mutant: the live tensor moves in, and stays where it was.
fill_from_Shared(to, from, id) ==
    LET hollow == run[to].tensors[id]
        live == run[from].tensors[id]
    IN
    /\ Open(to) /\ Open(from) /\ to # from
    /\ ~ IsLive(hollow) /\ IsLive(live)
    /\ same_kind(hollow.kind, live.kind) /\ same_len(hollow.len, live.len)
    /\ run' = [run EXCEPT ![to].tensors[id] = live]
    /\ UNCHANGED <<deferred, plan, spec, work, made, recorded, fits, edits, apply, result>>

\* Mutant: a captured run gives its tensors away.
fill_from_Captured(to, from, id) ==
    LET hollow == run[to].tensors[id]
        live == run[from].tensors[id]
    IN
    /\ Open(to) /\ run[from].st \in {"open", "captured"} /\ to # from
    /\ ~ IsLive(hollow) /\ IsLive(live)
    /\ same_kind(hollow.kind, live.kind) /\ same_len(hollow.len, live.len)
    /\ run' = [run EXCEPT ![to].tensors[id] = live, ![from].tensors[id] = hollow]
    /\ UNCHANGED <<deferred, plan, spec, work, made, recorded, fits, edits, apply, result>>

\* Fails, changing nothing, where a guard does not hold.
fill_from(to, from, id) ==
    LET hollow == run[to].tensors[id]
        live == run[from].tensors[id]
    IN
    /\ Open(to) /\ Open(from) /\ to # from
    /\ ~ IsLive(hollow) /\ IsLive(live)
    /\ same_kind(hollow.kind, live.kind) /\ same_len(hollow.len, live.len)
    /\ run' = [run EXCEPT ![to].tensors[id] = live, ![from].tensors[id] = hollow]
    /\ UNCHANGED <<deferred, plan, spec, work, made, recorded, fits, edits, apply, result>>

\* What the closure did stays, also where edit then fails.
edit(r, tensors, nodes) ==
    LET edited == [run[r] EXCEPT !.tensors = tensors, !.nodes = nodes] IN
    /\ Open(r) /\ edits < MaxEdits
    /\ edits' = edits + 1
    /\ run' = [run EXCEPT ![r] = edited]
    /\ fits' = IF Fitting(edited) THEN fits \cup {r} ELSE fits \ {r}
    /\ result' = Result("run", Ok)
    /\ UNCHANGED <<deferred, plan, spec, work, recorded, apply>>

\* Edit::tensor: a new tensor in a live one's place.
EditTensor(r, id, new) ==
    /\ run[r].st = "open" /\ IsLive(run[r].tensors[id])
    /\ made' = made + 1
    /\ edit(r, [run[r].tensors EXCEPT ![id] = [name |-> made + 1, kind |-> new.kind, len |-> new.len]],
            run[r].nodes)

\* Edit::tensor, twice: two live tensors change places.
SwapTensors(r, i, j) ==
    /\ run[r].st = "open" /\ i # j
    /\ IsLive(run[r].tensors[i]) /\ IsLive(run[r].tensors[j])
    /\ edit(r, [run[r].tensors EXCEPT ![i] = run[r].tensors[j], ![j] = run[r].tensors[i]],
            run[r].nodes)
    /\ UNCHANGED made

\* Edit::node: another node, or another meta.
EditNode(r, c, new) ==
    /\ run[r].st = "open"
    /\ edit(r, run[r].tensors, [run[r].nodes EXCEPT ![c] = new])
    /\ UNCHANGED made

-----------------------------------------------------------------------------
(* Inside a scope.                                                         *)

\* Run::bind and CapturedRun::bind; a hollow tensor fails it.
bind(r) ==
    /\ Idle
    /\ run[r].st \in {"open", "captured"} /\ Whole(run[r])
    /\ run' = [run EXCEPT ![r].st = IF @ = "open" THEN "bound" ELSE "replaying",
                          ![r].bound = run[r].nodes]
    /\ result' = Result("run", Ok)
    /\ UNCHANGED <<deferred, plan, spec, work, made, recorded, fits, edits, apply>>

InScope(r) == run[r].st \in {"bound", "replaying"}

\* The scope's end gives the run back.
Unbind(r) ==
    /\ Idle /\ InScope(r)
    /\ run' = [run EXCEPT ![r].st = IF @ = "bound" THEN "open" ELSE "captured",
                          ![r].bound = <<>>]
    /\ UNCHANGED <<deferred, plan, spec, work, made, recorded, fits, edits, apply, result>>

\* Bound::execute queues calls until one fails; CapturedBound::replay checks them all
\* again.  result.error is what the first that fails its checks says.
execute(r) ==
    /\ Idle /\ InScope(r)
    /\ LET failing == {c \in Calls : Executed(run[r], c) # Ok} IN
       result' = [op |-> "run",
                  error |-> IF failing = {} THEN Ok
                            ELSE Executed(run[r], CHOOSE c \in failing : \A d \in failing : c <= d),
                  at |-> 0]
    /\ UNCHANGED <<deferred, plan, spec, work, made, run, recorded, fits, edits, apply>>

PerRunFields(c) == {i \in DOMAIN plan.calls[c].sources : plan.calls[c].sources[i].per_run}
PerRun == {c \in Calls : PerRunFields(c) # {}}
Fields == UNION {{<<c, i>> : i \in PerRunFields(c)} : c \in PerRun}

apply_dynamics(r) ==
    /\ Idle /\ InScope(r)
    /\ apply' = [on |-> TRUE, run |-> r, got |-> <<>>, todo |-> PerRun, before |-> run[r].nodes]
    /\ result' = Result("run", Ok)
    /\ UNCHANGED <<deferred, plan, spec, work, made, run, recorded, fits, edits>>

\* read_dynamics, one lock at a time; its calls are in a map's order.
read_dynamic(f) ==
    LET v == dynamic[plan.calls[f[1]].sources[f[2]].from] IN
    /\ apply.on /\ f \in Fields \ DOMAIN apply.got
    /\ IF v = None
       THEN /\ apply' = [apply EXCEPT !.on = FALSE]
            /\ result' = Result("run", "DynamicUnset")
       ELSE /\ apply' = [apply EXCEPT !.got = [g \in DOMAIN @ \cup {f} |-> IF g = f THEN v ELSE @[g]]]
            /\ UNCHANGED result
    /\ UNCHANGED <<deferred, plan, spec, work, made, run, recorded, fits, edits>>

\* The call's meta when bound, with its per-run fields set to what was read.
NewMeta(c) ==
    [i \in DOMAIN plan.calls[c].sources |->
        IF i \in PerRunFields(c) THEN apply.got[<<c, i>>] ELSE run[apply.run].bound[c].meta[i]]

\* Mutant: a node's meta is set as soon as its own values are read.
set_meta_Eager(c) ==
    /\ apply.on /\ c \in apply.todo
    /\ \A i \in PerRunFields(c) : <<c, i>> \in DOMAIN apply.got
    /\ run' = [run EXCEPT ![apply.run].nodes[c].meta = NewMeta(c)]
    /\ apply' = [apply EXCEPT !.todo = @ \ {c}]
    /\ UNCHANGED <<deferred, plan, spec, work, made, recorded, fits, edits, result>>

\* Scope::update_meta for each call with a per-run field, when all of them are read.
\* Only a node that an edit left unfit is refused.
set_meta(c) ==
    /\ apply.on /\ c \in apply.todo
    /\ DOMAIN apply.got = Fields
    /\ IF meta_types(Shaders[run[apply.run].nodes[c].shader].fields, TypesOf(c))
       THEN /\ run' = [run EXCEPT ![apply.run].nodes[c].meta = NewMeta(c)]
            /\ apply' = [apply EXCEPT !.todo = @ \ {c}]
            /\ UNCHANGED result
       ELSE /\ apply' = [apply EXCEPT !.on = FALSE]
            /\ result' = Result("run", "MetaType")
            /\ UNCHANGED run
    /\ UNCHANGED <<deferred, plan, spec, work, made, recorded, fits, edits>>

ReturnApply ==
    /\ apply.on /\ apply.todo = {} /\ DOMAIN apply.got = Fields
    /\ apply' = [apply EXCEPT !.on = FALSE]
    /\ result' = Result("run", Ok)
    /\ UNCHANGED <<deferred, plan, spec, work, made, run, recorded, fits, edits>>

\* Run::capture, in a scope of its own; the run comes back if a check or the device fails.
capture(r) ==
    /\ Open(r) /\ Whole(run[r])
    /\ \A c \in Calls : Executed(run[r], c) = Ok
    /\ run' = [run EXCEPT ![r].st = "captured"]
    /\ recorded' = [recorded EXCEPT ![r] = run[r]]
    /\ UNCHANGED <<deferred, plan, spec, work, made, fits, edits, apply, result>>

\* CapturedRun::release.
release(r) ==
    /\ Idle /\ run[r].st = "captured"
    /\ run' = [run EXCEPT ![r].st = "open"]
    /\ recorded' = [recorded EXCEPT ![r] = NoRun]
    /\ UNCHANGED <<deferred, plan, spec, work, made, fits, edits, apply, result>>

-----------------------------------------------------------------------------

CellStepOfAny ==
    /\ CellStep
    /\ UNCHANGED planvars

\* Another thread reads a computed value until it is there; bound: only one.
Read(t, c) ==
    /\ t # planner
    /\ read[t] # None => read[t].value = NotGivenYet
    /\ StartValue(t, c)
    /\ UNCHANGED planvars

PlannerStep ==
    \/ finish
    \/ \E op \in Runs : Start(op)
    \/ Ask \/ Take \/ Build
    \/ \E r \in Runs :
          \/ \E from \in Runs, id \in DOMAIN run[r].tensors : fill_from(r, from, id)
          \/ \E id \in DOMAIN run[r].tensors, new \in EditTensors : EditTensor(r, id, new)
          \/ \E i, j \in DOMAIN run[r].tensors : SwapTensors(r, i, j)
          \/ \E c \in DOMAIN run[r].nodes, new \in EditNodes : EditNode(r, c, new)
          \/ bind(r) \/ Unbind(r) \/ execute(r) \/ apply_dynamics(r)
          \/ capture(r) \/ release(r)
    \/ \E f \in Fields : read_dynamic(f)
    \/ \E c \in Calls : set_meta(c)
    \/ ReturnApply

Next ==
    \/ CellStepOfAny
    \/ \E t \in Threads, c \in DOMAIN Inputs : Read(t, c)
    \/ PlannerStep

Spec == Init /\ [][Next]_vars

\* A thread that is reading goes on.
FairSpec == Spec /\ \A t \in Threads : WF_vars(ReadStep(t) /\ UNCHANGED planvars)

-----------------------------------------------------------------------------

RunOK(r) ==
    /\ run[r].st \in {"none", "open", "bound", "captured", "replaying"}
    /\ \A id \in DOMAIN run[r].tensors :
          run[r].tensors[id] \in [name : (1..made) \cup {None}, kind : DataKind, len : Nat]
    /\ \A c \in DOMAIN run[r].nodes :
          run[r].nodes[c].shader \in DOMAIN Shaders /\ run[r].nodes[c].meta \in Seq(Nat)

\* Types: a node's meta has no field without a value, a tensor no length but a number.
TypeOK ==
    /\ DeferredTypeOK
    /\ spec \in {"none", "refused", "here", "moved"}
    /\ work \in [op : Runs \cup {"idle"}, at : Nat]
    /\ made \in Nat
    /\ \A r \in Runs : RunOK(r)
    /\ fits \subseteq Runs
    /\ apply.on \in BOOLEAN

\* Once RunSpec::ready returned Ok, building does not fail on a value that is not
\* given or on the length of its data, whatever the other threads do meanwhile
\* (src/tools/plan/run.rs:93).
ReadyBuilds ==
    result.op = "build" /\ result.error \in {"NotGivenYet", "LenMismatch"} => result.at <= Len(ReadyReads)

\* A run that was just built, live or hollow, executes: its calls pass every check of
\* the scope with the metas they were built with, but for the memory a hollow one lacks.
BuiltRunsExecute ==
    result.op \in Runs /\ result.error = Ok =>
        \A c \in Calls : Executed(run[result.op], c) = Ok

\* A live tensor is in one place of one run: fill_from moves it (src/tools/plan/run.rs:203),
\* a spec makes one live run, and edits do not copy.
OnePlace ==
    \A r, q \in Runs : \A i \in DOMAIN run[r].tensors, j \in DOMAIN run[q].tensors :
        IsLive(run[r].tensors[i]) /\ run[r].tensors[i].name = run[q].tensors[j].name => r = q /\ i = j

\* Every call of a run fits its tensors in count and kind and its sources in type, until
\* an edit reports that one does not: also where tensors came from a run whose edit failed.
CallsFit == \A r \in fits : run[r].st # "none" => Fitting(run[r])

\* So no execute or replay of such a run fails on a count or a kind: only a tensor that is
\* too short for the meta it has now, or a slot that another shader writes, stops it.
OnlyTooShort ==
    \A r \in fits : InScope(r) => \A c \in Calls : Executed(run[r], c) \in {Ok, "TooShort", "Aliased"}

\* A captured run's tensors stay where they were recorded, and its nodes run the
\* recorded shaders (src/tools/plan/run.rs:473-475).
RecordedStay ==
    \A r \in Runs : run[r].st \in {"captured", "replaying"} =>
        /\ Whole(run[r])
        /\ run[r].tensors = recorded[r].tensors
        /\ \A c \in Calls : run[r].nodes[c].shader = recorded[r].nodes[c].shader

\* apply_dynamics changes no meta if a Dynamic was never set (src/tools/plan/run.rs:411-413);
\* if it returns Ok, each per-run field is what was read, and every other field is what
\* it was, an edited one included (src/tools/plan/run.rs:369-371).
AppliedWhole ==
    apply.on /\ ~ apply'.on =>
        LET nodes == run'[apply.run].nodes IN
        /\ result'.error = "DynamicUnset" => nodes = apply.before
        /\ result'.error = "MetaType" => apply.run \notin fits
        /\ result'.error = Ok => \A c \in Calls : \A i \in DOMAIN nodes[c].meta :
              nodes[c].meta[i] = IF <<c, i>> \in Fields THEN apply.got[<<c, i>>]
                                 ELSE apply.before[c].meta[i]
DynamicsApplied == [][AppliedWhole]_vars

\* Every read ends, with a value or with the error: no thread waits in one.
ReadsEnd == \A t \in Threads : Reading(t) ~> ~ Reading(t)

=============================================================================
