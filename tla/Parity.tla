------------------------------- MODULE Parity -------------------------------
(***************************************************************************)
(* The parity tool (src/tools/parity): compare runs a case with one        *)
(* shader's code on each of two backends, from the same data, and reports  *)
(* slot by slot whether they agree; compare_builtins does so for every     *)
(* builtin.  Side 1 runs native code, side 2 WGSL.                         *)
(*                                                                         *)
(* A slot holds min_lens elements, then PAD words.  A float is an integer, *)
(* NaN or Inf; a relative tolerance is in eighths.  The code under test    *)
(* may be wrong: Misbehave changes an element of what a side computed,     *)
(* anywhere in a slot that it was given to write, the pad included.        *)
(***************************************************************************)
EXTENDS Kernels

CONSTANTS
  Shaders,       \* the builtins that are compared
  Random(_, _),  \* the seeded value for a slot and an index
  PAD,           \* an integer that no code writes
  NaN, Inf, NegInf,
  WrongValues,   \* what a wrong shader writes
  MaxFaults,     \* bound on the elements that are wrong
  None

ASSUME PadAssumption == PAD \in Int
ASSUME FaultsAssumption == MaxFaults \in Nat
ASSUME ShadersAssumption == Shaders \subseteq Builtins
ASSUME FloatsAssumption ==
    /\ {NaN, Inf, NegInf, None} \cap Int = {}
    /\ NaN # Inf /\ NaN # NegInf /\ Inf # NegInf

Floats == Int \cup {NaN, Inf}
Diff == [index : Int \cup {None}, values : Floats \X Floats, err : Floats, tol : Floats]

ASSUME NoneAssumption == None \notin Diff

VARIABLES
  phase,   \* "asked", "started", "compared" or "refused"
  shaders, \* the two sides' shaders
  case,    \* [meta, workgroups, checks]
  start,   \* every slot's data before the run
  out,     \* [side -> every slot's data after it]
  faults,  \* wrong elements
  report   \* a slot report for each slot

vars == <<phase, shaders, case, start, out, faults, report>>

-----------------------------------------------------------------------------
(* Cases (parity/builtins.rs): empty, one, and both sides of the edge of a *)
(* workgroup.                                                              *)

tiles(n, size) == IF n = 0 THEN 1 ELSE (n + size - 1) \div size

close(atol, rtol) == [check |-> "Close", atol |-> atol, rtol |-> rtol]
EXACT == close(0, 0)
products == close(0, 1)
total == [check |-> "Total", atol |-> 0, rtol |-> 1]
ignore == [check |-> "Ignore", atol |-> 0, rtol |-> 0]

rest(name, n) ==
    CASE name = "scale" -> <<-2>>
      [] name = "clamp" -> <<-1, 1>>
      [] name = "fill_constant" -> <<3>>
      [] name = "fill_random" -> <<n>>
      [] OTHER -> <<>>

each_n(name, checks) ==
    {[meta |-> <<n>> \o rest(name, n), workgroups |-> <<tiles(n, Group), 1>>, checks |-> checks]
        : n \in {0, 1, Group - 1, Group, Group + 1, 2 * Group + 1}}

\* With native code on a side, a reduction's partials are compared as a Total.
cases(name) ==
    CASE name \in Matmuls ->
           {[meta |-> m, workgroups |-> <<tiles(m[2], Tile), tiles(m[1], Tile)>>,
             checks |-> <<ignore, ignore, products>>]
               : m \in {<<1, 1, 1>>, <<Tile, Tile, Tile>>, <<Tile + 1, Tile - 1, 2 * Tile + 1>>,
                        <<1, 2 * Tile + 1, 1>>, <<1, 2, 0>>}}
      [] name \in Gemvs ->
           {[meta |-> <<1>> \o m, workgroups |-> <<tiles(m[1], Group), 1>>,
             checks |-> <<ignore, ignore, products>>]
               : m \in {<<1, 1>>, <<Group - 1, 2>>, <<Group + 1, 3>>, <<Group + 2, 0>>}}
      [] name = "transpose" ->
           {[meta |-> m, workgroups |-> <<tiles(m[2], Tile), tiles(m[1], Tile)>>,
             checks |-> <<ignore, EXACT>>]
               : m \in {<<1, 1>>, <<Tile, Tile>>, <<Tile + 1, 2 * Tile + 1>>, <<1, 3 * Tile + 1>>}}
      [] name = "dot" -> each_n(name, <<ignore, ignore, total>>)
      [] name = "sum" -> each_n(name, <<ignore, total>>)
      [] name \in {"add", "mul", "max", "min"} -> each_n(name, <<EXACT, ignore>>)
      [] OTHER -> each_n(name, <<EXACT>>)

\* A caller's own case may ignore every slot, or bring too few checks.
OwnCases(name) ==
    {[c EXCEPT !.checks = [k \in DOMAIN @ |-> ignore]] : c \in cases(name)}
        \cup {[c EXCEPT !.checks = <<>>] : c \in cases(name)}

\* The data and fill_random's values are numbers.
ASSUME SeedsAssumption ==
    /\ \A name \in Shaders : \A c \in cases(name) : \A slot \in DOMAIN layout(name) :
          \A i \in 0..(min_lens(name, c.meta, c.workgroups)[slot] - 1) : Random(slot, i) \in Int
    /\ \A n \in 0..(2 * Group + 1) : \A i \in 0..n : Hash(i, n) \in Int

-----------------------------------------------------------------------------
(* Floats, as far as the comparison tells them apart.                      *)

Finite(x) == x \in Int
Abs(x) == IF Finite(x) THEN IF x < 0 THEN -x ELSE x ELSE x

\* (x - y).abs()
err(x, y) ==
    IF NaN \in {x, y} \/ {x, y} = {Inf} THEN NaN
    ELSE IF Inf \in {x, y} THEN Inf
    ELSE Abs(x - y)

\* f32::max takes the other one of a NaN; 0 * inf is NaN.
tolerance(x, y, check) ==
    LET most == IF x = NaN THEN Abs(y)
                ELSE IF y = NaN THEN Abs(x)
                ELSE IF Inf \in {x, y} THEN Inf
                ELSE IF Abs(x) >= Abs(y) THEN Abs(x) ELSE Abs(y)
    IN  IF most = NaN \/ (most = Inf /\ check.rtol = 0) THEN NaN
        ELSE IF most = Inf THEN Inf
        ELSE check.atol + (check.rtol * most) \div 8

\* err <= tol: false for a NaN.
Within(d) ==
    /\ d.err # NaN /\ d.tol # NaN
    /\ d.tol # Inf => d.err # Inf /\ d.err <= d.tol

\* d.err - d.tol
Excess(d) ==
    IF NaN \in {d.err, d.tol} \/ {d.err, d.tol} = {Inf} THEN NaN
    ELSE IF d.err = Inf THEN Inf
    ELSE IF d.tol = Inf THEN NegInf
    ELSE d.err - d.tol

\* Mutant: a NaN is no excess.
over_KeepsNaN(d) == IF Excess(d) = NaN THEN NegInf ELSE Excess(d)

over(d) == IF Excess(d) = NaN THEN Inf ELSE Excess(d)

Greater(a, b) ==
    \/ a = Inf /\ b # Inf
    \/ b = NegInf /\ a # NegInf
    \/ Finite(a) /\ Finite(b) /\ a > b

-----------------------------------------------------------------------------
(* The comparison (parity/mod.rs).                                         *)

pad_len(name) == workgroup_size(name)[1] * workgroup_size(name)[2]

\* Mutant: a reduction's output starts like any other's.
first_AllNaN(role, check, slot, i) == IF role = "Output" THEN NaN ELSE Random(slot, i)

first(role, check, slot, i) ==
    IF role # "Output" THEN Random(slot, i) ELSE IF check.check = "Total" THEN 0 ELSE NaN

start_data(name, c, lens) ==
    [slot \in DOMAIN lens |->
        [i \in 1..(lens[slot] + pad_len(name)) |->
            IF i <= lens[slot] THEN first(layout(name)[slot], c.checks[slot], slot, i - 1)
            ELSE PAD]]

\* The elements' differences, in order, and the one furthest over.
Diffs(a, b, len, check) ==
    [i \in 1..len |-> [index |-> i - 1, values |-> <<a[i], b[i]>>, err |-> err(a[i], b[i]),
                       tol |-> tolerance(a[i], b[i], check)]]

\* reduce keeps the earlier of two equals.
worst(a, b, len, check) ==
    LET d == Diffs(a, b, len, check)
        furthest(i) == /\ \A j \in 1..(i - 1) : Greater(over(d[i]), over(d[j]))
                       /\ \A j \in (i + 1)..len : ~Greater(over(d[j]), over(d[i]))
    IN  IF len = 0 THEN None ELSE d[CHOOSE i \in 1..len : furthest(i)]

SumOf(v, len) ==
    IF \E i \in 1..len : v[i] = NaN THEN NaN
    ELSE IF \E i \in 1..len : v[i] = Inf THEN Inf
    ELSE Sum(len, LAMBDA i : v[i + 1])

totals(a, b, len, check) ==
    LET x == SumOf(a, len) y == SumOf(b, len) IN
    [index |-> None, values |-> <<x, y>>, err |-> err(x, y), tol |-> tolerance(x, y, check)]

\* Iterator::position: the first index from one on that satisfies P.
position(from, to, P(_)) ==
    LET hits == {i \in from..to : P(i)} IN
    IF hits = {} THEN None ELSE CHOOSE i \in hits : \A j \in hits : i <= j

\* An Output starts as NaN, unless it is compared as a Total.
unwritten(role, check, len, r) ==
    position(1, len, LAMBDA i : role = "Output" /\ check.check # "Total" /\ r[i] = NaN)

\* Mutant: one element too far.
overrun_OneLate(len, r) == position(len + 2, Len(r), LAMBDA i : r[i] # PAD)

overrun(len, r) == position(len + 1, Len(r), LAMBDA i : r[i] # PAD)

SlotReport(role, check, len, a, b) ==
    [diff |-> CASE check.check = "Close" -> worst(a, b, len, check)
                [] check.check = "Total" -> totals(a, b, len, check)
                [] OTHER -> None,
     unwritten |-> <<unwritten(role, check, len, a), unwritten(role, check, len, b)>>,
     overrun |-> <<overrun(len, a), overrun(len, b)>>]

slot_passed(r) ==
    /\ r.diff # None => Within(r.diff)
    /\ r.unwritten = <<None, None>>
    /\ r.overrun = <<None, None>>

passed == \A slot \in DOMAIN report : slot_passed(report[slot])

-----------------------------------------------------------------------------
(* A comparison, step by step.                                             *)

Lens == min_lens(shaders[1], case.meta, case.workgroups)

Init ==
    /\ phase = "asked"
    /\ \E a \in Shaders, b \in Shaders : shaders = <<a, b>>
    /\ case \in cases(shaders[1]) \cup OwnCases(shaders[1])
    /\ start = None /\ out = <<>> /\ faults = 0 /\ report = <<>>

\* The signatures differ, or there is not one check per slot.
Refuse ==
    /\ phase = "asked"
    /\ \/ shaders[1] # shaders[2]
       \/ Len(case.checks) # Len(layout(shaders[1]))
    /\ phase' = "refused"
    /\ UNCHANGED <<shaders, case, start, out, faults, report>>

Start ==
    /\ phase = "asked"
    /\ shaders[1] = shaders[2]
    /\ Len(case.checks) = Len(layout(shaders[1]))
    /\ start' = start_data(shaders[1], case, Lens)
    /\ phase' = "started"
    /\ UNCHANGED <<shaders, case, out, faults, report>>

\* Side a, then side b.
run ==
    /\ phase = "started" /\ Len(out) < 2
    /\ LET format == IF Len(out) = 0 THEN "native" ELSE "wgsl" IN
          out' = Append(out, entry(format, shaders[1], case.meta, case.workgroups, start))
    /\ UNCHANGED <<phase, shaders, case, start, faults, report>>

Misbehave(slot, i, v) ==
    /\ phase = "started" /\ out # <<>>
    /\ faults < MaxFaults
    /\ layout(shaders[1])[slot] # "Input"
    /\ out[Len(out)][slot][i] # v
    /\ out' = [out EXCEPT ![Len(out)][slot][i] = v]
    /\ faults' = faults + 1
    /\ UNCHANGED <<phase, shaders, case, start, report>>

Compare ==
    /\ phase = "started" /\ Len(out) = 2
    /\ report' = [slot \in DOMAIN start |->
                    SlotReport(layout(shaders[1])[slot], case.checks[slot], Lens[slot],
                               out[1][slot], out[2][slot])]
    /\ phase' = "compared"
    /\ UNCHANGED <<shaders, case, start, out, faults>>

Next ==
    \/ Refuse \/ Start \/ run \/ Compare
    \/ /\ out # <<>>
       /\ \E slot \in DOMAIN start, v \in WrongValues : \E i \in DOMAIN start[slot] :
             Misbehave(slot, i, v)

Spec == Init /\ [][Next]_vars

-----------------------------------------------------------------------------
(* Properties.                                                             *)

\* Every builtin's native and WGSL code pass every case: the same elements from
\* the same data at both sides of a workgroup's and a tile's edge, every element
\* of an Output written, none past min_lens (docs/SHADERS.md, rules 7 and 10).
BuiltinsAgree ==
    phase = "compared" /\ faults = 0 /\ case \in cases(shaders[1]) => passed

\* A report passes only if every element of a Close slot is within its tolerance:
\* "the element furthest over its tolerance; a NaN error counts as the furthest"
\* and "a NaN error never passes" (parity/mod.rs).
PassedMeansClose ==
    phase = "compared" /\ passed =>
        \A slot \in DOMAIN report : case.checks[slot].check = "Close" =>
            \A i \in 1..Lens[slot] :
                Within(Diffs(out[1][slot], out[2][slot], Lens[slot], case.checks[slot])[i])

\* A report passes only if neither side wrote past min_lens, and, unless it is
\* compared as a Total, an Output slot was written in full by both.
PassedMeansInBounds ==
    phase = "compared" /\ passed =>
        \A side \in 1..2, slot \in DOMAIN report :
            /\ \A i \in DOMAIN out[side][slot] \ 1..Lens[slot] : out[side][slot][i] = PAD
            /\ layout(shaders[1])[slot] = "Output" /\ case.checks[slot].check # "Total" =>
                  \A i \in 1..Lens[slot] : out[side][slot][i] # NaN

=============================================================================
