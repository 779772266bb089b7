------------------------------ MODULE Kernels ------------------------------
(***************************************************************************)
(* The builtin shaders (src/tools/builtins): the table of their layouts    *)
(* and min_lens, their native code, which one host thread runs over all    *)
(* the elements, and their WGSL code, which every thread of a grid of      *)
(* workgroups runs for its own (the CUDA code is the same).                *)
(*                                                                         *)
(* A slot's data is a sequence, its element i at i + 1.  Arithmetic is on  *)
(* integers: where the two add in another order, floats would round.       *)
(* A workgroup has Group threads, or Tile by Tile in two dimensions.       *)
(***************************************************************************)
EXTENDS Integers, Sequences

CONSTANTS
  Group,       \* 256 in the table
  Tile,        \* 16 in the table
  Hash(_, _)   \* fill_random's value for an index and a seed

ASSUME SizesAssumption == Group \in Nat \ {0} /\ Tile \in Nat \ {0}

\* A power of two: no factor of it but one is odd.
ASSUME TreeAssumption == \A d, e \in 1..Group : Group = d * e => d = 1 \/ d % 2 = 0

Elementwise == {"add", "mul", "max", "min", "scale", "clamp", "zero_tensor", "fill_constant",
                "fill_random"}
Matmuls == {"matmul", "matmul_add", "matmul_trp"}
Gemvs == {"gemv", "gemv_add"}
Reductions == {"dot", "sum"}
Builtins == Elementwise \cup Matmuls \cup Gemvs \cup Reductions \cup {"transpose"}

layout(name) ==
    CASE name \in {"matmul", "matmul_trp", "gemv", "dot"} -> <<"Input", "Input", "Output">>
      [] name \in {"matmul_add", "gemv_add"} -> <<"Input", "Input", "Accumulate">>
      [] name \in {"transpose", "sum"} -> <<"Input", "Output">>
      [] name = "add" -> <<"Accumulate", "Input">>
      [] name \in {"mul", "max", "min"} -> <<"InOut", "Input">>
      [] name \in {"scale", "clamp"} -> <<"InOut">>
      [] OTHER -> <<"Output">>

workgroup_size(name) ==
    IF name \in Matmuls \cup {"transpose"} THEN <<Tile, Tile>> ELSE <<Group, 1>>

\* Elements each slot needs, from the meta and the workgroups.
min_lens(name, m, wg) ==
    LET slots == DOMAIN layout(name)
        last == Len(layout(name))
    IN  CASE name \in Matmuls -> <<m[1] * m[3], m[3] * m[2], m[1] * m[2]>>
          [] name \in Gemvs -> <<m[3], m[3] * m[2], m[2]>>
          [] name = "transpose" -> <<m[1] * m[2], m[1] * m[2]>>
          [] name \in Reductions ->
               [s \in slots |-> IF s # last THEN m[1]
                                ELSE IF wg[1] * wg[2] = 0 THEN 1 ELSE wg[1] * wg[2]]
          [] OTHER -> [s \in slots |-> m[1]]

-----------------------------------------------------------------------------
(* What the two share.                                                     *)

\* A loop's accumulator once it has added the first n of t, in their order.
Added(t, n) ==
    LET acc[k \in 0..n] == IF k = 0 THEN 0 ELSE acc[k - 1] + t[k - 1]
    IN  acc[n]

Sum(n, term(_)) == Added([k \in 0..(n - 1) |-> term(k)], n)

\* Element i of an elementwise builtin: old is its slot 1, s all slots.
each(name, m, s, i, old) ==
    CASE name = "add" -> old + s[2][i + 1]
      [] name = "mul" -> old * s[2][i + 1]
      [] name = "max" -> IF old >= s[2][i + 1] THEN old ELSE s[2][i + 1]
      [] name = "min" -> IF old <= s[2][i + 1] THEN old ELSE s[2][i + 1]
      [] name = "scale" -> old * m[2]
      [] name = "clamp" -> IF old < m[2] THEN m[2] ELSE IF old > m[3] THEN m[3] ELSE old
      [] name = "zero_tensor" -> 0
      [] name = "fill_constant" -> m[2]
      [] name = "fill_random" -> Hash(i, m[2])

\* What a slot holds after writes, a set of [at, to].
Written(slot, writes) ==
    [i \in DOMAIN slot |->
        IF \E w \in writes : w.at + 1 = i
        THEN (CHOOSE w \in writes : w.at + 1 = i).to
        ELSE slot[i]]

OutSlot(name) == IF name \in Elementwise THEN 1 ELSE Len(layout(name))

\* The `_add` builtins add to what is there.
Onto(name, slot, i, sum) == IF name \in {"matmul_add", "gemv_add"} THEN slot[i + 1] + sum ELSE sum

-----------------------------------------------------------------------------
(* Native code (codes/native): loops over what the meta says.              *)

native_elementwise(name, m, s) ==
    LET n == IF Len(s) = 2 /\ Len(s[2]) < m[1] THEN Len(s[2]) ELSE m[1]
    IN  {[at |-> i, to |-> each(name, m, s, i, s[1][i + 1])] :
             i \in {j \in 0..(n - 1) : j < Len(s[1])}}

native_matmul(name, m, s) ==
    {[at |-> c.row * m[2] + c.col,
      to |-> Onto(name, s[3], c.row * m[2] + c.col,
                  Sum(m[3], LAMBDA k : s[1][c.row * m[3] + k + 1] *
                       s[2][(IF name = "matmul_trp" THEN c.col * m[3] + k
                             ELSE k * m[2] + c.col) + 1]))]
        : c \in [row : 0..(m[1] - 1), col : 0..(m[2] - 1)]}

native_gemv(name, m, s) ==
    {[at |-> col, to |-> Onto(name, s[3], col,
                              Sum(m[3], LAMBDA k : s[1][k + 1] * s[2][k * m[2] + col + 1]))]
        : col \in 0..(m[2] - 1)}

native_transpose(m, s) ==
    {[at |-> c.col * m[1] + c.row, to |-> s[1][c.row * m[2] + c.col + 1]]
        : c \in [row : 0..(m[1] - 1), col : 0..(m[2] - 1)]}

\* One partial: the whole sum.
native_reduction(name, m, s) ==
    {[at |-> 0, to |-> IF name = "sum" THEN Sum(m[1], LAMBDA i : s[1][i + 1])
                       ELSE Sum(m[1], LAMBDA i : s[1][i + 1] * s[2][i + 1])]}

native_writes(name, m, s) ==
    CASE name \in Matmuls -> native_matmul(name, m, s)
      [] name \in Gemvs -> native_gemv(name, m, s)
      [] name \in Reductions -> native_reduction(name, m, s)
      [] name = "transpose" -> native_transpose(m, s)
      [] OTHER -> native_elementwise(name, m, s)

-----------------------------------------------------------------------------
(* WGSL code (codes/wgsl): each thread of the grid.                        *)

\* One-dimensional shaders flatten the workgroups; x first.
Linear(wg) == 0..(wg[1] * wg[2] * Group - 1)

\* Two-dimensional ones take their column from x, their row from y.
Grid(wg) == [row : 0..(wg[2] * Tile - 1), col : 0..(wg[1] * Tile - 1)]

wgsl_elementwise(name, m, wg, s) ==
    {[at |-> idx, to |-> each(name, m, s, idx, s[1][idx + 1])] :
         idx \in {i \in Linear(wg) : i < m[1]}}

\* Mutant: the last, unfinished tile is left out.
num_tiles_Floor(k) == k \div Tile

num_tiles(k) == (k + Tile - 1) \div Tile

\* A workgroup loads a tile of each matrix, zeros outside, then each of its
\* threads adds up a row of the one times a column of the other.
tile_A(m, s, row, t, k) ==
    IF row < m[1] /\ t * Tile + k < m[3] THEN s[1][row * m[3] + t * Tile + k + 1] ELSE 0

tile_B(name, m, s, col, t, k) ==
    IF col < m[2] /\ t * Tile + k < m[3]
    THEN IF name = "matmul_trp" THEN s[2][col * m[3] + t * Tile + k + 1]
         ELSE s[2][(t * Tile + k) * m[2] + col + 1]
    ELSE 0

wgsl_matmul(name, m, wg, s) ==
    {[at |-> c.row * m[2] + c.col,
      to |-> Onto(name, s[3], c.row * m[2] + c.col,
                  Sum(num_tiles(m[3]), LAMBDA t :
                      Sum(Tile, LAMBDA k : tile_A(m, s, c.row, t, k) *
                                           tile_B(name, m, s, c.col, t, k))))]
        : c \in {g \in Grid(wg) : g.row < m[1] /\ g.col < m[2]}}

\* Only x is used.
wgsl_gemv(name, m, wg, s) ==
    {[at |-> col, to |-> Onto(name, s[3], col,
                              Sum(m[3], LAMBDA k : s[1][k + 1] * s[2][k * m[2] + col + 1]))]
        : col \in {i \in 0..(wg[1] * Group - 1) : i < m[2]}}

wgsl_transpose(m, wg, s) ==
    {[at |-> c.col * m[1] + c.row, to |-> s[1][c.row * m[2] + c.col + 1]]
        : c \in {g \in Grid(wg) : g.row < m[1] /\ g.col < m[2]}}

\* A workgroup's tree: up to each barrier the lower stride threads add what is
\* stride further on; the stride halves down to none, and scratch[0] is its partial.
Reduced(scratch, stride) ==
    LET barrier[k \in 0..stride] ==
          IF k = 0 THEN [scratch |-> scratch, stride |-> stride]
          ELSE LET b == barrier[k - 1] IN
               [scratch |-> [i \in DOMAIN b.scratch |->
                               IF i < b.stride THEN b.scratch[i] + b.scratch[i + b.stride]
                               ELSE b.scratch[i]],
                stride |-> b.stride \div 2]
    IN  barrier[stride].scratch[0]

wgsl_reduction(name, m, wg, s) ==
    LET term(i) == IF i >= m[1] THEN 0
                   ELSE IF name = "sum" THEN s[1][i + 1] ELSE s[1][i + 1] * s[2][i + 1]
    IN  {[at |-> w, to |-> Reduced([i \in 0..(Group - 1) |-> term(w * Group + i)], Group \div 2)]
            : w \in 0..(wg[1] * wg[2] - 1)}

wgsl_writes(name, m, wg, s) ==
    CASE name \in Matmuls -> wgsl_matmul(name, m, wg, s)
      [] name \in Gemvs -> wgsl_gemv(name, m, wg, s)
      [] name \in Reductions -> wgsl_reduction(name, m, wg, s)
      [] name = "transpose" -> wgsl_transpose(m, wg, s)
      [] OTHER -> wgsl_elementwise(name, m, wg, s)

-----------------------------------------------------------------------------
\* All slots after a run of the builtin's native or WGSL code.
entry(format, name, m, wg, s) ==
    [s EXCEPT ![OutSlot(name)] =
        Written(@, IF format = "native" THEN native_writes(name, m, s)
                   ELSE wgsl_writes(name, m, wg, s))]

=============================================================================
