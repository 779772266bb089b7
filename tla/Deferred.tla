------------------------------ MODULE Deferred ------------------------------
(***************************************************************************)
(* Values that become known later, between threads                         *)
(* (src/tools/plan/deferred.rs).  A cell is one Slot, whichever clone of   *)
(* its Resolvable a thread holds.  A read of a computed cell reads its     *)
(* inputs first: stack[t] is the chain of reads thread t is in.            *)
(***************************************************************************)
EXTENDS Integers, Sequences, FiniteSets

CONSTANTS
  Threads,
  Values,
  Given,              \* [cells given through a resolver -> SUBSET Values]
  Fixed,              \* [some Given cells -> Values]: known from the start
  Inputs,             \* [computed cells -> Seq(cells)], without a cycle
  Computes(_, _),     \* what a computed cell's closure returns for its inputs
  Dynamics,           \* [dynamics -> SUBSET Values]: what they are set to
  None

Cells == DOMAIN Given \cup DOMAIN Inputs

ASSUME CellsAssumption ==
    /\ DOMAIN Given \cap DOMAIN Inputs = {}
    /\ \A c \in DOMAIN Inputs : Inputs[c] \in Seq(Cells)
    /\ DOMAIN Fixed \subseteq DOMAIN Given /\ Fixed \in [DOMAIN Fixed -> Values]
    /\ None \notin Values
ASSUME ValuesAssumption ==
    /\ \A c \in DOMAIN Given : Given[c] \subseteq Values
    /\ \A c \in DOMAIN Inputs : \A got \in [DOMAIN Inputs[c] -> Values] : Computes(c, got) \subseteq Values
    /\ \A d \in DOMAIN Dynamics : Dynamics[d] \subseteq Values

VARIABLES
  value,       \* each slot's OnceLock
  taken,       \* the cells whose resolver_taken is set
  resolvers,   \* how many Resolvers of a cell are alive
  stack,       \* the reads a thread is in, the innermost last
  read,        \* what its last read returned
  dynamic      \* each Dynamic's value

cellvars == <<value, taken, resolvers>>
deferred == <<cellvars, stack, read, dynamic>>

\* A read that fails returns no value.
NotGivenYet == None

DeferredInit ==
    /\ value = [c \in Cells |-> IF c \in DOMAIN Fixed THEN Fixed[c] ELSE None]
    /\ taken = DOMAIN Fixed
    /\ resolvers = [c \in DOMAIN Given |-> 0]
    /\ stack = [t \in Threads |-> <<>>]
    /\ read = [t \in Threads |-> None]
    /\ dynamic = [d \in DOMAIN Dynamics |-> None]

\* Mutant: the flag is read and not set.
resolver_Untaken(c) ==
    /\ c \notin taken
    /\ resolvers[c] < 2
    /\ resolvers' = [resolvers EXCEPT ![c] = @ + 1]
    /\ UNCHANGED <<value, taken, stack, read, dynamic>>

\* Fails, changing nothing, for a computed cell and one whose resolver is taken.
resolver(c) ==
    /\ c \notin taken
    /\ taken' = taken \cup {c}
    /\ resolvers' = [resolvers EXCEPT ![c] = @ + 1]
    /\ UNCHANGED <<value, stack, read, dynamic>>

\* Mutant: a Resolver is not used up.
resolve_Again(c, v) ==
    /\ c \in taken \ DOMAIN Fixed
    /\ resolvers[c] > -1
    /\ resolvers' = [resolvers EXCEPT ![c] = @ - 1]
    /\ value' = [value EXCEPT ![c] = IF @ = None THEN v ELSE @]
    /\ UNCHANGED <<taken, stack, read, dynamic>>

\* OnceLock::set: keeps what is there.
resolve(c, v) ==
    /\ resolvers[c] > 0
    /\ resolvers' = [resolvers EXCEPT ![c] = @ - 1]
    /\ value' = [value EXCEPT ![c] = IF @ = None THEN v ELSE @]
    /\ UNCHANGED <<taken, stack, read, dynamic>>

DropResolver(c) ==
    /\ resolvers[c] > 0
    /\ resolvers' = [resolvers EXCEPT ![c] = @ - 1]
    /\ UNCHANGED <<value, taken, stack, read, dynamic>>

set(d, v) ==
    /\ dynamic' = [dynamic EXCEPT ![d] = v]
    /\ UNCHANGED <<cellvars, stack, read>>

-----------------------------------------------------------------------------
(* Resolvable::value, one look at a slot after the other.                  *)

Frame(c) == [cell |-> c, got |-> <<>>, looked |-> FALSE]
Top(t) == stack[t][Len(stack[t])]
Below(t) == SubSeq(stack[t], 1, Len(stack[t]) - 1)
SetTop(t, frame) == stack' = [stack EXCEPT ![t] = Append(Below(t), frame)]

Reading(t) == stack[t] # <<>>

StartValue(t, c) ==
    /\ ~ Reading(t)
    /\ stack' = [stack EXCEPT ![t] = <<Frame(c)>>]
    /\ read' = [read EXCEPT ![t] = None]
    /\ UNCHANGED <<cellvars, dynamic>>

\* The caller is done with what it read.
Forget(t) ==
    /\ read' = [read EXCEPT ![t] = None]
    /\ UNCHANGED <<cellvars, stack, dynamic>>

\* The innermost read returns v: to the closure that asked, or to the caller.
ReturnValue(t, v) ==
    IF Below(t) = <<>>
    THEN /\ stack' = [stack EXCEPT ![t] = <<>>]
         /\ read' = [read EXCEPT ![t] = [cell |-> Top(t).cell, value |-> v]]
    ELSE LET caller == Below(t)[Len(Below(t))] IN
         /\ stack' = [stack EXCEPT ![t] =
               Append(SubSeq(@, 1, Len(@) - 2), [caller EXCEPT !.got = Append(@, v)])]
         /\ UNCHANGED read

\* Mutant: it waits for the value.
Look_Waits(t) ==
    /\ Reading(t) /\ ~ Top(t).looked
    /\ LET c == Top(t).cell IN
       \/ value[c] # None /\ ReturnValue(t, value[c])
       \/ /\ value[c] = None /\ c \notin DOMAIN Given
          /\ SetTop(t, [Top(t) EXCEPT !.looked = TRUE])
          /\ UNCHANGED read
    /\ UNCHANGED <<cellvars, dynamic>>

\* slot.value.get(): return it, fail, which every caller passes on, or compute it.
Look(t) ==
    /\ Reading(t) /\ ~ Top(t).looked
    /\ LET c == Top(t).cell IN
       \/ value[c] # None /\ ReturnValue(t, value[c])
       \/ /\ value[c] = None /\ c \in DOMAIN Given
          /\ stack' = [stack EXCEPT ![t] = <<>>]
          /\ read' = [read EXCEPT ![t] = [cell |-> stack[t][1].cell, value |-> NotGivenYet]]
       \/ /\ value[c] = None /\ c \notin DOMAIN Given
          /\ SetTop(t, [Top(t) EXCEPT !.looked = TRUE])
          /\ UNCHANGED read
    /\ UNCHANGED <<cellvars, dynamic>>

\* The closure reads its next input.
ReadInput(t) ==
    /\ Reading(t) /\ Top(t).looked
    /\ LET inputs == Inputs[Top(t).cell]
           n == Len(Top(t).got)
       IN  /\ n < Len(inputs)
           /\ stack' = [stack EXCEPT ![t] = Append(@, Frame(inputs[n + 1]))]
    /\ UNCHANGED <<cellvars, read, dynamic>>

\* Mutant: each reader returns what it computed, and the last one's is kept.
Keep_Own(t) ==
    /\ Reading(t) /\ Top(t).looked
    /\ LET c == Top(t).cell IN
       /\ Len(Top(t).got) = Len(Inputs[c])
       /\ \E v \in Computes(c, Top(t).got) :
             /\ value' = [value EXCEPT ![c] = v]
             /\ ReturnValue(t, v)
    /\ UNCHANGED <<taken, resolvers, dynamic>>

\* get_or_init: a racing read may have kept its own result, which is returned then.
Keep(t) ==
    /\ Reading(t) /\ Top(t).looked
    /\ LET c == Top(t).cell IN
       /\ Len(Top(t).got) = Len(Inputs[c])
       /\ \E v \in Computes(c, Top(t).got) :
             LET kept == IF value[c] = None THEN v ELSE value[c] IN
             /\ value' = [value EXCEPT ![c] = kept]
             /\ ReturnValue(t, kept)
    /\ UNCHANGED <<taken, resolvers, dynamic>>

ReadStep(t) == Look(t) \/ ReadInput(t) \/ Keep(t)

\* What any thread may do with the cells it has a handle of.
CellStep ==
    \/ \E c \in DOMAIN Given : resolver(c) \/ DropResolver(c) \/ \E v \in Given[c] : resolve(c, v)
    \/ \E d \in DOMAIN Dynamics : \E v \in Dynamics[d] : set(d, v)
    \/ \E t \in Threads : ReadStep(t)

\* Threads that read any cell at any time; the plan's are some of them.
DeferredNext ==
    \/ CellStep
    \/ \E t \in Threads : Forget(t) \/ \E c \in Cells : StartValue(t, c)

DeferredSpec == DeferredInit /\ [][DeferredNext]_deferred

-----------------------------------------------------------------------------

DeferredTypeOK ==
    /\ value \in [Cells -> Values \cup {None}]
    /\ taken \subseteq DOMAIN Given
    /\ resolvers \in [DOMAIN Given -> Nat]
    /\ \A t \in Threads : stack[t] \in Seq([cell : Cells, got : Seq(Values), looked : BOOLEAN])
    /\ \A t \in Threads : read[t] = None \/ read[t] \in [cell : Cells, value : Values \cup {NotGivenYet}]
    /\ dynamic \in [DOMAIN Dynamics -> Values \cup {None}]

\* A Resolver is the only way to give its value: resolve never finds one there, so
\* what it drops (`let _ = ... set(value)`) is nothing, and no given value is lost.
ResolversWork ==
    \A c \in DOMAIN Given : resolvers[c] > 0 => resolvers[c] = 1 /\ value[c] = None

\* Whoever reads a value, and whatever races, gets the same one, and a computed one
\* is one its closure returns for what its inputs are ("both are equal",
\* src/tools/plan/deferred.rs:92: here the closure need not even be pure).
ReadersAgree ==
    /\ \A t \in Threads :
          read[t] # None /\ read[t].value # NotGivenYet => read[t].value = value[read[t].cell]
    /\ \A c \in DOMAIN Inputs :
          value[c] # None =>
              LET inputs == [i \in DOMAIN Inputs[c] |-> value[Inputs[c][i]]]
              IN  /\ \A i \in DOMAIN inputs : inputs[i] # None
                  /\ value[c] \in Computes(c, inputs)

=============================================================================
