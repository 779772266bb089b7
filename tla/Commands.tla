------------------------------ MODULE Commands ------------------------------
(***************************************************************************)
(* What a device is asked to do, and what each command does to its memory  *)
(* (traits Storage and Dispatch in src/backend/mod.rs).  A buffer's bytes  *)
(* are one value; a run reads one buffer, writes one and reads its node's  *)
(* meta words.  A download copies into a staging buffer, which carries the *)
(* name of the thread that waits for it.                                   *)
(***************************************************************************)
EXTENDS Integers, Sequences

CONSTANTS
  Threads,
  Buffers,
  Nodes,
  Values,        \* contents of a buffer
  Words,         \* a node's meta words
  Zero,          \* the contents of a cleared buffer, and zeroed meta words
  Effect(_, _),  \* what a run writes, from its meta words and what it reads
  MaxCalls,      \* bound on the calls made of the device
  None

ASSUME CallsAssumption == MaxCalls \in Nat
ASSUME ZeroAssumption == Zero \in Values \cap Words
ASSUME EffectAssumption == \A w \in Words, v \in Values : Effect(w, v) \in Values

Locations == Buffers \cup Threads

\* The id tells apart two commands that ask the same: the number of the call
\* that queued it (see Number), 0 while it is only recorded.
Command == [id : Nat, op : {"write", "copy", "clear", "run", "meta", "new"},
            node : Nodes \cup {None}, from : Buffers \cup {None},
            to : Locations \cup {None}, value : Values \cup Words \cup {None}]

ASSUME NoneAssumption == None \notin Words \cup Nodes \cup Seq(Command)

write(id, b, v) == [id |-> id, op |-> "write", node |-> None, from |-> None, to |-> b, value |-> v]
copy(id, a, b) == [id |-> id, op |-> "copy", node |-> None, from |-> a, to |-> b, value |-> None]
clear(id, b) == [id |-> id, op |-> "clear", node |-> None, from |-> None, to |-> b, value |-> None]
run(id, n, a, b) == [id |-> id, op |-> "run", node |-> n, from |-> a, to |-> b, value |-> None]
meta(id, n, w) == [id |-> id, op |-> "meta", node |-> n, from |-> None, to |-> None, value |-> w]
new(id, n, w) == [meta(id, n, w) EXCEPT !.op = "new"]

\* A replay is one call, which queues the recorded commands again.
Again(recorded, call) ==
    [k \in DOMAIN recorded |-> [recorded[k] EXCEPT !.id = call + k * MaxCalls]]
Number(c) == ((c.id - 1) % MaxCalls) + 1

\* What synchronize waits for; the rest are writes from the host.
Queued(c) == c.op \in {"copy", "clear", "run"}

\* The contents, and the meta words, after c.
Contents(contents, words, c) ==
    LET into(v) == [contents EXCEPT ![c.to] = v] IN
    CASE c.op = "write" -> into(c.value)
      [] c.op = "copy" -> into(contents[c.from])
      [] c.op = "clear" -> into(Zero)
      [] c.op = "run" -> into(Effect(words[c.node], contents[c.from]))
      [] OTHER -> contents

MetaWords(words, c) ==
    IF c.op \in {"meta", "new"} THEN [words EXCEPT ![c.node] = c.value] ELSE words

\* As the contract sees commands: without the writes of new nodes' words, the
\* nodes having them as soon as they are built, and waiting for queued work only.
WithoutNew(commands) ==
    LET upto[k \in 0..Len(commands)] ==
            IF k = 0 THEN <<>>
            ELSE IF commands[k].op = "new" THEN upto[k - 1]
            ELSE Append(upto[k - 1], commands[k])
    IN  upto[Len(commands)]

News(commands, n) ==
    {c \in {commands[k] : k \in DOMAIN commands} : c.op = "new" /\ c.node = n}
NodeWords(commands, words, built) ==
    [n \in Nodes |-> IF n \notin built THEN None
                     ELSE IF News(commands, n) = {} THEN words[n]
                     ELSE (CHOOSE c \in News(commands, n) : TRUE).value]
QueuedOnly(waits) == [t \in Threads |-> {c \in waits[t] : Queued(c)}]

=============================================================================
