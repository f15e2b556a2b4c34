---------------------------- MODULE OperandStack ----------------------------
(***************************************************************************)
(* The operand stack of a frame (core/stack.rs): an array of MaxStackDepth *)
(* slots of which the lower `top` are in use.  What was popped stays in    *)
(* its slot.  Slots are counted from 0.                                    *)
(***************************************************************************)
EXTENDS Integers, Sequences

CONSTANTS
  MaxStackDepth,  \* MAX_STACK_DEPTH
  Operands        \* words

ASSUME StackAssumption == MaxStackDepth \in Nat \ {0}

Stacks == [slots : [0 .. MaxStackDepth - 1 -> Operands], top : 0 .. MaxStackDepth]

(* The outcome of an operation: the stack afterwards and what was popped;  *)
(* an error (overflow or underflow) leaves the stack alone; an index       *)
(* beyond the array panics.                                                *)
Done(st, out)  == [kind |-> "Done", st |-> st, out |-> out]
Refused(st)    == [kind |-> "Refused", st |-> st, out |-> <<>>]
OutOfRange(st) == [kind |-> "Panicked", st |-> st, out |-> <<>>]

Push(st, val) ==
  IF st.top = MaxStackDepth THEN Refused(st)
  ELSE Done([slots |-> [st.slots EXCEPT ![st.top] = val], top |-> st.top + 1], <<>>)

DupShort(st, pos) ==       \* mutant: underflow is noticed one too late
  IF pos > st.top + 1 THEN Refused(st)
  ELSE Push(st, st.slots[IF pos > st.top THEN 0 ELSE st.top - pos])
Dup(st, pos) ==
  IF pos > st.top THEN Refused(st)
  ELSE IF st.top - pos = MaxStackDepth THEN OutOfRange(st)
  ELSE Push(st, st.slots[st.top - pos])

Swap(st, pos) ==
  LET last == st.top - 1 IN
  IF pos + 1 > st.top THEN Refused(st)
  ELSE Done([st EXCEPT !.slots = [@ EXCEPT ![last] = st.slots[last - pos],
                                           ![last - pos] = st.slots[last]]], <<>>)

(* consume1 .. consume4: the topmost first. *)
Consume(st, n) ==
  IF st.top > n - 1
  THEN Done([st EXCEPT !.top = st.top - n], [i \in 1 .. n |-> st.slots[st.top - i]])
  ELSE Refused(st)
=============================================================================
