--------------------------- MODULE MCCompilerParts ---------------------------
(***************************************************************************)
(* Register allocation: straight-line functions of five instructions in    *)
(* which instruction k defines virtual register k from at most two earlier *)
(* ones, except that the last one may redefine the first or define none.   *)
(* At most one instruction is not plain: a call, a remainder, a conversion *)
(* to float or one that loads a constant into a scratch register.  One or  *)
(* two values are returned, one of which may be a constant; a conversion   *)
(* in the fifth place is followed by one more read.  The pool has          *)
(* three registers, so that values are spilled and evicted; one of them,   *)
(* x9, stands for both scratch registers of the emitter.                   *)
(*                                                                         *)
(* The analyses: every graph of three nodes, every graph of four nodes     *)
(* that branch at most two ways, a path of six nodes with two more edges   *)
(* anywhere, one of five nodes with three more, and every choice of both   *)
(* control- and data-flow edges between three nodes, and between one or    *)
(* two with edges of a node to itself.                                     *)
(***************************************************************************)
EXTENDS CompilerParts

CONSTANTS x0, x1, x9, x15, x19

Size == 5

MCVregs == 1 .. Size

Operand(k) == {S \in SUBSET (1 .. k - 1) : Cardinality(S) <= 2}

OperandLists ==
  {<<{}, a, b, c, d>> : a \in Operand(2), b \in Operand(3), c \in Operand(4),
                        d \in Operand(5)}

MCRetRegs == <<x0, x1>>

\* The shapes of functions: the last instruction defines d, instruction s is
\* lowered as op with the scratch registers t, more follows, and r is returned.
Shapes ==
  LET Shape(D, S, op, t, R) ==
        [d : D, s : S, op : {op}, t : {t}, more : {<<>>}, r : R]
      reader == [def |-> None, uses |-> {4}, op |-> "plain", temps |-> {}]
  IN UNION {Shape({1, 5, None}, {1}, "plain", {}, {<<1>>, <<4, 1>>}),
            Shape({5}, {1}, "plain", {}, {<<x9, 1>>}),
            Shape({5}, 2 .. 4, "call", {}, {<<1>>}),
            Shape({1, 5}, {5}, "remainder", {}, {<<1>>}),
            Shape({5}, {4}, "remainder", {}, {<<1>>}),
            Shape({5}, {3}, "float", {}, {<<1>>}),
            {[m EXCEPT !.more = <<reader>>] : m \in Shape({5}, {5}, "float", {}, {<<1>>})},
            Shape({5}, {4}, "plain", {x9}, {<<1>>})}

\* The function of shape m with operands u.
Straight(u, m) ==
  [body |-> [k \in 1 .. Size |-> [def   |-> IF k = Size THEN m.d ELSE k,
                                 uses  |-> u[k],
                                 op    |-> IF k = m.s THEN m.op ELSE "plain",
                                 temps |-> IF k = m.s THEN m.t ELSE {}]] \o m.more,
   ret |-> m.r]

MCFunctions == {Straight(u, m) : u \in OperandLists, m \in Shapes}

------------------------------------------------------------------------------

Pairs(n) == (1 .. n) \X (1 .. n)

Proper(n) == {e \in Pairs(n) : e[1] # e[2]}

Control(n, E) == [size |-> n, cf |-> E, df |-> {}]

Triples == {Control(3, E) : E \in SUBSET Pairs(3)}

Quadruples ==
  {Control(4, UNION {{k} \X b[k] : k \in 1 .. 4}) :
     b \in {b \in [1 .. 4 -> kSubset(1, 1 .. 4) \cup kSubset(2, 1 .. 4) \cup {{}}] :
              \A k \in 1 .. 4 : k \notin b[k]}}

Chain(n) == {<<k, k + 1>> : k \in 1 .. n - 1}

Chains ==
  {Control(6, Chain(6) \cup {e, f}) : e, f \in Proper(6)}
    \cup {Control(5, Chain(5) \cup {e, f, g}) : e, f, g \in Proper(5)}

DataFlows ==
  {[size |-> 3, cf |-> C, df |-> D] : C \in SUBSET Proper(3), D \in SUBSET Proper(3)}

Small ==
  UNION {{[size |-> n, cf |-> C, df |-> D] : C, D \in SUBSET Pairs(n)} : n \in 1 .. 2}

MCGraphs == Triples \cup Quadruples \cup Chains \cup DataFlows \cup Small

==============================================================================
