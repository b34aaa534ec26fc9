------------------------------- MODULE RslExpr -------------------------------
(***************************************************************************)
(* The RSL compiler on the assignments of a shader's code block: from      *)
(* tokens to the tree, through the passes of RSLCompiler::RSLCompiler that *)
(* change it, to the RRASM instructions of WriteFunctions.  One step is    *)
(* one pass.  Declarations, calls, conditions and loops are not here.      *)
(*                                                                         *)
(* A value is a term: <<"a">> for what is in a at first, <<"+", x, y>> for *)
(* a sum.  A constant that was folded is the term of what was calculated.  *)
(***************************************************************************)
EXTENDS Integers, Sequences

LOCAL INSTANCE SequencesExt

CONSTANTS
    CodeBlocks, \* code blocks: sequences of tokens
    VarTypes,   \* variable |-> "float", "vector" or "bool", its items' for an array
    Numbers     \* tokens that are numbers

Assigns == {"=", "+=", "-=", "*=", "/="}

\* reparentBiOperators is called for these in turn, tightest first, and for Assigns.
Priorities == <<{".", "["}, {"*", "/"}, {"^"}, {"-", "+"}, {">", ">=", "<", "<="},
                {"==", "!="}, {"&&", "||"}>>

Equals == {"==", "!="}
Orders == {">", ">=", "<", "<="}
Compares == Orders \cup Equals
BiOps == UNION Range(Priorities) \cup Assigns

\* TokNode: kind of token, its text or value, children, register of its own variable.
Node(kind, t, k) == [kind |-> kind, t |-> t, k |-> k, r |-> 0]
Leaf(tok) ==
    Node(CASE tok \in BiOps -> "op" [] tok = ";" -> "semi"
           [] tok \in Numbers -> "float" [] OTHER -> "name", <<tok>>, <<>>)

IsOp(n, ops) == n.kind = "op" /\ n.t[1] \in ops
IsValue(n) == n.kind \in {"float", "bool"}

VARIABLES
    esrc,   \* the tokens
    etree,  \* the children of the code block
    epass,  \* the pass that comes next, "done", "error" or "crash"
    easm    \* the instructions written

evars == <<esrc, etree, epass, easm>>

Passes == <<"MakeTree", "RemoveSemicolons", "ReparentOperators", "RemoveBrackets",
            "ExpandAssign", "OptimizeConstants", "SolveExpressions", "AssignRegisters",
            "WriteFunctions", "done">>

ETypeOK == epass \in Range(Passes) \cup {"error", "crash"} /\ (easm # <<>> => epass = "done")

EInitOn(sources) == esrc \in sources /\ etree = <<>> /\ epass = "MakeTree" /\ easm = <<>>

EInit == EInitOn(CodeBlocks)

----------------------------------------------------------------------------
(* MakeTree.  open: the brackets that are open, each with its children so  *)
(* far; an index m[x] is the operator [ followed by a bracket (.           *)
Grow(open, n) == [open EXCEPT ![Len(open)].k = Append(@, n)]
CloseOne(open) == Grow(Front(open), Node("brk", <<"(">>, Last(open).k))

RECURSIVE MakeTree(_, _)
MakeTree(i, open) ==
    IF i > Len(esrc) THEN \* brackets left open are not noticed
        IF Len(open) = 1 THEN [ok |-> TRUE, k |-> open[1].k] ELSE MakeTree(i, CloseOne(open))
    ELSE LET tok == esrc[i] IN
        CASE tok = "(" -> MakeTree(i + 1, Append(open, [brk |-> ")", k |-> <<>>]))
          [] tok = "[" -> MakeTree(i + 1, Append(Grow(open, Leaf("[")), [brk |-> "]", k |-> <<>>]))
          [] tok \in {")", "]"} ->
                IF Last(open).brk = tok THEN MakeTree(i + 1, CloseOne(open))
                ELSE [ok |-> FALSE, k |-> <<>>]
          [] OTHER -> MakeTree(i + 1, Grow(open, Leaf(tok)))

RECURSIVE RemoveSemicolons(_)
RemoveSemicolons(k) ==
    [i \in 1..Len(SelectSeq(k, LAMBDA n : n.kind # "semi")) |->
        LET n == SelectSeq(k, LAMBDA x : x.kind # "semi")[i]
        IN [n EXCEPT !.k = RemoveSemicolons(@)]]

(* doReparent: an operator takes its neighbours as its first children, and *)
(* stands where its left one was.                                          *)
DoReparent(k, i) ==
    SubSeq(k, 1, i - 2) \o <<[k[i] EXCEPT !.k = <<k[i - 1], k[i + 1]>> \o @]>>
        \o SubSeq(k, i + 2, Len(k))

(* reparentBiOperators from child i on, to the right or (assignments) to   *)
(* the left; the children of a child come after the child itself.          *)
RECURSIVE ReparentBiOperators(_, _, _, _)
ReparentBiOperators(k, i, ops, rightToLeft) ==
    IF i \notin 1..Len(k) THEN k
    ELSE LET take == IsOp(k[i], ops) /\ i > 1 /\ i < Len(k)
             k2 == IF take THEN DoReparent(k, i) ELSE k
             j  == IF take THEN i - 1 ELSE i
             in == k2[j].k
             k3 == [k2 EXCEPT ![j].k = ReparentBiOperators(in, IF rightToLeft THEN Len(in) ELSE 1,
                                                           ops, rightToLeft)]
         IN ReparentBiOperators(k3, IF rightToLeft THEN j - 1 ELSE j + 1, ops, rightToLeft)

ReparentOperators(k) ==
    LET levels == FoldLeft(LAMBDA t, ops : ReparentBiOperators(t, 1, ops, FALSE), k, Priorities)
    IN ReparentBiOperators(levels, Len(levels), Assigns, TRUE)

\* A bracket gives way to its first child, which is looked at again.
RECURSIVE RemoveOpeningExprBrackets(_)
RemoveOpeningExprBrackets(n) ==
    IF n.kind = "brk" THEN RemoveOpeningExprBrackets(n.k[1])
    ELSE [n EXCEPT !.k = [i \in DOMAIN n.k |-> RemoveOpeningExprBrackets(n.k[i])]]

\* Some += has no operands: the copy of its destination is undefined.
RECURSIVE NoDest(_)
NoDest(n) == IF IsOp(n, Assigns \ {"="}) THEN n.k = <<>> ELSE \E i \in DOMAIN n.k : NoDest(n.k[i])

\* a += b becomes a = a + b; the copy of the destination has no children.
RECURSIVE ExpandAssingOperators(_)
ExpandAssingOperators(n) ==
    LET k == [i \in DOMAIN n.k |-> ExpandAssingOperators(n.k[i])]
        oper == CASE n.t[1] = "+=" -> "+" [] n.t[1] = "-=" -> "-"
                  [] n.t[1] = "*=" -> "*" [] OTHER -> "/"
    IN IF IsOp(n, Assigns \ {"="})
       THEN Node("op", <<"=">>, <<Node(n.k[1].kind, n.k[1].t, <<>>), Node("op", <<oper>>, k)>>)
       ELSE [n EXCEPT !.k = k]

(* SolveBiOpType: the rules of RSLC_Operators_SolveBiOpType_RulesTable.h   *)
(* for these types; "none" throws.                                         *)
SolveBiOpType(op, l, r) ==
    CASE op = "[" -> IF r = "float" THEN l ELSE "none"
      [] op = "." -> IF l = "vector" /\ r = "vector" THEN "float" ELSE "none"
      [] op = "^" -> IF l = "float" /\ r = "float" THEN "float" ELSE "none"
      [] op \in {"&&", "||"} -> IF l = "bool" /\ r = "bool" THEN "bool" ELSE "none"
      [] op \in Orders -> IF l = "float" /\ r = "float" THEN "bool" ELSE "none"
      [] op \in Equals -> IF l = r /\ l # "none" THEN "bool" ELSE "none"
      [] op = "*" /\ l = "float" /\ r = "vector" -> "vector"
      [] op \in Assigns \cup {"+", "-", "*", "/"} ->
            IF <<l, r>> \in {<<"vector", "vector">>, <<"vector", "float">>, <<"float", "float">>}
                            \cup (IF op = "=" THEN {<<"bool", "bool">>} ELSE {})
            THEN l ELSE "none"

\* TokenCalcBiOp: of two numbers, == compares the second with itself.
TokenCalcBiOp(op, x, y) ==
    <<op, IF op = "==" /\ x.kind = "float" THEN y.t ELSE x.t, y.t>>

\* What TokenCalcBiOp has a case for.
Calculates(op, kind) ==
    op \in IF kind = "float" THEN Compares \cup {"+", "-", "*", "/"} ELSE Equals

(* OptimizeConstantExpressions, children first.  A variable has no type    *)
(* yet; a node that throws has the kind "none".                            *)
RECURSIVE OptimizeConstantExpressions(_)
OptimizeConstantExpressions(n) ==
    LET k == [i \in DOMAIN n.k |-> OptimizeConstantExpressions(n.k[i])]
        op == n.t[1]
    IN IF ~(IsOp(n, BiOps \ Assigns) /\ Len(k) >= 2 /\ IsValue(k[1]) /\ IsValue(k[2]))
       THEN [n EXCEPT !.k = k]
       ELSE LET type == SolveBiOpType(op, k[1].kind, k[2].kind)
            IN CASE type = "none" -> Node("none", <<op>>, <<>>)
                 [] type # "none" /\ Calculates(op, k[1].kind) ->
                        Node(type, TokenCalcBiOp(op, k[1], k[2]), SubSeq(k, 3, Len(k)))
                 [] OTHER -> [n EXCEPT !.k = k]

(* GetVarType of an operand.  An assignment has no variable, its first     *)
(* child is asked in its place (getTwoOperands).                           *)
RECURSIVE OperandType(_)
OperandType(n) ==
    CASE n.kind = "name" -> VarTypes[n.t[1]]
      [] IsOp(n, Assigns) -> IF n.k = <<>> THEN "none" ELSE OperandType(n.k[1])
      [] IsOp(n, BiOps \ Assigns) ->
            IF Len(n.k) < 2 THEN "none"
            ELSE SolveBiOpType(n.t[1], OperandType(n.k[1]), OperandType(n.k[2]))
      [] OTHER -> n.kind

\* Some node throws in SolveExpressions.
RECURSIVE Throws(_)
Throws(n) ==
    \/ \E i \in DOMAIN n.k : Throws(n.k[i])
    \/ n.kind = "op" /\ (Len(n.k) >= 2 =>
            SolveBiOpType(n.t[1], OperandType(n.k[1]), OperandType(n.k[2])) = "none")

\* Some node threw in OptimizeConstantExpressions.
RECURSIVE Failed(_)
Failed(n) == n.kind = "none" \/ \E i \in DOMAIN n.k : Failed(n.k[i])

RECURSIVE Temps(_)
Temps(n) == FoldLeft(LAMBDA c, m : c + Temps(m), IF IsOp(n, BiOps \ Assigns) THEN 1 ELSE 0, n.k)

\* Mutant: the counter is not handed on from one child to the next.
RECURSIVE AssignRegistersByValue(_, _)
AssignRegistersByValue(n, used) ==
    [n EXCEPT !.k = [i \in DOMAIN n.k |-> AssignRegistersByValue(n.k[i], used)], !.r = used + 1]

(* AssignRegisters: the variable of each operator gets the next register,  *)
(* children first.                                                         *)
RECURSIVE AssignRegisters(_, _)
AssignRegisters(n, used) ==
    LET Before(i) == FoldLeft(LAMBDA c, m : c + Temps(m), used, SubSeq(n.k, 1, i - 1))
    IN [n EXCEPT !.k = [i \in DOMAIN n.k |-> AssignRegisters(n.k[i], Before(i))],
                 !.r = used + Temps(n)]

\* getOperand: a variable, a value, or an operator's register; of an assignment, its first.
RECURSIVE GetOperand(_)
GetOperand(n) == IF IsOp(n, Assigns) THEN GetOperand(n.k[1])
                 ELSE [kind |-> n.kind, t |-> n.t, r |-> n.r]

(* buildExpression, children first.  An item that is assigned to (dest) is *)
(* stored where it stands, from the operand of src.                        *)
Instr(op, d, x, y) == <<[op |-> op, d |-> GetOperand(d), x |-> GetOperand(x), y |-> GetOperand(y)]>>

RECURSIVE BuildExpression(_, _, _)
BuildExpression(n, dest, src) ==
    LET Kid(i) == BuildExpression(n.k[i], IsOp(n, {"="}) /\ i = 1, n.k[Len(n.k)])
        own == CASE n.kind # "op" -> <<>>
                 [] IsOp(n, {"="}) ->
                        IF IsOp(n.k[1], {"["}) \/ GetOperand(n.k[1]) = GetOperand(n.k[2]) THEN <<>>
                        ELSE Instr("mov", n.k[1], n.k[2], n.k[2])
                 [] IsOp(n, {"["}) /\ dest -> Instr("arrst", n.k[1], n.k[2], src)
                 [] OTHER -> Instr(n.t[1], n, n.k[1], n.k[2])
    IN FlattenSeq([i \in DOMAIN n.k |-> Kid(i)]) \o own

----------------------------------------------------------------------------
After(p) == Passes[1 + CHOOSE i \in DOMAIN Passes : Passes[i] = p]

Pass(p, tree) == epass = p /\ epass' = After(p) /\ etree' = tree /\ UNCHANGED <<esrc, easm>>

Each(Op(_)) == [i \in DOMAIN etree |-> Op(etree[i])]

Block == Node("brk", <<"{">>, etree)

MakeTreePass ==
    LET made == MakeTree(1, <<[brk |-> "}", k |-> <<>>]>>)
    IN made.ok /\ Pass("MakeTree", made.k)
RemoveSemicolonsPass == Pass("RemoveSemicolons", RemoveSemicolons(etree))
ReparentOperatorsPass == Pass("ReparentOperators", ReparentOperators(etree))
RemoveBracketsPass == Pass("RemoveBrackets", Each(RemoveOpeningExprBrackets))
ExpandAssignPass ==
    /\ \A i \in DOMAIN etree : ~NoDest(etree[i])
    /\ Pass("ExpandAssign", Each(ExpandAssingOperators))
OptimizeConstantsPass ==
    /\ \A i \in DOMAIN etree : ~Failed(OptimizeConstantExpressions(etree[i]))
    /\ Pass("OptimizeConstants", Each(OptimizeConstantExpressions))
SolveExpressionsPass ==
    /\ \A i \in DOMAIN etree : ~Throws(etree[i])
    /\ Pass("SolveExpressions", etree)
AssignRegistersPass == Pass("AssignRegisters", AssignRegisters(Block, 0).k)
WriteFunctionsPass ==
    /\ epass = "WriteFunctions" /\ epass' = "done"
    /\ easm' = BuildExpression(Block, FALSE, Block)
    /\ UNCHANGED <<esrc, etree>>

\* Mismatched brackets, or operands that have no types or the wrong ones.
CompileThrows ==
    /\ \/ epass = "MakeTree" /\ ~MakeTree(1, <<[brk |-> "}", k |-> <<>>]>>).ok
       \/ /\ epass = "OptimizeConstants"
          /\ \E i \in DOMAIN etree : Failed(OptimizeConstantExpressions(etree[i]))
       \/ epass = "SolveExpressions" /\ \E i \in DOMAIN etree : Throws(etree[i])
    /\ epass' = "error"
    /\ UNCHANGED <<esrc, etree, easm>>

CompileCrashes ==
    /\ epass = "ExpandAssign" /\ \E i \in DOMAIN etree : NoDest(etree[i])
    /\ epass' = "crash"
    /\ UNCHANGED <<esrc, etree, easm>>

EStep ==
    \/ MakeTreePass \/ RemoveSemicolonsPass \/ ReparentOperatorsPass \/ RemoveBracketsPass
    \/ ExpandAssignPass \/ OptimizeConstantsPass \/ SolveExpressionsPass
    \/ AssignRegistersPass \/ WriteFunctionsPass \/ CompileThrows \/ CompileCrashes

ENext == EStep

ESpec == EInit /\ [][ENext]_evars

----------------------------------------------------------------------------
(* What the instructions do (external: the VM).  A state has the value of  *)
(* each variable, an array's being the stores to it, and of each register. *)
Val(st, x) == CASE x.kind = "name" -> st.var[x.t[1]] [] x.kind = "op" -> st.reg[x.r] [] OTHER -> x.t

Exec(st, in) ==
    LET Put(v) == IF in.d.kind = "name" THEN [st EXCEPT !.var[in.d.t[1]] = v]
                  ELSE [st EXCEPT !.reg[in.d.r] = v]
    IN CASE in.op = "mov"   -> Put(Val(st, in.x))
         [] in.op = "arrst" -> Put(<<"store", Val(st, in.d), Val(st, in.x), Val(st, in.y)>>)
         [] OTHER           -> Put(<<in.op, Val(st, in.x), Val(st, in.y)>>)

Start == [v \in DOMAIN VarTypes |-> <<v>>]

Computed == FoldLeft(Exec, [var |-> Start, reg |-> [i \in 1..Temps(Block) |-> <<"?">>]], easm).var

----------------------------------------------------------------------------
(* What the source says.  The main operator of an expression is the last   *)
(* one of the loosest level outside of brackets, and . and [ are the       *)
(* tightest, from left to right.  Only the level of && and || is in doubt. *)
LevelsFrom(logic) == logic \o <<{"==", "!="}, {">", ">=", "<", "<="}, {"-", "+"}, {"^"}, {"*", "/"}>>

\* What ReparentOperators calls one priority.
OneLogic == LevelsFrom(<<{"&&", "||"}>>)

\* The table above ReparentOperators has a line for &&, and || below it.
TableLogic == LevelsFrom(<<{"||"}, {"&&"}>>)

Outside(s) ==
    {i \in DOMAIN s : LET Count(b) == Len(SelectSeq(SubSeq(s, 1, i), LAMBDA x : x = b))
                      IN Count("(") = Count(")") /\ Count("[") = Count("]")}

RECURSIVE Parsed(_, _)
Parsed(levels, s) ==
    LET at(ops) == {i \in Outside(s) : s[i] \in ops}
        loosest == {l \in DOMAIN levels : at(levels[l]) # {} /\ \A j \in 1..(l - 1) : at(levels[j]) = {}}
        first(S) == CHOOSE i \in S : \A j \in S : i <= j
        last(S) == CHOOSE i \in S : \A j \in S : i >= j
        Part(i, j) == Parsed(levels, SubSeq(s, i, j))
        Two(i) == Node("op", <<s[i]>>, <<Part(1, i - 1), Part(i + 1, Len(s))>>)
        opens == {i \in DOMAIN s : s[i] = "[" /\ i - 1 \in Outside(s)}
    IN CASE at(Assigns) # {} -> Two(first(at(Assigns)))
         [] at(Assigns) = {} /\ loosest # {} -> Two(last(at(levels[CHOOSE l \in loosest : TRUE])))
         [] OTHER -> CASE Len(s) = 1 -> Leaf(s[1])
                       [] Last(s) = "]" -> Node("op", <<"[">>, <<Part(1, last(opens) - 1),
                                                                 Part(last(opens) + 1, Len(s) - 1)>>)
                       [] Last(s) # "]" /\ at({"."}) # {} -> Two(last(at({"."})))
                       [] OTHER -> Part(2, Len(s) - 1)

\* An expression of constants that is folded to one number or truth value.
RECURSIVE Constant(_)
Constant(n) == n.kind = "float" \/ (IsOp(n, Compares \cup {"+", "-", "*", "/"})
                                     /\ Constant(n.k[1]) /\ Constant(n.k[2]))

Item(n) == IsOp(n, {"["})

\* A register that no instruction has written yet.
Unset == <<"?">>

(* What an item is assigned: it is stored before the right side n is       *)
(* calculated, so an operator's register is not set yet, and a chain of    *)
(* assignments stands for its first variable as it was before.             *)
RECURSIVE Early(_, _)
Early(n, var) ==
    CASE n.kind = "name"    -> var[n.t[1]]
      [] n.kind = "float"   -> n.t
      [] IsOp(n, Assigns)   -> Early(n.k[1], var)
      [] OTHER              -> IF Constant(n) THEN <<n.t[1], Early(n.k[1], var), Early(n.k[2], var)>>
                               ELSE Unset

(* An expression's value and the variables after it.  The reference is the *)
(* usual meaning but for two things the compiler does: an == of two        *)
(* constant numbers compares the second with itself, and an item is stored *)
(* early and has no value of its own for an assignment on its left.        *)
RECURSIVE Eval(_, _)
Eval(n, var) ==
    CASE n.kind = "float" -> [val |-> n.t, var |-> var]
      [] n.kind = "name"  -> [val |-> var[n.t[1]], var |-> var]
      [] IsOp(n, Assigns) /\ Item(n.k[1]) ->
            LET at == Eval(n.k[1].k[2], var).val
                m == n.k[1].k[1].t[1]
            IN [val |-> Unset,
                var |-> Eval(n.k[2], [var EXCEPT ![m] = <<"store", @, at, Early(n.k[2], var)>>]).var]
      [] IsOp(n, Assigns) /\ ~Item(n.k[1]) ->
            LET rhs == Eval(n.k[2], var)
                old == Eval(n.k[1], rhs.var).val
                new == IF n.t[1] = "=" THEN rhs.val
                       ELSE <<CASE n.t[1] = "+=" -> "+" [] n.t[1] = "-=" -> "-"
                                [] n.t[1] = "*=" -> "*" [] OTHER -> "/", old, rhs.val>>
            IN [val |-> new, var |-> [rhs.var EXCEPT ![n.k[1].t[1]] = new]]
      [] OTHER ->
            LET x == Eval(n.k[1], var).val
                y == Eval(n.k[2], var).val
                folded == IsOp(n, {"=="}) /\ Constant(n) /\ ~IsOp(n.k[1], Compares)
            IN [val |-> <<n.t[1], IF folded THEN y ELSE x, y>>, var |-> var]

RECURSIVE Statements(_, _)
Statements(levels, s) ==
    IF s = <<>> THEN <<>>
    ELSE LET i == CHOOSE j \in DOMAIN s : s[j] = ";" /\ \A l \in 1..(j - 1) : s[l] # ";"
         IN <<Parsed(levels, SubSeq(s, 1, i - 1))>> \o Statements(levels, SubSeq(s, i + 1, Len(s)))

Written(levels) == FoldLeft(LAMBDA var, n : Eval(n, var).var, Start, Statements(levels, esrc))

Balanced(s) == Len(s) \in Outside(s) /\ \A i \in DOMAIN s : s[i] = ";" => i \in Outside(s)

\* A minus without a left operand.
Prefix(s) == \E i \in DOMAIN s : s[i] = "-" /\ (i > 1 => s[i - 1] \in BiOps \cup {"(", ";"})

\* Wrong types, or an item that is assigned to with an operation.
RECURSIVE Refused(_)
Refused(n) ==
    \/ Throws(n)
    \/ IsOp(n, Assigns \ {"="}) /\ Item(n.k[1])
    \/ \E i \in DOMAIN n.k : Refused(n.k[i])

(* The instructions leave in every variable what the statements say,       *)
(* whatever operators and brackets they have, with the priorities of       *)
(* ReparentOperators, and the compiler refuses the statements that are     *)
(* wrong in their types and no other ones (RSLCompiler.cpp:74 to 117,      *)
(* RSLC_RRASMOut_WriteFunctions.cpp).  Brackets are balanced.  A minus     *)
(* without a left operand is refused, or crashes the compiler.             *)
CodeAsWritten ==
    epass \in {"done", "error", "crash"} /\ Balanced(esrc) =>
        IF Prefix(esrc) THEN epass # "done"
        ELSE IF \E i \in DOMAIN Statements(OneLogic, esrc) : Refused(Statements(OneLogic, esrc)[i])
             THEN epass = "error"
             ELSE epass = "done" /\ Computed = Written(OneLogic)

(* The instructions leave in every variable what the statements say when   *)
(* && binds tighter than ||, as the table above ReparentOperators lists    *)
(* them (RSLC_Operators.cpp:159 to 180).                                   *)
CodeByTable ==
    epass = "done" /\ Balanced(esrc) /\ ~Prefix(esrc) => Computed = Written(TableLogic)
=============================================================================
