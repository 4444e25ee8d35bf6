----------------------------- MODULE Complexity -----------------------------
(***************************************************************************)
(* What the static engine counts in one function: its cyclomatic and its   *)
(* cognitive complexity (crates/engines/static-metrics/src/cyclomatic.rs,  *)
(* cognitive.rs).  Both walk the syntax tree with a worklist; the walk of  *)
(* cognitive complexity carries the nesting level each node is measured at *)
(* and is modelled node by node.                                           *)
(*                                                                         *)
(* The function is written first, construct by construct, and then walked. *)
(***************************************************************************)
EXTENDS SyntaxTree

CONSTANTS
    Languages,       \* a subset of {Ecma, Python}
    MaxConstructs    \* constructs written into the function

VARIABLES
    lang,            \* the function's language
    tree,            \* the function, at path <<>>
    walk             \* the walk of its cognitive complexity, or NotWalking

complexityVars == <<lang, tree, walk>>

NotWalking == [pending |-> {}, total |-> 0, recursive |-> FALSE, on |-> FALSE]

Kind(p) == tree[p].kind
IsFunction(kind) ==
    IF lang = Python THEN kind \in {"function_definition", "lambda"}
    ELSE kind \in {"function_declaration", "function_expression", "generator_function",
                   "generator_function_declaration", "arrow_function", "method_definition"}

(***************************************************************************)
(* Cyclomatic complexity.                                                  *)
(***************************************************************************)
LogicalOperators == {"&&", "||", "??", "and", "or"}
LogicalOperator(p) == {q \in FieldOf(tree, p, "operator") : tree[q].text \in LogicalOperators}
IsLogical(p) == LogicalOperator(p) # {}

IsWildcardCase(p) ==
    /\ FieldOf(tree, p, "guard") = {}
    /\ LET patterns == {q \in Kids(tree, p) : Kind(q) = "case_pattern"}
       IN Cardinality(patterns) = 1 /\ \A q \in patterns : tree[q].text = "_"

IsDecisionPoint(p) ==
    IF lang = Python
    THEN \/ Kind(p) \in {"if_statement", "elif_clause", "for_statement", "while_statement",
                         "except_clause", "except_group_clause", "conditional_expression",
                         "for_in_clause", "boolean_operator"}
         \/ Kind(p) = "if_clause" /\ Kind(Front(p)) # "case_clause"
         \/ Kind(p) = "case_clause" /\ ~IsWildcardCase(p)
    ELSE \/ Kind(p) \in {"if_statement", "for_statement", "for_in_statement", "while_statement",
                         "do_statement", "ternary_expression", "catch_clause", "switch_case"}
         \/ Kind(p) = "binary_expression" /\ IsLogical(p)

Cyclomatic == 1 + Cardinality({p \in DOMAIN tree : IsDecisionPoint(p)})

(***************************************************************************)
(* Cognitive complexity: one node's own increment, and its children with   *)
(* the levels they are measured at.                                        *)
(***************************************************************************)
At(nodes, level) == nodes \X {level}
Field(p, field, level) ==
    LET there == FieldOf(tree, p, field)
    IN IF there = {} THEN {} ELSE {<<FirstOf(there), level>>}
AllKids(p, level) == At(Kids(tree, p), level)
DeeperBody(p, level) ==
    {<<q, IF tree[q].field = "body" THEN level + 1 ELSE level>> : q \in Kids(tree, p)}

Counted(increment, pushed) == [increment |-> increment, pushed |-> pushed]

\* The nested function a Python decorator's body exempts from adding a level:
\* the body is exactly its definition, decorated or not, and a return of its name.
DecoratorExempt ==
    LET body == FirstOf(FieldOf(tree, <<>>, "body"))
        statements == InOrder(NamedKids(tree, body))
        inner == IF Kind(statements[1]) = "decorated_definition"
                 THEN FirstOf(FieldOf(tree, statements[1], "definition"))
                 ELSE statements[1]
        returned == InOrder(NamedKids(tree, statements[2]))
    IN IF /\ lang = Python
          /\ Len(statements) = 2
          /\ Kind(inner) = "function_definition"
          /\ Kind(statements[2]) = "return_statement"
          /\ returned # <<>>
          /\ Kind(returned[1]) = "identifier"
          /\ \E name \in FieldOf(tree, inner, "name") : tree[name].text = tree[returned[1]].text
       THEN {inner} ELSE {}
NestedFunctionLevel(p, level) == IF p \in DecoratorExempt THEN level ELSE level + 1

OwnName == {tree[q].text : q \in FieldOf(tree, <<>>, "name")}
IsSelfCall(p) ==
    \E callee \in FieldOf(tree, p, "function") :
        \/ Kind(callee) = "identifier" /\ tree[callee].text \in OwnName
        \/ /\ Kind(callee) \in {"member_expression", "attribute"}
           /\ \E object \in FieldOf(tree, callee, "object") : tree[object].text \in {"this", "self"}
           /\ \E property \in FieldOf(tree, callee, "property") \cup FieldOf(tree, callee, "attribute") :
                tree[property].text \in OwnName

\* The nodes of one logical region below p, and the operands at its edge.
Operands(p) == FieldOf(tree, p, "left") \cup FieldOf(tree, p, "right")
Region(p) ==
    {q \in DOMAIN tree :
        /\ IsPrefix(p, q)
        /\ \A n \in Len(p)..(Len(q) - 1) :
            LET holder == SubSeq(q, 1, n) IN IsLogical(holder) /\ SubSeq(q, 1, n + 1) \in Operands(holder)}
Sorted(operators) == SetToSortSeq(operators, Before)
LogicalRegion(p, level) ==
    LET operators == Sorted(UNION {LogicalOperator(q) : q \in Region(p)})
        changes == {i \in 1..(Len(operators) - 1) : tree[operators[i]].text # tree[operators[i + 1]].text}
    IN Counted(Cardinality(changes) + (IF operators = <<>> THEN 0 ELSE 1),
               At({q \in Region(p) : ~IsLogical(q)}, level))

\* Mutant of Else: an `else if` weighs as the nested if it is in the tree.
ElseOfATree(p, level) ==
    Counted(1, LET children == NamedKids(tree, p)
               IN IF children = {} THEN {} ELSE {<<FirstOf(children), level + 1>>})

\* An else holding an if is `else if`: the chain stays at its level.
Else(p, level) ==
    Counted(1, LET children == NamedKids(tree, p)
                   first == FirstOf(children)
               IN IF children = {} THEN {}
                  ELSE {<<first, IF Kind(first) = "if_statement" THEN level ELSE level + 1>>})

StepEcma(p, level) ==
    CASE Kind(p) = "if_statement" ->
            Counted(IF Kind(Front(p)) = "else_clause" THEN 0 ELSE 1 + level,
                    Field(p, "condition", level) \cup Field(p, "consequence", level + 1)
                    \cup Field(p, "alternative", level))
      [] Kind(p) = "else_clause" -> Else(p, level)
      [] Kind(p) = "ternary_expression" ->
            Counted(1 + level, Field(p, "condition", level) \cup Field(p, "consequence", level + 1)
                               \cup Field(p, "alternative", level + 1))
      [] Kind(p) = "switch_statement" ->
            Counted(1 + level, Field(p, "value", level) \cup Field(p, "body", level + 1))
      [] Kind(p) \in {"for_statement", "for_in_statement", "while_statement", "do_statement",
                      "catch_clause"} -> Counted(1 + level, DeeperBody(p, level))
      [] Kind(p) = "binary_expression" /\ IsLogical(p) -> LogicalRegion(p, level)
      [] Kind(p) \in {"break_statement", "continue_statement"} /\ FieldOf(tree, p, "label") # {} ->
            Counted(1, {})
      [] IsFunction(Kind(p)) -> Counted(0, AllKids(p, NestedFunctionLevel(p, level)))
      [] OTHER -> Counted(0, AllKids(p, level))

ConditionalExpression(p, level) ==
    LET parts == InOrder(NamedKids(tree, p))
    IN Counted(1 + level,
               IF Len(parts) = 3 THEN {<<parts[2], level>>, <<parts[1], level + 1>>, <<parts[3], level + 1>>}
               ELSE AllKids(p, level + 1))

StepPython(p, level) ==
    CASE Kind(p) = "if_statement" ->
            Counted(1 + level, Field(p, "condition", level) \cup Field(p, "consequence", level + 1)
                               \cup At(FieldOf(tree, p, "alternative"), level))
      [] Kind(p) = "elif_clause" ->
            Counted(1, Field(p, "condition", level) \cup Field(p, "consequence", level + 1))
      [] Kind(p) = "else_clause" -> Counted(1, Field(p, "body", level + 1))
      [] Kind(p) = "conditional_expression" -> ConditionalExpression(p, level)
      [] Kind(p) \in {"for_statement", "while_statement"} -> Counted(1 + level, DeeperBody(p, level))
      [] Kind(p) \in {"except_clause", "except_group_clause"} -> Counted(1 + level, AllKids(p, level + 1))
      [] Kind(p) = "match_statement" ->
            Counted(1 + level, Field(p, "subject", level) \cup Field(p, "body", level + 1))
      [] Kind(p) = "boolean_operator" -> LogicalRegion(p, level)
      [] IsFunction(Kind(p)) -> Counted(0, AllKids(p, NestedFunctionLevel(p, level)))
      [] OTHER -> Counted(0, AllKids(p, level))

StepOf(p, level) == IF lang = Python THEN StepPython(p, level) ELSE StepEcma(p, level)
CallKind == IF lang = Python THEN "call" ELSE "call_expression"

(***************************************************************************)
(* The function is written, and then walked: one node off the worklist at  *)
(* a time.  Order does not matter to a sum, so the worklist is a set and   *)
(* any one of its nodes is next.                                           *)
(***************************************************************************)
ComplexityInit ==
    /\ lang \in Languages
    /\ tree = BareFunction(lang)
    /\ walk = NotWalking

\* The constructs written so far: a node one stands for, for each.
Written == {p \in DOMAIN tree \ {<<>>} :
                \E kind \in {"statement", "expression"} :
                    \E construct \in Templates(lang, kind) : construct[1] = Kind(p)}

Write ==
    /\ ~walk.on
    /\ Cardinality(Written) < MaxConstructs
    /\ \E p \in DOMAIN tree : \E construct \in Templates(lang, Kind(p)) :
        tree' = Put(tree, p, construct)
    /\ UNCHANGED <<lang, walk>>

StartWalk ==
    /\ ~walk.on
    /\ walk' = [pending |-> AllKids(<<>>, 0), total |-> 0, recursive |-> FALSE, on |-> TRUE]
    /\ UNCHANGED <<lang, tree>>

Visit ==
    /\ walk.on
    /\ walk.pending # {}
    /\ LET next == CHOOSE item \in walk.pending : TRUE
           step == StepOf(next[1], next[2])
       IN walk' = [walk EXCEPT
                    !.pending = (@ \ {next}) \cup step.pushed,
                    !.total = @ + step.increment,
                    !.recursive = @ \/ (Kind(next[1]) = CallKind /\ IsSelfCall(next[1]))]
    /\ UNCHANGED <<lang, tree>>

ComplexityNext == Write \/ StartWalk \/ Visit

Measured == walk.on /\ walk.pending = {}
Cognitive == walk.total + (IF walk.recursive THEN 1 ELSE 0)

(***************************************************************************)
(* The model the metric is published as, stated of every node by what      *)
(* holds it: B1 what costs one, B2 what costs its level too, B3 what puts  *)
(* what is inside it one level deeper.                                     *)
(***************************************************************************)
PaysNesting(p) ==
    \/ Kind(p) = "if_statement" /\ ~(lang = Ecma /\ Kind(Front(p)) = "else_clause")
    \/ Kind(p) \in {"while_statement", "switch_statement", "catch_clause", "except_clause",
                    "match_statement", "ternary_expression", "conditional_expression"}

PaysOne(p) ==
    \/ PaysNesting(p)
    \/ Kind(p) \in {"else_clause", "elif_clause", "break_statement"}

\* One for each operator that is the first of its sequence of like operators.
InSameChain(p, q) == \E root \in DOMAIN tree :
    IsLogical(root) /\ {Front(p), Front(q)} \subseteq Region(root)
StartsARun(p) ==
    /\ tree[p].field = "operator"
    /\ LET earlier == {q \in DOMAIN tree : tree[q].field = "operator" /\ Before(q, p) /\ InSameChain(p, q)}
       IN \/ earlier = {}
          \/ \E q \in earlier : /\ \A r \in earlier : r = q \/ Before(r, q)
                                /\ tree[q].text # tree[p].text

\* Whether what is at `below` is a level deeper than its holder `p`.
Deepens(p, below) ==
    LET child == SubSeq(below, 1, Len(p) + 1)
        field == tree[child].field
    IN /\ p # <<>>
       /\ CASE Kind(p) \in {"if_statement", "elif_clause"} -> field = "consequence"
            [] Kind(p) = "else_clause" -> lang = Python \/ Kind(child) # "if_statement"
            [] Kind(p) \in {"while_statement", "switch_statement", "match_statement", "catch_clause"} ->
                   field = "body"
            [] Kind(p) = "except_clause" -> TRUE
            [] Kind(p) = "ternary_expression" -> field # "condition"
            [] Kind(p) = "conditional_expression" -> Last(child) # 2
            [] OTHER -> IsFunction(Kind(p)) /\ p \notin DecoratorExempt

Level(p) == Cardinality({h \in Holders(p) : Deepens(h, p)})
SumOf(nodes, f(_)) == FoldSet(LAMBDA p, sum : sum + f(p), 0, nodes)

ByTheRules ==
    Cardinality({p \in DOMAIN tree \ {<<>>} : PaysOne(p) \/ StartsARun(p)})
    + SumOf({p \in DOMAIN tree \ {<<>>} : PaysNesting(p)}, Level)
    + (IF \E p \in DOMAIN tree : Kind(p) = CallKind /\ IsSelfCall(p) THEN 1 ELSE 0)

\* An else whose statement stands after a comment: the walk takes the comment
\* for its body.
CommentHidesElse ==
    lang = Ecma /\ \E p \in DOMAIN tree : Kind(p) = "else_clause" /\ Kind(Child(p, 1)) = "comment"

\* What the one metric charges with its level, but a switch or a match, the other
\* counts as a decision.
BranchesAgree ==
    Cyclomatic > Cardinality({p \in DOMAIN tree \ {<<>>} :
        PaysNesting(p) /\ Kind(p) \notin {"switch_statement", "match_statement"}})

\* The number the walk ends with is the one the published rules give: an else-if
\* chain stays flat however it is nested, a run of like operators counts once
\* however its tree leans, recursion counts once, a nested function and a
\* decorator's wrapper weigh what the model says; and the two complexities agree on
\* what a branch is (cognitive.rs, the walker; cyclomatic.rs).
ScoreIsOfTheRules ==
    Measured => (CommentHidesElse \/ Cognitive = ByTheRules) /\ BranchesAgree

=============================================================================
