----------------------------- MODULE SyntaxTree -----------------------------
(***************************************************************************)
(* The syntax trees the static engine reads, as tree-sitter hands them     *)
(* over.  A tree is a function from paths to nodes: the root is the empty  *)
(* path, the i-th child of p is p \o <<i>>, and the order of two paths is  *)
(* the order of their nodes in the source.                                 *)
(*                                                                         *)
(* A leaf of kind "statement" or "expression" is source that costs         *)
(* nothing; a template puts a construct of the language in its place.      *)
(***************************************************************************)
EXTENDS Naturals, Sequences, FiniteSets, SequencesExt, TLC

Python == "python"
Ecma == "ecma"

Node(kind, field, text) == [kind |-> kind, field |-> field, text |-> text]
Statement(field) == Node("statement", field, "")
Expression(field) == Node("expression", field, "")
Comment == Node("comment", "", "")

Child(p, i) == Append(p, i)
Kids(t, p) == {q \in DOMAIN t : Len(q) = Len(p) + 1 /\ IsPrefix(p, q)}
FieldOf(t, p, field) == {q \in Kids(t, p) : t[q].field = field}

\* The keyword and operator tokens are the anonymous nodes; of them the trees
\* here hold only the operators.
NamedKids(t, p) == {q \in Kids(t, p) : t[q].field # "operator"}
FirstOf(nodes) == CHOOSE p \in nodes : \A q \in nodes : Last(p) <= Last(q)
InOrder(nodes) == SetToSortSeq(nodes, LAMBDA p, q : Last(p) < Last(q))

\* p comes before q in the source (neither holds the other).
Before(p, q) ==
    \E i \in 1..Len(p) :
        /\ i <= Len(q)
        /\ p[i] < q[i]
        /\ \A j \in 1..(i - 1) : p[j] = q[j]

Holders(p) == {SubSeq(p, 1, n) : n \in 0..(Len(p) - 1)}

\* A construct: the nodes below it, by their paths from it.
Construct(kind, below) == <<kind, below>>

IfStatements ==
    LET plain == (<<1>> :> Expression("condition")) @@ (<<2>> :> Statement("consequence"))
        Else(first) == plain @@ (<<3>> :> Node("else_clause", "alternative", "")) @@ first
    IN {Construct("if_statement", plain),
        Construct("if_statement", Else(<<3, 1>> :> Statement("body"))),
        Construct("if_statement", Else((<<3, 1>> :> Comment) @@ (<<3, 2>> :> Statement("body"))))}

Loops ==
    {Construct("while_statement",
               (<<1>> :> Expression("condition")) @@ (<<2>> :> Statement("body")))}

EcmaStatements ==
    {Construct("switch_statement",
               (<<1>> :> Expression("value")) @@ (<<2>> :> Node("switch_body", "body", ""))
               @@ (<<2, 1>> :> Node("switch_case", "", "")) @@ (<<2, 1, 1>> :> Statement(""))),
     Construct("try_statement",
               (<<1>> :> Statement("body")) @@ (<<2>> :> Node("catch_clause", "handler", ""))
               @@ (<<2, 1>> :> Statement("body"))),
     Construct("break_statement", <<1>> :> Node("statement_identifier", "label", "")),
     Construct("function_declaration",
               (<<1>> :> Node("identifier", "name", "g")) @@ (<<2>> :> Statement("body")))}

PythonStatements ==
    {Construct("if_statement",
               (<<1>> :> Expression("condition")) @@ (<<2>> :> Statement("consequence"))
               @@ (<<3>> :> Node("elif_clause", "alternative", ""))
               @@ (<<3, 1>> :> Expression("condition")) @@ (<<3, 2>> :> Statement("consequence"))
               @@ (<<4>> :> Node("else_clause", "alternative", ""))
               @@ (<<4, 1>> :> Statement("body"))),
     Construct("try_statement",
               (<<1>> :> Statement("body")) @@ (<<2>> :> Node("except_clause", "", ""))
               @@ (<<2, 1>> :> Statement(""))),
     Construct("match_statement",
               (<<1>> :> Expression("subject")) @@ (<<2>> :> Node("block", "body", ""))
               @@ (<<2, 1>> :> Node("case_clause", "", ""))
               @@ (<<2, 1, 1>> :> Node("case_pattern", "", "_"))
               @@ (<<2, 1, 2>> :> Statement("consequence")))}
    \cup {Construct("block",
                    (<<1>> :> Node("function_definition", "", ""))
                    @@ (<<1, 1>> :> Node("identifier", "name", "g"))
                    @@ (<<1, 2>> :> Statement("body"))
                    @@ (<<2>> :> Node("return_statement", "", ""))
                    @@ (<<2, 1>> :> Node("identifier", "", returned))) : returned \in {"g", "h"}}
    \cup {Construct("block",
                    (<<1>> :> Node("decorated_definition", "", ""))
                    @@ (<<1, 1>> :> Node("decorator", "", ""))
                    @@ (<<1, 2>> :> Node("function_definition", "definition", ""))
                    @@ (<<1, 2, 1>> :> Node("identifier", "name", "g"))
                    @@ (<<1, 2, 2>> :> Statement("body"))
                    @@ (<<2>> :> Node("return_statement", "", ""))
                    @@ (<<2, 1>> :> Node("identifier", "", "g")))}

LogicalChains(kind, operators) ==
    {Construct(kind, (<<1>> :> Expression("left")) @@ (<<2>> :> Node(op, "operator", op))
                     @@ (<<3>> :> Expression("right"))) : op \in operators}

EcmaExpressions ==
    LogicalChains("binary_expression", {"&&", "||"})
    \cup {Construct("ternary_expression",
                    (<<1>> :> Expression("condition")) @@ (<<2>> :> Expression("consequence"))
                    @@ (<<3>> :> Expression("alternative"))),
          Construct("parenthesized_expression", <<1>> :> Expression("")),
          Construct("call_expression", <<1>> :> Node("identifier", "function", "f")),
          Construct("arrow_function", <<1>> :> Statement("body"))}

PythonExpressions ==
    LogicalChains("boolean_operator", {"and", "or"})
    \cup {Construct("conditional_expression",
                    (<<1>> :> Expression("")) @@ (<<2>> :> Expression(""))
                    @@ (<<3>> :> Expression(""))),
          Construct("parenthesized_expression", <<1>> :> Expression("")),
          Construct("call", (<<1>> :> Node("attribute", "function", ""))
                            @@ (<<1, 1>> :> Node("identifier", "object", "self"))
                            @@ (<<1, 2>> :> Node("identifier", "attribute", "f"))),
          Construct("lambda", <<1>> :> Expression("body")),
          Construct("list_comprehension",
                    (<<1>> :> Expression("body")) @@ (<<2>> :> Node("for_in_clause", "", ""))
                    @@ (<<3>> :> Node("if_clause", "", "")) @@ (<<3, 1>> :> Expression("")))}

Templates(lang, kind) ==
    CASE kind = "statement" /\ lang = Ecma -> IfStatements \cup Loops \cup EcmaStatements
      [] kind = "statement" /\ lang = Python -> IfStatements \cup Loops \cup PythonStatements
      [] kind = "expression" /\ lang = Ecma -> EcmaExpressions
      [] kind = "expression" /\ lang = Python -> PythonExpressions
      [] OTHER -> {}

\* The function f, with an empty body.
BareFunction(lang) ==
    (<<>> :> Node(IF lang = Python THEN "function_definition" ELSE "function_declaration", "", ""))
    @@ (<<1>> :> Node("identifier", "name", "f"))
    @@ (<<2>> :> Statement("body"))

Put(t, p, construct) ==
    [t EXCEPT ![p].kind = construct[1]]
    @@ [q \in {p \o below : below \in DOMAIN construct[2]} |->
            construct[2][SubSeq(q, Len(p) + 1, Len(q))]]

=============================================================================
