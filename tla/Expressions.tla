----------------------------- MODULE Expressions -----------------------------
(***************************************************************************)
(* parser/parse_expr.go, parse_opforms.go, parse_valfuncs.go,              *)
(* parse_sqlfuncs.go and parse_types.go as routines of Parser.tla.  The    *)
(* tree of an expression is written in postfix: the entries of the         *)
(* operands, then that of the operator; <<f, "">> says that the expression *)
(* before it becomes the field f of the node around it.  A node that the   *)
(* code builds and drops, which it does only after an error and where it   *)
(* is said, stays in the tree.                                             *)
(***************************************************************************)
EXTENDS Statements

Expr(field) == <<Call("Prec0"), Set(field, "")>>
ExprList(field) == ListOf(Expr(field))
Parens(is) == <<Want("lparen")>> \o is \o <<Want("rparen")>>
Subselect == <<Inner("SelectStmt")>>
SelectStarts == {"select", "values", "with"}
-----------------------------------------------------------------------------
(***************************************************************************)
(* Precedence climbing                                                     *)
(***************************************************************************)
Comparisons == {"lt", "gt", "eq", "le", "ge", "ltgt", "noteq"}

\* The operators that may follow an operand, with their levels.
Level ==
  "or" :> 1 @@ "and" :> 2
  @@ [t \in {"is", "isnull", "notnull"} |-> 4]
  @@ [t \in Comparisons \cup {"overlaps"} |-> 5]
  @@ [t \in {"not", "between", "in", "like", "ilike", "similar"} |-> 6]
  @@ [t \in {"bar", "operator", "op", "arrow"} |-> 7]
  @@ [t \in {"plus", "minus"} |-> 8]
  @@ [t \in {"star", "slash", "percent"} |-> 9]
  @@ "caret" :> 10 @@ "at" :> 11 @@ "collate" :> 12 @@ "lbracket" :> 14
  @@ "typecast" :> 16
Levels == 0..13
Prec(n) == "Prec" \o ToString(n)
Suffix(n) == "Suffix" \o ToString(n)
BPrec(n) == "BPrec" \o ToString(n)
BSuffix(n) == "BSuffix" \o ToString(n)

\* Fault: the right operand may be at the level of the operator.
BinarySameLevel(t, type) == <<Call(Prec(Level[t])), Set(type, t)>>

Binary(t, type) == <<Call(Prec(Level[t] + 1)), Set(type, t)>>

\* expr op [ANY|ALL|SOME (...)]
SubqueryOp(t) ==
  LET quantified(link, kind) == <<Want("lparen"),
        At([s \in SelectStarts \cup {"table"} |->
              Subselect \o <<Want("rparen"), Set(link, t)>>],
           <<Call("Prec0"), Want("rparen"), Set(kind, t)>>)>>
      any == quantified("ANY_SUBLINK", "AEXPR_OP_ANY")
  IN  <<Got("all" :> quantified("ALL_SUBLINK", "AEXPR_OP_ALL") @@ "any" :> any @@ "some" :> any,
            Binary(t, "A_Expr"))>>

Bounds(kind) == <<Call("BPrec0"), Want("and"), Call(Prec(Level["between"] + 1)),
                  Set("A_Expr", kind)>>
Between(not) == <<Got("symmetric" :> Bounds(not \o "BETWEEN_SYM"), Bounds(not \o "BETWEEN"))>>

In(link, after) ==
  <<Want("lparen"),
    At([s \in SelectStarts \cup {"lparen"} |->
          Subselect \o <<Want("rparen"), Set(link, "eq")>>],
       ExprList("Items") \o <<Want("rparen"), Set("A_Expr", "IN")>> \o after)>>

Pattern(op) == <<Call(Prec(Level["like"] + 1)),
                 IfGot("escape", <<Call(Prec(Level["like"] + 1)), Set("Escape", "")>>),
                 Set("A_Expr", op)>>
Similar == <<Want("to")>> \o Pattern("SIMILAR")

\* What may follow NOT after an operand; SIMILAR TO does not keep it.
Negated ==
  "between" :> Between("NOT_") @@ "in" :> In("ALL_SUBLINK", <<Set("BoolExpr", "not")>>)
  @@ "like" :> Pattern("NOT_LIKE") @@ "ilike" :> Pattern("NOT_ILIKE") @@ "similar" :> Similar

IsTest(not) == <<Got(
  "null" :> <<Set("NullTest", not \o "NULL")>>
  @@ [t \in {"true", "false", "unknown"} |-> <<Set("BooleanTest", not \o t)>>]
  @@ "distinct" :> <<Want("from"), Call(Prec(Level["is"] + 1)), Set("A_Expr", not \o "DISTINCT")>>
  @@ "document" :> <<Set("A_Expr", not \o "document")>>
  @@ "normalized" :> <<Set("A_Const", "nfc"), Set("A_Expr", not \o "normalized")>>
  @@ [t \in {"nfc", "nfd", "nfkc", "nfkd"} |->
        <<Set("A_Const", t), Want("normalized"), Set("A_Expr", not \o "normalized")>>]
  @@ "json" :> <<Call("IsJson")>> \o (IF not = "" THEN <<>> ELSE <<Set("BoolExpr", "not")>>),
  <<Fail>>)>>

\* [lower:upper], where the upper bound may be left out, and [index]
UpperBound == <<At("rbracket" :> <<>>, Expr("Uidx"))>>
Index(afterColon) ==
  <<Got("colon" :> afterColon,
        <<Call("Prec0"), Got("colon" :> <<Set("Lidx", "")>> \o UpperBound, <<Set("Uidx", "")>>)>>),
    Want("rbracket")>>

\* What each operator does after it is consumed.
Operation ==
  [t \in {"or", "and"} |-> Binary(t, "BoolExpr")]
  @@ "is" :> <<Got("not" :> IsTest("NOT_"), IsTest(""))>>
  @@ "isnull" :> <<Set("NullTest", "NULL")>> @@ "notnull" :> <<Set("NullTest", "NOT_NULL")>>
  @@ [t \in Comparisons \cup {"op"} |-> SubqueryOp(t)]
  @@ "operator" :> <<Call("QualOp")>> \o SubqueryOp("operator")
  @@ "not" :> <<Got(Negated, <<Fail>>)>>
  @@ "between" :> Between("") @@ "in" :> In("ANY_SUBLINK", <<>>)
  @@ "like" :> Pattern("LIKE") @@ "ilike" :> Pattern("ILIKE") @@ "similar" :> Similar
  @@ [t \in {"overlaps", "bar", "arrow", "plus", "minus", "star", "slash", "percent", "caret"} |->
        Binary(t, "A_Expr")]
  @@ "at" :> <<Got("time" :> <<Want("zone")>> \o Binary("at", "A_Expr")
                   @@ "local" :> <<Set("A_Const", "local"), Set("A_Expr", "at")>>, <<Fail>>)>>
  @@ "collate" :> QualifiedName("Collname") \o <<Set("CollateClause", "")>>
  @@ "lbracket" :> Index(Expr("Uidx")) \o <<Set("A_Indirection", "")>>
  @@ "typecast" :> <<Call("TypeName"), Set("TypeCast", "")>>

\* An operator of level n or more, as often as there is one.  In the DEFAULT of
\* a column NOT is none, and begins the next constraint.
SuffixOf(n) ==
  LET goes(t) == <<Call("After" \o t), Call(Suffix(n))>>
      operators == {t \in DOMAIN Level : n <= Level[t]}
      not == <<AtAny({"not"}, <<UnlessInColDefault(<<Skip>> \o goes("not"))>>)>>
  IN  <<Got([t \in operators \ {"not"} |-> goes(t)], IF "not" \in operators THEN not ELSE <<>>)>>

\* The operators of b_expr
BOperators == Comparisons \cup {"op", "plus", "minus", "star", "slash", "percent", "caret"}
BSuffixOf(n) ==
  LET binary == [t \in {u \in BOperators : n <= Level[u]} |->
                   <<Call(BPrec(Level[t] + 1)), Set("A_Expr", t), Call(BSuffix(n))>>]
  IN  <<Got("typecast" :> <<Call("Aftertypecast"), Call(BSuffix(n))>> @@ binary, <<>>)>>

PrecRoutines ==
  LET named(name(_), body(_)) ==
        [s \in {name(n) : n \in Levels} |-> body(CHOOSE n \in Levels : name(n) = s)]
  IN  named(Prec, LAMBDA n : <<Call("Primary"), Call(Suffix(n))>>)
      @@ named(Suffix, SuffixOf)
      @@ named(BPrec, LAMBDA n : <<Call("Primary"), Call(BSuffix(n))>>)
      @@ named(BSuffix, BSuffixOf)
      @@ ByToken("After", Operation)

Symbols == BOperators \cup {"bar"}

\* OPERATOR '(' [schema '.'] op ')'
QualOp ==
  LET symbol == At([s \in Symbols |-> <<Take("OperName")>>], <<Fail>>)
  IN  Parens(<<At([t \in AnyName |-> <<Take("OperName"), IfGot("dot", <<symbol>>)>>], <<symbol>>)>>)
-----------------------------------------------------------------------------
(***************************************************************************)
(* Type names                                                              *)
(***************************************************************************)
Typmods == IfGot("lparen", ExprList("Typmods") \o <<Want("rparen")>>)
Names(type) == <<Set("Names", type)>>
Varying(plain, varying) == <<Got("varying" :> Names(varying), Names(plain))>>
Zone(t) ==
  LET zone(type) == <<Want("time"), Want("zone")>> \o Names(type)
  IN  <<Got("with" :> zone(t \o "tz") @@ "without" :> zone(t), Names(t))>>

IntervalFields ==
  LET is(fields) == <<Set("Typmods", fields)>>
      second(fields) == <<Want("second"), Set("Typmods", fields),
                          IfGot("lparen", <<Integer("Typmods"), Want("rparen")>>)>>
      to(from, ways) == <<Got("to" :> <<At("second" :> second(from \o " to second"),
                                           <<Got(ways, <<Fail>> \o is(from))>>)>>, is(from))>>
  IN  <<At("second" :> second("second"), <<Got(
          "year" :> <<Got("to" :> <<Want("month")>> \o is("year to month"), is("year"))>>
          @@ "month" :> is("month")
          @@ "day" :> to("day", [t \in {"hour", "minute"} |-> is("day to " \o t)])
          @@ "hour" :> to("hour", "minute" :> is("hour to minute"))
          @@ "minute" :> <<Got("to" :> second("minute to second"), is("minute"))>>, <<>>)>>)>>

\* Keywords that are the name of one type
OneType == "int" :> "int4" @@ "integer" :> "int4" @@ "smallint" :> "int2"
  @@ "bigint" :> "int8" @@ "real" :> "float4" @@ "boolean" :> "bool" @@ "json" :> "json"
Modified == "decimal" :> "numeric" @@ "numeric" :> "numeric" @@ "float" :> "float8"
  @@ "char" :> "bpchar" @@ "varchar" :> "varchar"
Other == "text" :> "text" @@ "xml" :> "xml"

\* A bound of an array type; -1 when none is given
ArrayBound == <<At([t \in IntConsts |-> <<Integer("ArrayBounds")>>], <<Set("ArrayBounds", "-1")>>),
                Want("rbracket")>>

TypeName ==
  LET named == OneType @@ Modified @@ Other
      builtin == [t \in DOMAIN named |-> Names(named[t]) \o <<Typmods>>]
        @@ "double" :> <<Want("precision")>> \o Names("float8") \o <<Typmods>>
        @@ "character" :> Varying("bpchar", "varchar") \o <<Typmods>>
        @@ "bit" :> Varying("bit", "varbit") \o <<Typmods>>
        @@ [t \in {"timestamp", "time"} |->
              <<Got("lparen" :> ExprList("Typmods") \o <<Want("rparen")>> \o Zone(t),
                    Zone(t) \o <<Typmods>>)>>]
        @@ "interval" :> Names("interval")
             \o <<Got("lparen" :> <<Set("Typmods", "full"), Integer("Typmods"), Want("rparen")>>,
                      <<Call("IntervalFields")>>)>>
  IN  <<IfGot("setof", <<Set("Setof", "true")>>),
        Got(builtin, QualifiedName("Names") \o <<Typmods>>),
        IfGot("percent", <<Want("type"), Set("PctType", "true")>>),
        While("lbracket" :> ArrayBound),
        IfGot("array", <<Got("lbracket" :> ArrayBound, <<Set("ArrayBounds", "-1")>>)>>),
        Set("TypeName", "")>>
=============================================================================
