------------------------------ MODULE Primaries ------------------------------
(***************************************************************************)
(* parsePrimaryExpr of parser/parse_expr.go and the functions it calls for *)
(* the operands of an expression, as routines of Parser.tla.               *)
(***************************************************************************)
EXTENDS JsonXml

SortBy == <<Call("Prec0"), Set("SortBy", ""),
  Got("asc" :> <<Set("SortbyDir", "ASC")>> @@ "desc" :> <<Set("SortbyDir", "DESC")>>
      @@ "using" :> <<Set("SortbyDir", "USING")>> \o QualifiedName("UseOp"), <<>>),
  IfGot("nulls", <<Got("first" :> <<Set("SortbyNulls", "FIRST")>>
                       @@ "last" :> <<Set("SortbyNulls", "LAST")>>, <<Fail>>)>>)>>
SortClause == ListOf(SortBy)
OrderBy == IfGot("order", <<Want("by")>> \o SortClause)
-----------------------------------------------------------------------------
FrameBound(side) ==
  LET way(w) == <<Got("preceding" :> <<Set(side, w \o "_PRECEDING")>>,
                      <<Want("following"), Set(side, w \o "_FOLLOWING")>>)>>
  IN  <<Got("unbounded" :> way("UNBOUNDED")
            @@ "current" :> <<Want("row"), Set(side, "CURRENT_ROW")>>,
            <<Call("Prec0")>> \o way("OFFSET"))>>

FrameClause ==
  LET frame(mode) == <<Set("FrameOptions", mode),
        Got("between" :> FrameBound("StartOffset") \o <<Want("and")>> \o FrameBound("EndOffset"),
            FrameBound("StartOffset") \o <<Set("EndOffset", "CURRENT_ROW")>>),
        IfGot("exclude", <<Got(
          "current" :> <<Want("row"), Set("Exclude", "CURRENT_ROW")>>
          @@ "group" :> <<Set("Exclude", "GROUP")>> @@ "ties" :> <<Set("Exclude", "TIES")>>
          @@ "no" :> <<Want("others")>>, <<Fail>>)>>)>>
  IN  <<Got([m \in {"range", "rows", "groups"} |-> frame(m)], <<Set("FrameOptions", "default")>>)>>

WindowSpec ==
  LET refname(toks) == AtAny(toks, <<Ident("Refname")>>)
  IN  <<At([t \in AnyName |-> <<Ident("Refname")>>],
           Parens(<<refname(AnyName \ {"partition", "order", "rows", "range", "groups"}),
                    IfGot("partition", <<Want("by")>> \o ExprList("PartitionClause")),
                    OrderBy>> \o FrameClause)),
        Set("WindowDef", "")>>
-----------------------------------------------------------------------------
\* name := expr or name => expr, where what was parsed as an expression turns
\* out to be a name
FuncArg == <<Call("Prec0"),
  AtAny({"colon_equals", "equals_greater"},
        <<IfMade("ColumnRef", "name", <<Skip, Call("Prec0"), Set("NamedArgExpr", "")>>)>>),
  Set("Args", "")>>

FuncArgs == <<Got("variadic" :> <<Set("FuncVariadic", "true")>> \o Expr("Args"),
                  FuncArg \o <<IfGot("comma", <<Call("FuncArgs")>>)>>)>>

FuncSuffix == <<
  IfGot("within", <<Want("group")>> \o Parens(<<Want("order"), Want("by")>> \o SortClause)
                    \o <<Set("AggWithinGroup", "")>>),
  IfGot("filter", Parens(<<Want("where")>> \o Expr("AggFilter"))),
  Got("respect" :> <<Want("nulls"), Set("NullTreatment", "RESPECT")>>
      @@ "ignore" :> <<Want("nulls"), Set("NullTreatment", "IGNORE")>>, <<>>),
  IfGot("over", <<Call("WindowSpec")>>),
  Set("FuncCall", "")>>

FuncCall == <<Skip,
    Got("star" :> <<Set("AggStar", "true"), Want("rparen")>> @@ "rparen" :> <<>>,
        <<Got("all" :> <<>> @@ "distinct" :> <<Set("AggDistinct", "true")>>, <<>>),
          Call("FuncArgs"), OrderBy, Want("rparen")>>)>>
  \o FuncSuffix

\* What follows a name or a qualified name: a call, a literal of a type of that
\* name, or nothing.
AfterName(columnRef) ==
  <<At("lparen" :> <<Call("FuncCall")>>
       @@ [t \in StringConsts |-> <<Take("Arg"), Set("TypeCast", "")>>],
       <<Set("ColumnRef", columnRef)>>)>>

\* { '.' name } or '.' '*' at the end
Qualified == <<Got("star" :> <<Set("ColumnRef", "star")>>,
  <<ColLabel("Fields"), Got("dot" :> <<Call("Qualified")>>, AfterName("names"))>>)>>
ColumnRefOrFunc == <<ColLabel("Fields"), Got("dot" :> <<Call("Qualified")>>, AfterName("name"))>>
-----------------------------------------------------------------------------
Indirections ==
  LET way == "dot" :> <<ColLabel("Indirection")>> @@ "lbracket" :> Index(UpperBound)
  IN  <<Got([t \in DOMAIN way |-> way[t] \o <<While(way), Set("A_Indirection", "")>>], <<>>)>>

ParenExpr == <<
  At([t \in SelectStarts \cup {"table"} |->
        Subselect \o <<Want("rparen"), Set("EXPR_SUBLINK", "")>> \o Indirections],
     <<Call("Prec0"),
       Got("comma" :> <<Set("Args", "")>> \o ExprList("Args") \o <<Want("rparen"), Set("RowExpr", "")>>,
           <<Want("rparen")>>)>>)>>

CaseExpr == <<At("when" :> <<>>, Expr("Arg")),
  While("when" :> Expr("When") \o <<Want("then")>> \o Expr("Result")),
  IfGot("else", Expr("Defresult")),
  Want("end"), Set("CaseExpr", "")>>

Null == <<Set("A_Const", "null")>>
ArrayExpr == <<Got(
  "lbracket" :> <<At("rbracket" :> <<>>, ExprList("Elements")), Want("rbracket"),
                  Set("A_ArrayExpr", "")>>
  @@ "lparen" :> Subselect \o <<Want("rparen"), Set("ARRAY_SUBLINK", "")>>, <<Fail>> \o Null)>>

IntervalLiteral ==
  LET cast == Names("interval") \o <<Set("TypeCast", "")>>
  IN  <<Got("lparen" :> <<Integer("Typmods"), Want("rparen"),
                          At([t \in StringConsts |-> <<>>], <<Fail>>), Take("Arg")>> \o cast,
            <<At([t \in StringConsts |-> <<Take("Arg"), Call("IntervalFields")>> \o cast],
                 <<Fail>> \o Null)>>)>>

\* A keyword that names a type must have a string after it, but goes on as a
\* column if it has none.
ConstTypename ==
  LET literal == <<At([t \in StringConsts |-> <<Take("Arg"), Set("TypeCast", "")>>],
                      <<Fail, Call("Operand")>>)>>
      type == [t \in DOMAIN OneType |-> Names(OneType[t])]
        @@ [t \in DOMAIN Modified |-> Names(Modified[t]) \o <<Typmods>>]
        @@ "double" :> <<Want("precision")>> \o Names("float8")
        @@ "character" :> Varying("bpchar", "varchar") \o <<Typmods>>
        @@ "bit" :> Varying("bit", "varbit") \o <<Typmods>>
        @@ [t \in {"timestamp", "time"} |-> <<Typmods>> \o Zone(t)]
  IN  [t \in DOMAIN type |-> type[t] \o literal]
-----------------------------------------------------------------------------
SQLValueFunction ==
  LET plain == {"current_date", "current_role", "current_user", "session_user", "user",
                "current_catalog"}
      is(op) == <<Set("SQLValueFunction", op)>>
  IN  [t \in plain |-> is(t)]
      @@ [t \in {"current_time", "current_timestamp", "localtime", "localtimestamp"} |->
            <<Got("lparen" :> <<Integer("Typmod"), Want("rparen")>> \o is(t \o "_n"), is(t))>>]
      @@ "current_schema" :> <<IfGot("lparen", <<Want("rparen")>>)>> \o is("current_schema")
      @@ "system_user" :> <<Set("FuncCall", "system_user")>>

\* The functions with a syntax of their own, which become calls; Arg1 is the
\* first argument of the call.
SQLFunction ==
  LET is(name) == <<Want("rparen"), Set("FuncCall", name)>>
      rest(name) == <<While("comma" :> Expr("Args"))>> \o is(name)
      orNone(name, is_) == <<Want("lparen"), Got("rparen" :> <<Set("FuncCall", name)>>, is_)>>
      arg1 == <<Set("Arg1", "")>>
      trim(name) == <<Got("rparen" :> <<Set("FuncCall", name)>>,
        <<Call("Prec0"), Got("from" :> <<Set("Arg2", "")>> \o Expr("Arg1") \o is(name),
                             arg1 \o rest(name))>>)>>
  IN  "extract" :> orNone("extract",
        <<ColLabel("Arg1"), Want("from")>> \o Expr("Arg2") \o is("extract"))
      @@ "position" :> orNone("position",
        <<Call("BPrec0"), Set("Arg2", ""), Want("in")>> \o Expr("Arg1") \o is("position"))
      @@ "substring" :> orNone("substring", Expr("Arg1") \o <<Got(
        "from" :> Expr("Arg2") \o <<IfGot("for", Expr("Arg3"))>> \o is("substring")
        @@ "for" :> <<Set("Arg2", "1")>> \o Expr("Arg3") \o is("substring")
        @@ "similar" :> Expr("Arg2") \o <<Want("escape")>> \o Expr("Arg3") \o is("substring"),
        rest("explicit substring"))>>)
      @@ "overlay" :> orNone("overlay", Expr("Arg1") \o <<Got(
        "placing" :> Expr("Arg2") \o <<Want("from")>> \o Expr("Arg3")
                       \o <<IfGot("for", Expr("Arg4"))>> \o is("overlay"),
        rest("explicit overlay"))>>)
      @@ "trim" :> <<Want("lparen"), Got("leading" :> trim("ltrim") @@ "trailing" :> trim("rtrim")
                                         @@ "both" :> trim("btrim"), trim("btrim"))>>
      @@ "treat" :> <<Want("lparen")>> \o Expr("Arg1") \o <<Want("as"), Call("TypeName")>>
                      \o is("treat")
      @@ "normalize" :> <<Want("lparen")>> \o Expr("Arg1")
                          \o <<IfGot("comma", <<ColLabel("Arg2")>>)>> \o is("normalize")
      @@ "collation" :> <<Want("for"), Want("lparen")>> \o Expr("Arg1") \o is("pg_collation_for")
-----------------------------------------------------------------------------
Unary == Call("Prec13")

NotExpr == <<Call("Prec3"), Set("BoolExpr", "not")>>

\* What an operand may begin with, and what is done after that token.
Prefixed ==
  LET listed(type) == Parens(ExprList("Args")) \o <<Set(type, "")>>
  IN  "minus" :> <<Unary, Set("Prefix", "minus")>> @@ "plus" :> <<Unary>>
      @@ "not" :> NotExpr
      @@ "operator" :> <<Call("QualOp"), Unary, Set("Prefix", "operator")>>
      @@ "op" :> <<Unary, Set("Prefix", "op")>>
      @@ [t \in {"null", "true", "false"} |-> <<Set("A_Const", t)>>]
      @@ "lparen" :> <<Call("ParenExpr")>> @@ "case" :> <<Call("CaseExpr")>>
      @@ "exists" :> Parens(Subselect) \o <<Set("EXISTS_SUBLINK", "")>>
      @@ "array" :> <<Call("ArrayExpr")>>
      @@ "row" :> Parens(<<At("rparen" :> <<>>, ExprList("Args"))>>) \o <<Set("RowExpr", "")>>
      @@ [t \in {"coalesce", "greatest", "least", "grouping"} |-> listed(t)]
      @@ "nullif" :> Parens(Expr("Args") \o <<Want("comma")>> \o Expr("Args")) \o <<Set("NullIfExpr", "")>>
      @@ "cast" :> Parens(<<Call("Prec0"), Want("as"), Call("TypeName")>>) \o <<Set("TypeCast", "")>>
      @@ "default" :> <<Set("SetToDefault", "")>>
      @@ SQLValueFunction
      @@ "merge_action" :> Parens(<<>>) \o <<Set("MergeActionExpr", "")>>
      @@ SQLFunction @@ XmlFunction @@ JsonFunction
      @@ "interval" :> <<Call("IntervalLiteral")>> @@ ConstTypename

\* An identifier or any keyword, reserved ones too
Operand == <<At([t \in AnyWord |-> <<Call("ColumnRefOrFunc")>>], <<Fail, Skip>> \o Null)>>

Primary == <<At(
  [t \in IntConsts |-> <<Skip, Set("A_Const", IF t \in Rejected THEN "0" ELSE t)>>]
  @@ [t \in StringConsts |-> <<Take("A_Const")>>]
  @@ [t \in DOMAIN Literals |-> <<Take(Literals[t])>>],
  <<Got(CallByToken("Begins", Prefixed), <<Call("Operand")>>)>>)>>

ExprRoutines ==
  PrecRoutines @@ JsonXmlRoutines @@ "OrderBy" :> <<OrderBy>> @@ ByToken("Begins", Prefixed) @@ "Primary" :> Primary @@ "Operand" :> Operand @@ "QualOp" :> QualOp
  @@ "TypeName" :> TypeName @@ "IntervalFields" :> IntervalFields
  @@ "IntervalLiteral" :> IntervalLiteral @@ "WindowSpec" :> WindowSpec
  @@ "FuncArgs" :> FuncArgs @@ "FuncCall" :> FuncCall @@ "Qualified" :> Qualified
  @@ "ColumnRefOrFunc" :> ColumnRefOrFunc @@ "ParenExpr" :> ParenExpr
  @@ "CaseExpr" :> CaseExpr @@ "ArrayExpr" :> ArrayExpr
=============================================================================
