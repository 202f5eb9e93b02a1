--------------------------- MODULE ExpressionSyntax ---------------------------
(***************************************************************************)
(* The syntax of expressions, stated without the parser: a grammar         *)
(* stratified by the precedence levels that parse_expr.go:9-30 declares.   *)
(***************************************************************************)
EXTENDS Changes, Phrases

\* The declared levels (parse_expr.go:11-30).  All the binary operators are
\* left associative: their left operand may be of their own level.
Declared ==
  "or" :> 1 @@ "and" :> 2 @@ "eq" :> 5 @@ "lt" :> 5 @@ "bar" :> 7 @@ "op" :> 7
  @@ "plus" :> 8 @@ "minus" :> 8 @@ "star" :> 9 @@ "caret" :> 10
Tightness == 0..17
Type(t) == IF t \in {"or", "and"} THEN "BoolExpr" ELSE "A_Expr"

Column == {Phrase(<<"x">>, <<<<"Fields", "x">>, <<"ColumnRef", "name">>>>)}
Number == {Phrase(<<"1">>, <<<<"A_Const", "1">>>>)}
Leaf == [l \in Tightness |-> Column]

As(A, type, value) == Then(A, Is(type, value))
Into(A, field) == As(A, field, "")
After(A, w) == Then(A, Words(w))
Before(w, A) == Then(Words(w), A)
Wrapped(A) == Of(Words(<<"lparen">>), A, Words(<<"rparen">>))

\* E is a sequence of grammars: E[n][l] are the expressions of n - 1 operators
\* that may stand where one of level l or more must.
One(E, l) == E[Len(E)][l]
Two(E, l, w, m) == UNION {Of(E[k][l], Words(w), E[Len(E) + 1 - k][m]) : k \in 1..Len(E)}

\* The tokens that b_expr does not have, as a bound of BETWEEN
BExpr(A) ==
  {p \in A : \A n \in DOMAIN p.text :
      p.text[n] \notin {"and", "or", "not", "is", "in", "at", "collate", "bar", "between", "like", "lbracket"}}

\* The forms that are not binary operators, by their level.
Tests(E) == LET test(w, type, is) == As(After(One(E, 5), w), type, is)
  IN  test(<<"is", "null">>, "NullTest", "NULL")
      \cup test(<<"is", "not", "null">>, "NullTest", "NOT_NULL")
      \cup test(<<"notnull">>, "NullTest", "NOT_NULL")
      \cup test(<<"is", "not", "true">>, "BooleanTest", "NOT_true")
      \cup As(Two(E, 5, <<"is", "distinct", "from">>, 5), "A_Expr", "DISTINCT")

Ranges(E) ==
  LET items(w) == As(Then(After(One(E, 7), w), Wrapped(Listed(Into(Number, "Items")))), "A_Expr", "IN")
      between(w, A, low, high, is) == As(Of(After(A, w), low, Before(<<"and">>, high)), "A_Expr", is)
  IN  items(<<"in">>) \cup As(items(<<"not", "in">>), "BoolExpr", "not")
      \cup As(Two(E, 7, <<"like">>, 7), "A_Expr", "LIKE")
      \cup As(Two(E, 7, <<"not", "ilike">>, 7), "A_Expr", "NOT_ILIKE")
      \cup As(Into(Of(Column, Words(<<"like">>), Of(Column, Words(<<"escape">>), One(E, 7))), "Escape"),
              "A_Expr", "LIKE")
      \cup between(<<"between">>, One(E, 7), Number, Number, "BETWEEN")
      \cup between(<<"not", "between">>, Column, BExpr(One(E, 7)), Number, "NOT_BETWEEN")
      \cup between(<<"between", "symmetric">>, Column, Number, One(E, 7), "BETWEEN_SYM")

Cast(A) == As(Into(As(A, "Names", "int4"), "TypeName"), "TypeCast", "")
Closed(E) ==
  LET list(field) == Of(Into(One(E, 0), field), Words(<<"comma">>), Into(Number, field))
  IN  Wrapped(One(E, 0))
      \cup As(Of(Before(<<"case", "when">>, Into(Number, "When")),
                 Before(<<"then">>, Into(One(E, 0), "Result")), Words(<<"end">>)), "CaseExpr", "")
      \cup Cast(Of(Words(<<"cast", "lparen">>), One(E, 0), Words(<<"as", "int", "rparen">>)))
      \cup As(Of(Words(<<"x">>), Is("Fields", "x"), Wrapped(list("Args"))), "FuncCall", "")
      \cup As(Of(Words(<<"array", "lbracket">>), list("Elements"), Words(<<"rbracket">>)),
              "A_ArrayExpr", "")
      \cup As(Of(After(Column, <<"lbracket">>), Into(One(E, 0), "Uidx"), Words(<<"rbracket">>)),
              "A_Indirection", "")

OtherForms(E) ==
  3 :> As(Before(<<"not">>, One(E, 3)), "BoolExpr", "not")
  @@ 4 :> Tests(E) @@ 6 :> Ranges(E)
  @@ 5 :> As(Then(After(One(E, 6), <<"eq", "any">>), Wrapped(One(E, 0))), "AEXPR_OP_ANY", "eq")
  @@ 11 :> As(Two(E, 11, <<"at", "time", "zone">>, 12), "A_Expr", "at")
  @@ 12 :> As(Of(One(E, 12), Words(<<"collate">>), Name("Collname")), "CollateClause", "")
  @@ 13 :> As(Before(<<"minus">>, One(E, 13)), "Prefix", "minus")
  @@ 16 :> Cast(After(One(E, 16), <<"typecast", "int">>))
  @@ 17 :> Closed(E)

\* The grammar of one operator more than the last of E has.
More(E, operators, other) ==
  LET at(l) == UNION {As(Two(E, l, <<t>>, l + 1), Type(t), t) :
                        t \in {u \in operators : Declared[u] = l}}
                 \cup UNION {other[m] : m \in {l} \cap DOMAIN other}
      all == [l \in Tightness |-> at(l)]
  IN  [l \in Tightness |-> UNION {all[m] : m \in {k \in Tightness : l <= k}}]

\* One binary operator of each level
OneEach == {"or", "and", "eq", "bar", "plus", "star", "caret"}
WithOne == <<Leaf, More(<<Leaf>>, DOMAIN Declared, OtherForms(<<Leaf>>))>>
WithTwo == More(WithOne, OneEach, OtherForms(WithOne))

\* Chains of three binary operators
ChainsOfOne == <<Leaf, More(<<Leaf>>, OneEach, <<>>)>>
ChainsOfTwo == Append(ChainsOfOne, More(ChainsOfOne, OneEach, <<>>))
Chains == More(ChainsOfTwo, OneEach, <<>>)

-----------------------------------------------------------------------------
(***************************************************************************)
(* Operands with a syntax of their own, as the comments above their parse  *)
(* functions give it.                                                      *)
(***************************************************************************)
\* parse_expr.go:1389, 1450, 1474, 1517 and 1558: NAME(args) and what follows it
Sorted == Before(<<"order", "by">>, Then(Into(Column, "SortBy"),
            Maybe(Before(<<"desc">>, Is("SortbyDir", "DESC")))))
Frames ==
  LET start(w, is) == Before(w, Is("StartOffset", is))
      preceding == start(<<"unbounded", "preceding">>, "UNBOUNDED_PRECEDING")
                     \cup Of(Number, Words(<<"preceding">>), Is("StartOffset", "OFFSET_PRECEDING"))
      current == start(<<"current", "row">>, "CURRENT_ROW")
      end == Before(<<"current", "row">>, Is("EndOffset", "CURRENT_ROW"))
               \cup Before(<<"unbounded", "following">>, Is("EndOffset", "UNBOUNDED_FOLLOWING"))
      exclude == Maybe(Before(<<"exclude", "ties">>, Is("Exclude", "TIES")))
      between == Of(Words(<<"between">>), preceding \cup current, Before(<<"and">>, end))
      short == Then(preceding, Is("EndOffset", "CURRENT_ROW"))
  IN  Of(UNION {Before(<<m>>, Is("FrameOptions", m)) : m \in {"rows", "groups"}}, between \cup short, exclude)
        \cup Is("FrameOptions", "default")
Windows == Into(Wrapped(Of(Maybe(Lit({"x"}, "Refname")),
                           Maybe(Before(<<"partition", "by">>, Into(Column, "PartitionClause"))),
                           Then(Maybe(Sorted), Frames)))
                \cup Lit({"x"}, "Refname"), "WindowDef")
Calls ==
  LET name == Then(Words(<<"x">>), Is("Fields", "x"))
      arg == Into(Column, "Args")
             \cup Into(Into(Of(Column, Words(<<"colon_equals">>), Number), "NamedArgExpr"), "Args")
      distinct == Maybe(Before(<<"distinct">>, Is("AggDistinct", "true")))
      args == Of(distinct, Listed(arg), Maybe(Sorted)) \cup Words(<<>>)
                \cup Before(<<"star">>, Is("AggStar", "true"))
                \cup Before(<<"variadic">>, Then(Is("FuncVariadic", "true"), Into(Column, "Args")))
      filter == Before(<<"filter">>, Wrapped(Into(Before(<<"where">>, Column), "AggFilter")))
      within == As(Before(<<"within", "group">>, Wrapped(Sorted)), "AggWithinGroup", "")
      ignore == Before(<<"ignore", "nulls">>, Is("NullTreatment", "IGNORE"))
  IN  Into(Of(name, Wrapped(args), Maybe(filter) \cup within \cup ignore)
           \cup Of(name, Words(<<"lparen", "rparen">>), Then(Maybe(filter), Before(<<"over">>, Windows))),
           "FuncCall")

\* parse_sqlfuncs.go:15, 38, 59, 124, 165, 204, 223 and 243
SQLFunctions ==
  LET arg(n, A) == Into(A, n)
      call(w, A, is) == As(Of(Words(<<w, "lparen">>), A, Words(<<"rparen">>)), "FuncCall", is)
      one == arg("Arg1", Column)
      with(w, n) == Before(<<w>>, arg(n, Number))
      trim(way, is) == call("trim", Of(way, arg("Arg2", Number), Before(<<"from">>, one)) \cup Then(way, one), is)
      type == Into(Before(<<"int">>, Is("Names", "int4")), "TypeName")
  IN  call("extract", Of(Lit({"year", "x"}, "Arg1"), Words(<<"from">>), arg("Arg2", Column)), "extract")
      \cup call("position", Of(arg("Arg2", Number), Words(<<"in">>), one), "position")
      \cup call("substring", Of(one, with("from", "Arg2"), Maybe(with("for", "Arg3")))
                  \cup Of(one, Is("Arg2", "1"), with("for", "Arg3")), "substring")
      \cup call("substring", Of(one, with("comma", "Args"), Maybe(with("comma", "Args"))), "explicit substring")
      \cup call("overlay", Of(one, with("placing", "Arg2"), Then(with("from", "Arg3"), Maybe(with("for", "Arg4")))),
                "overlay")
      \cup trim(Words(<<"leading">>), "ltrim") \cup trim(Words(<<"trailing">>), "rtrim")
      \cup trim(Optional("both"), "btrim")
      \cup call("treat", Of(one, Words(<<"as">>), type), "treat")
      \cup call("normalize", Then(one, Maybe(Before(<<"comma">>, Lit({"nfc"}, "Arg2")))), "normalize")
      \cup As(Before(<<"collation", "for">>, Wrapped(one)), "FuncCall", "pg_collation_for")

\* parse_expr.go:1252, 1290 and 1838-1840, parse_types.go:3-5 and 119-154
Fields ==
  LET is(w) == Then(Words(w), Is("Typmods", w[1]))
      second(w, from) == Of(Words(w), Is("Typmods", from), Maybe(Wrapped(Lit({"1"}, "Typmods"))))
  IN  Words(<<>>) \cup is(<<"year">>) \cup is(<<"month">>) \cup is(<<"day">>) \cup second(<<"second">>, "second")
      \cup Before(<<"year", "to", "month">>, Is("Typmods", "year to month"))
      \cup Before(<<"day", "to", "hour">>, Is("Typmods", "day to hour"))
      \cup second(<<"day", "to", "second">>, "day to second")
      \cup second(<<"minute", "to", "second">>, "minute to second")
TypeForms ==
  LET of(w, is) == Then(Words(w), Is("Names", is))
      mods == Wrapped(Listed(Into(Number, "Typmods")))
      zoned == of(<<"time">>, "time") \cup of(<<"time", "with", "time", "zone">>, "timetz")
                 \cup Of(Words(<<"timestamp">>), mods, of(<<"with", "time", "zone">>, "timestamptz"))
      array == Of(Words(<<"lbracket">>), Lit({"1"}, "ArrayBounds") \cup Is("ArrayBounds", "-1"),
                  Words(<<"rbracket">>))
      based == of(<<"double", "precision">>, "float8") \cup of(<<"bit", "varying">>, "varbit")
                 \cup Then(of(<<"character", "varying">>, "varchar") \cup of(<<"numeric">>, "numeric"), Maybe(mods))
                 \cup Of(Name("Names"), Maybe(Before(<<"dot">>, Name("Names"))), Maybe(mods))
  IN  based \cup zoned \cup Then(of(<<"interval">>, "interval"), Fields)
      \cup Then(of(<<"int">>, "int4"), array \cup Then(array, array)
                   \cup Before(<<"array">>, Is("ArrayBounds", "-1")))

ValueForms ==
  LET string == Lit({"'s'"}, "Arg")
      literal(w, is) == Of(Words(w), Is("Names", is), string)
      when == Of(Words(<<"when">>), Into(Column, "When"), Before(<<"then">>, Into(Number, "Result")))
      listed(t) == As(Before(<<t>>, Wrapped(Listed(Into(Column, "Args")))), t, "")
  IN  As(Then(Of(Words(<<"interval">>), string, Fields), Is("Names", "interval")), "TypeCast", "")
      \cup Into(literal(<<"int">>, "int4") \cup literal(<<"double", "precision">>, "float8")
                \cup literal(<<"time", "with", "time", "zone">>, "timetz")
                \cup Then(Lit({"x"}, "Fields"), string), "TypeCast")
      \cup Into(Of(Words(<<"case">>), Maybe(Into(Column, "Arg")),
                   Of(when, Maybe(when), After(Maybe(Before(<<"else">>, Into(Column, "Defresult"))), <<"end">>))),
                "CaseExpr")
      \cup UNION {listed(t) : t \in {"coalesce", "greatest"}}
      \cup Into(Before(<<"row">>, Wrapped(Maybe(Listed(Into(Column, "Args"))))), "RowExpr")
      \cup Into(Wrapped(Of(Into(Column, "Args"), Words(<<"comma">>), Into(Number, "Args"))), "RowExpr")
      \cup Into(Before(<<"nullif">>, Wrapped(Of(Into(Column, "Args"), Words(<<"comma">>), Into(Number, "Args")))),
                "NullIfExpr")
      \cup As(Of(Lit({"x"}, "Fields"), Words(<<"dot">>), Lit({"y"}, "Fields")), "ColumnRef", "names")
      \cup UNION {Before(<<t>>, Is("SQLValueFunction", t)) : t \in {"current_date", "session_user"}}
      \cup Of(Words(<<"localtime">>), Wrapped(Lit({"1"}, "Typmod")), Is("SQLValueFunction", "localtime_n"))

Special == Calls \cup SQLFunctions \cup ValueForms
             \cup Into(Into(Of(Column, Words(<<"typecast">>), TypeForms), "TypeName"), "TypeCast")

AllExpressions == WithOne[2][0] \cup WithTwo[0] \cup Chains[0] \cup Special
Selected(A) == Into(Made("SelectStmt", Before(<<"select">>, A)), "ResTarget")
SelectedExpressions == Selected(AllExpressions)
ExpressionTexts == {p.text : p \in SelectedExpressions}

\* An expression is grouped as the declared levels say, whatever operators it
\* is made of, and no operator is lost (parseExprPrec, parseExprSuffix and the
\* parse functions of the operators, parse_expr.go:38-785).
ExpressionsAreGrouped == ParsedAs(SelectedExpressions, ExpressionTexts)
=============================================================================
