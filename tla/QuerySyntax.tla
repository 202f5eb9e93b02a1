----------------------------- MODULE QuerySyntax -----------------------------
(***************************************************************************)
(* The syntax of queries and changes, as the comments above the parse      *)
(* functions give it, with the nodes that it stands for.                   *)
(***************************************************************************)
EXTENDS ExpressionSyntax

X == Column
Sum == As(Of(X, Words(<<"plus">>), Number), "A_Expr", "plus")
Clause(w, A, field) == Maybe(Into(Before(w, A), field))
Target == Into(X, "ResTarget") \cup Into(Of(Sum, Words(<<"as">>), Name("Name")), "ResTarget")
            \cup Then(Words(<<"star">>), Is("ResTarget", "star"))
Simple(A) == Into(Before(<<"select">>, A), "ResTarget")
-----------------------------------------------------------------------------
\* parse_select.go:355, 361 and 433: table references; a chain of joins is
\* grouped from the left.
Named(t) == {Phrase(<<t>>, <<<<"Relname", t>>>>)}
Subselected == Into(Wrapped(Simple(X)), "RangeSubselect")
TablePrimaries ==
  Named("x") \cup Of(Named("x"), Optional("as"), Lit({"y"}, "Aliasname"))
  \cup Then(Subselected, Lit({"y"}, "Aliasname"))
  \cup Of(Words(<<"lateral">>), As(Wrapped(Simple(X)), "RangeSubselect", "lateral"),
          Lit({"y"}, "Aliasname"))

\* The joins of what is in A with what is in B
Joins(A, B) ==
  LET join(w, kind, after) == Then(As(Of(A, Words(w), B), "JoinExpr", kind), after)
      condition == Into(Before(<<"on">>, X), "Quals")
                     \cup Before(<<"using">>, Wrapped(Lit({"y"}, "UsingClause")))
      natural(w, kind) == join(w, kind, Is("IsNatural", "true"))
  IN  join(<<"join">>, "inner", condition) \cup join(<<"left", "join">>, "left", condition)
      \cup join(<<"full", "outer", "join">>, "full", condition)
      \cup join(<<"cross", "join">>, "cross", Words(<<>>))
      \cup natural(<<"natural", "join">>, "inner") \cup natural(<<"natural", "left", "join">>, "left")

Joined == Joins(TablePrimaries, Named("y")) \cup Joins(Named("x"), TablePrimaries)
Tables ==
  TablePrimaries \cup Joined \cup Joins(Joins(Named("x"), Named("y")), Named("x"))
  \cup Joins(Named("x"), Wrapped(Joins(Named("y"), Named("x"))))
  \cup Of(TablePrimaries, Words(<<"comma">>), Joins(Named("x"), Named("y")))
-----------------------------------------------------------------------------
\* parse_select.go:3-36, 131, 164 and 184
Grouped ==
  LET of(kind, A) == As(Wrapped(A), "GroupingSet", kind)
      item == X \cup Before(<<"rollup">>, of("ROLLUP", Listed(Into(X, "Content"))))
                \cup Before(<<"lparen", "rparen">>, Is("GroupingSet", "EMPTY"))
      sets == Before(<<"grouping", "sets">>, of("SETS", Listed(Into(item, "Content"))))
  IN  Into(item \cup sets, "GroupClause")

EndClauses ==
  LET sorted == Into(X, "SortBy")
      sort == Then(sorted, Maybe(Then(Words(<<"desc">>), Is("SortbyDir", "DESC"))))
      nulls == Maybe(Then(Words(<<"nulls", "last">>), Is("SortbyNulls", "LAST")))
      order == Maybe(Before(<<"order", "by">>, Then(sort, nulls)))
      limit == Into(Before(<<"limit">>, Number), "LimitCount")
      offset == Into(Before(<<"offset">>, Number), "LimitOffset")
      fetch == Into(Of(Words(<<"fetch", "first">>), Number, Words(<<"rows", "only">>)), "LimitCount")
      lock == Before(<<"for", "update">>, Is("LockingClause", "UPDATE"))
                \cup Then(Before(<<"for", "no", "key", "update">>, Is("LockingClause", "NO_KEY_UPDATE")),
                          Before(<<"skip", "locked">>, Is("WaitPolicy", "SKIP")))
  IN  Of(order, Maybe(limit \cup Then(limit, offset) \cup Then(offset, limit \cup fetch)), Maybe(lock))

Clauses ==
  LET where == Clause(<<"where">>, Sum, "WhereClause")
      having == Clause(<<"having">>, X, "HavingClause")
      group(A) == Maybe(Before(<<"group", "by">>, A))
  IN  Of(where, group(Grouped), having)
      \cup Of(where, group(Into(X, "GroupClause")), EndClauses)
From(A) == Before(<<"from">>, A)
Distinct == Words(<<>>) \cup Words(<<"all">>)
  \cup Then(Words(<<"distinct">>), Is("DistinctClause", "all"))
  \cup Before(<<"distinct", "on">>, Wrapped(Into(X, "DistinctClause")))

\* SELECT with all its clauses, with every table reference, with every target
SelectQueries ==
  Of(Simple(X), From(Named("x")), Clauses)
  \cup Then(Simple(X), From(Tables))
  \cup Of(Words(<<"select">>), Distinct, Of(Listed(Target), Maybe(From(Named("x"))), Words(<<>>)))
  \cup Before(<<"select">>, Maybe(From(Named("x"))))

Row == Wrapped(Listed(Into(X, "Values")))
Values == Before(<<"values">>, Listed(Into(Row, "ValuesLists")))
SetOperand == Simple(X) \cup Wrapped(Then(Simple(Sum), Into(Before(<<"limit">>, Number), "LimitCount")))

\* UNION and EXCEPT are grouped from the left.
SetOf(A, B) ==
  As(Of(A, Words(<<"union">>), B), "union", "") \cup As(Of(A, Words(<<"except", "all">>), B), "except", "all")
Combined == SetOf(SetOf(SetOperand, Simple(X)), SetOperand) \cup SetOf(Simple(X), Wrapped(SetOf(Simple(X), Simple(X))))

\* A query in an expression
Nested ==
  LET in == Wrapped(Then(Simple(X), Maybe(From(Named("x")))))
  IN  Simple(Into(in, "EXPR_SUBLINK") \cup Into(Before(<<"exists">>, in), "EXISTS_SUBLINK")
             \cup As(Of(X, Words(<<"not", "in">>), in), "ALL_SUBLINK", "eq")
             \cup As(Of(X, Words(<<"eq", "some">>), in), "ANY_SUBLINK", "eq")
             \cup Into(Before(<<"array">>, in), "ARRAY_SUBLINK"))

AnyQuery == SelectQueries \cup Values \cup Combined \cup Nested
WholeTable == Then(Of(Words(<<"table">>), Lit({"x"}, "Relname"), Words(<<>>)), Is("ResTarget", "star"))
SelectSyntax == Made("SelectStmt", AnyQuery \cup Then(SetOf(Simple(X), Simple(X)), EndClauses) \cup WholeTable)
-----------------------------------------------------------------------------
\* parse_dml.go:5, 160 and 251
Returned == Maybe(Before(<<"returning">>, Into(X, "ResTarget")))
Filtered == Clause(<<"where">>, X, "WhereClause")
Sets ==
  LET one == Into(Of(Name("Name"), Words(<<"eq">>), Into(Sum, "Val")), "ResTarget")
      part == Into(Of(Then(Name("Name"), Before(<<"dot">>, Name("Indirection"))),
                      Words(<<"eq", "default">>), Words(<<>>)), "ResTarget")
  IN  Before(<<"set">>, Listed(one) \cup part)
Relation(w) == Of(Words(w), Lit({"x"}, "Relation"),
                  Maybe(Then(Optional("as"), Lit({"y"}, "Aliasname"))))

InsertSyntax ==
  LET source == Into(Values \cup SetOf(Simple(X), SetOperand), "SelectStmt") \cup Words(<<"default", "values">>)
      override == Maybe(Of(Words(<<"overriding", "user">>), Is("Override", "USER"), Words(<<"value">>)))
      columns == Maybe(Wrapped(Listed(Lit({"y"}, "Cols"))))
      infer == Maybe(Then(Wrapped(Name("IndexElems")), Clause(<<"where">>, X, "InferWhere"))
                     \cup Before(<<"on", "constraint">>, Name("Conname")))
      act == Before(<<"do", "nothing">>, Is("Action", "NOTHING"))
               \cup Of(Before(<<"do", "update">>, Is("Action", "UPDATE")), Sets, Filtered)
      one == Into(Before(<<"values">>, Into(Wrapped(Into(X, "Values")), "ValuesLists")), "SelectStmt")
  IN  Made("InsertStmt",
        Of(Before(<<"insert", "into">>, Lit({"x"}, "Relation")), Of(columns, override, source), Returned)
        \cup Of(Then(Relation(<<"insert", "into">>), one),
                Of(Words(<<"on", "conflict">>), infer, act), Returned))

UpdateSyntax == Made("UpdateStmt",
  Of(Relation(<<"update">>), Sets, Of(Maybe(From(TablePrimaries)), Filtered, Returned)))
DeleteSyntax == Made("DeleteStmt",
  Of(Relation(<<"delete", "from">>), Maybe(Before(<<"using">>, TablePrimaries)), Then(Filtered, Returned)))

\* parse_merge.go:3-8, 50 and 112-115
MergeSyntax ==
  LET kind(w, k) == Before(<<"when">> \o w, Is("MatchKind", k))
      kinds == kind(<<"matched">>, "MATCHED")
        \cup kind(<<"not", "matched">>, "NOT_MATCHED_BY_TARGET")
        \cup kind(<<"not", "matched", "by", "source">>, "NOT_MATCHED_BY_SOURCE")
      type(w, c) == Before(w, Is("CommandType", c))
      insert == Then(type(<<"insert">>, "INSERT"),
        Words(<<"default", "values">>)
        \cup Of(Maybe(Wrapped(Name("Cols"))), Words(<<"values">>), Row))
      then == Before(<<"then">>, type(<<"delete">>, "DELETE") \cup insert
        \cup type(<<"do", "nothing">>, "NOTHING")
        \cup {Phrase(<<"update">> \o p.text, <<<<"CommandType", "UPDATE">>>> \o p.tree) : p \in Sets})
      when == Of(kinds, Clause(<<"and">>, X, "Condition"), then)
      on == Then(Relation(<<"merge", "into">>), Before(<<"using">>,
              Of(TablePrimaries, Words(<<"on">>), Into(Sum, "JoinCondition"))))
      one == Of(kind(<<"matched">>, "MATCHED"), Words(<<"then">>), type(<<"delete">>, "DELETE"))
  IN  Made("MergeStmt", Of(on, one, Maybe(one)) \cup Of(Before(<<"merge", "into">>,
        Of(Lit({"x"}, "Relation"), Words(<<"using">>), Of(Named("y"), Words(<<"on">>),
           Into(X, "JoinCondition")))), when, Returned))
-----------------------------------------------------------------------------
\* parse_txn.go:362 and 396, parse_cursor.go:3, parse_ddl2.go:720, parse_utility.go:129,
\* parse_func.go:234 and 261, parser.go:381
ArgType == Into(Before(<<"int">>, Is("Names", "int4")), "TypeName")
          \cup Into(Then(Name("Names"), Wrapped(Into(Number, "Typmods"))), "TypeName")
MiniUpdate == Made("UpdateStmt", Of(Words(<<"update">>), Lit({"x"}, "Relation"),
  Before(<<"set">>, Into(Of(Name("Name"), Words(<<"eq">>), Into(X, "Val")), "ResTarget"))))
HolderSyntax ==
  LET query == Simple(X) \cup Combined
      some == Made("SelectStmt", Simple(X))
      option(w, o) == Maybe(Before(w, Is("Options", o)))
      file == Lit({"'s'"}, "Filename") \cup Words(<<"stdin">>)
  IN  Made("PrepareStmt", Of(Before(<<"prepare">>, Name("Name")),
        Maybe(Wrapped(Listed(Into(ArgType, "Argtypes")))), Before(<<"as">>, some \cup MiniUpdate)))
      \cup Made("ExecuteStmt", Then(Before(<<"execute">>, Name("Name")),
             Maybe(Wrapped(Listed(Into(Sum, "Params"))))))
      \cup Made("DeclareCursorStmt", Of(Before(<<"declare">>, Name("Portalname")),
             Of(option(<<"no", "scroll">>, "NO_SCROLL"), Words(<<"cursor">>),
                option(<<"with", "hold">>, "HOLD")), Before(<<"for">>, query)))
      \cup Made("CopyStmt",
             Of(Before(<<"copy">>, Lit({"x"}, "Relation")), Before(<<"from">>, Is("IsFrom", "true")),
                Then(file, Filtered))
             \cup Of(Before(<<"copy">>, Wrapped(query)), Words(<<"to">>), file))
      \cup Made("TruncateStmt", Of(Before(<<"truncate">>, Optional("table")), Listed(Name("Relations")),
             Then(Maybe(Before(<<"restart", "identity">>, Is("RestartSeqs", "true"))),
                  Optional("restrict") \cup Before(<<"cascade">>, Is("Behavior", "CASCADE")))))
      \cup Made("DoStmt", Then(Before(<<"do">>, Lit({"'s'"}, "Args")),
             Maybe(Before(<<"language">>, Name("Language")))))
      \cup Made("CallStmt", Then(Before(<<"call">>, Name("Funcname")),
             Wrapped(Maybe(Listed(Into(X, "Args"))))))

WithSyntax ==
  LET cte == Into(Of(Name("Ctename"), Maybe(Wrapped(Lit({"y"}, "Aliascolnames"))),
                     Of(Words(<<"as">>), Maybe(Before(<<"not", "materialized">>, Is("CTEMaterialized", "never"))),
                        Wrapped(Simple(X)))), "CommonTableExpr")
      recursive == Maybe(Before(<<"recursive">>, Is("Recursive", "true")))
  IN  Of(Words(<<"with">>), Then(recursive, Listed(cte)), Made("SelectStmt", Simple(X)) \cup MiniUpdate)

AllSyntax == SelectSyntax \cup InsertSyntax \cup UpdateSyntax \cup DeleteSyntax \cup MergeSyntax
  \cup HolderSyntax \cup WithSyntax
SyntaxTexts == {p.text : p \in AllSyntax}

\* A query or a change is parsed into the clauses it is made of, joins and set
\* operations grouped from the left; none of its clauses is dropped or taken for
\* another, whichever of them are left out, and a query inside it adds nothing
\* but its own node (parse_select.go, parse_dml.go, parse_merge.go, parseStmt
\* and parseWithStmt).
QueriesAreParsed == ParsedAs(AllSyntax, SyntaxTexts)
=============================================================================
