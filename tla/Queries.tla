------------------------------- MODULE Queries -------------------------------
(***************************************************************************)
(* parser/parse_select.go as routines of Parser.tla.                       *)
(***************************************************************************)
EXTENDS Primaries

NameList(field) == ListOf(<<Ident(field)>>)
Alias == <<Ident("Aliasname"), IfGot("lparen", NameList("Colnames") \o <<Want("rparen")>>)>>

\* Fault: any name may be an alias.
AliasUnlessNone(stops) == Got("as" :> Alias, <<AtAny(AnyName, Alias)>>)

\* AS alias, or an alias without AS that is not a keyword that may follow
AliasUnless(stops) == Got("as" :> Alias, <<AtAny(AnyName \ stops, Alias)>>)

\* Keywords that are no alias of an expression, and of a table
TargetStops == {"from", "where", "group", "having", "order", "limit", "offset", "fetch", "for",
  "union", "intersect", "except", "into", "window", "on", "join", "inner", "left", "right",
  "full", "cross", "natural", "using", "returning"}
AliasStops == (TargetStops \cup {"set", "tablesample"}) \ {"from"}

ResTarget == <<Got("star" :> <<Set("ResTarget", "star")>>,
  <<Call("Prec0"),
    Got("as" :> <<ColLabel("Name")>>, <<AtAny(AnyName \ TargetStops, <<ColLabel("Name")>>)>>),
    Set("ResTarget", "")>>)>>
TargetList == ListOf(<<Call("ResTarget")>>)
-----------------------------------------------------------------------------
\* Once AS has been taken it may be taken again.
SubselectAlias == <<Got("as" :> <<Opt("as")>> \o Alias, <<AtAny(AnyName, Alias)>>)>>
RangeSubselect(lateral) ==
  Subselect \o <<Want("rparen"), Set("RangeSubselect", lateral)>> \o SubselectAlias

TableSample == <<Ident("Method")>> \o Parens(ExprList("SampleArgs"))
  \o <<IfGot("repeatable", Parens(Expr("Repeatable"))), AliasUnless(AliasStops),
       Set("RangeTableSample", "")>>
Table == RangeVar("Relname") \o <<Got("tablesample" :> TableSample, <<AliasUnless(AliasStops)>>)>>

\* JSON_TABLE or XMLTABLE
FunctionTable(lateral) == [t \in DOMAIN TableFunction |->
  <<Call("Table" \o t), Set(t, lateral)>> \o SubselectAlias]

TablePrimary == <<Got(
  "lparen" :> <<At([t \in SelectStarts \cup {"table"} |-> RangeSubselect("")],
                   <<Call("TableRef"), Want("rparen")>>)>>
  @@ FunctionTable("")
  @@ "lateral" :> <<Got(FunctionTable("lateral") @@ "lparen" :> RangeSubselect("lateral"), Table)>>,
  Table)>>

TableRef == <<Call("TablePrimary"), Call("JoinSuffix")>>
FromClause == ListOf(<<Call("TableRef")>>)

\* A join makes one node of the table before it and the table after it, and is
\* then the table before the next.  NATURAL has no condition.
JoinSuffix ==
  LET word == "join" :> <<>> @@ "inner" :> <<Want("join")>> @@ "cross" :> <<Want("join")>>
        @@ [t \in {"left", "right", "full"} |-> <<Opt("outer"), Want("join")>>]
      type(t) == IF t = "join" THEN "inner" ELSE t
      condition == <<Got("on" :> Expr("Quals") @@ "using" :> Parens(NameList("UsingClause")), <<>>)>>
      join(t, rest) == word[t] \o <<Call("TablePrimary"), Set("JoinExpr", type(t))>> \o rest
                         \o <<Call("JoinSuffix")>>
      joins == [t \in DOMAIN word |-> join(t, IF t = "cross" THEN <<>> ELSE condition)]
      natural == [t \in DOMAIN word |-> join(t, <<Set("IsNatural", "true")>>)]
  IN  <<Got("natural" :> <<Got(natural, <<Fail>>)>> @@ joins, <<>>)>>
-----------------------------------------------------------------------------
GroupByItem ==
  LET set(kind, is) == Parens(is) \o <<Set("GroupingSet", kind)>>
  IN  <<Got("rollup" :> set("ROLLUP", ExprList("Content")) @@ "cube" :> set("CUBE", ExprList("Content"))
            @@ "grouping" :> <<Want("sets")>> \o set("SETS", ListOf(<<Call("GroupByItem"), Set("Content", "")>>))
            @@ "lparen" :> <<Got("rparen" :> <<Set("GroupingSet", "EMPTY")>>,
                 <<Call("Prec0"), Got("comma" :> <<Set("Args", "")>> \o ExprList("Args")
                                        \o <<Want("rparen"), Set("RowExpr", "")>>,
                                      <<Want("rparen")>>)>>)>>,
            <<Call("Prec0")>>)>>
GroupBy == <<Want("by"),
    Got("distinct" :> <<Set("GroupDistinct", "true")>> @@ "all" :> <<>>, <<>>)>>
  \o ListOf(<<Call("GroupByItem"), Set("GroupClause", "")>>)

WindowClause == ListOf(<<Ident("Name"), Want("as"), Call("WindowSpec")>>)

ValuesStmt == ListOf(Parens(ExprList("Values")) \o <<Set("ValuesLists", "")>>)
TableStmt == RangeVar("Relname") \o <<Set("ResTarget", "star")>>

\* The tokens after SELECT that begin no target
NoTargets == {"from", "into", "where", "group", "having", "window", "order", "limit", "offset",
  "fetch", "for", "union", "intersect", "except", "semi", "rparen", "EOF"}

SimpleSelect == <<Mark, Got(
  "lparen" :> <<Call("SelectStmt"), Want("rparen")>>
  @@ "values" :> ValuesStmt @@ "table" :> TableStmt,
  <<Want("select"),
    Got("distinct" :> <<Got("on" :> Parens(ExprList("DistinctClause")),
                            <<Set("DistinctClause", "all")>>)>> @@ "all" :> <<>>, <<>>),
    At([t \in NoTargets |-> <<>>], TargetList),
    IfGot("into", RangeVar("IntoClause")),
    IfGot("from", FromClause),
    IfGot("where", Expr("WhereClause")),
    IfGot("group", GroupBy),
    IfGot("having", Expr("HavingClause")),
    IfGot("window", WindowClause)>>)>>
-----------------------------------------------------------------------------
\* UNION, INTERSECT and EXCEPT, at one level; the node is placed at the word.
SetOps == <<At([t \in {"union", "intersect", "except"} |->
  <<Mark, Skip,
    Got("all" :> <<Inner("SimpleSelect"), Set(t, "all")>>,
        <<Opt("distinct"), Inner("SimpleSelect"), Set(t, "")>>),
    Call("SetOps")>>], <<>>)>>

Rows == <<Opt("row"), Opt("rows")>>
LimitOffset == <<While(
  "limit" :> <<Got("all" :> <<>>, Expr("LimitCount"))>>
  @@ "offset" :> Expr("LimitOffset") \o Rows
  @@ "fetch" :> <<Opt("first"), Opt("next"),
       At([t \in IntConsts \cup Floats |-> Expr("LimitCount")],
          <<Set("A_Const", "1"), Set("LimitCount", "")>>)>> \o Rows \o <<Opt("only")>>)>>

ForLocking == <<While("for" :> <<
  Got("update" :> <<Set("LockingClause", "UPDATE")>> @@ "share" :> <<Set("LockingClause", "SHARE")>>
      @@ "no" :> <<Want("key"), Want("update"), Set("LockingClause", "NO_KEY_UPDATE")>>
      @@ "key" :> <<Want("share"), Set("LockingClause", "KEY_SHARE")>>, <<Fail>>),
  IfGot("of", ListOf(RangeVar("LockedRels"))),
  Got("nowait" :> <<Set("WaitPolicy", "ERROR")>>
      @@ "skip" :> <<Want("locked"), Set("WaitPolicy", "SKIP")>>, <<>>)>>)>>

\* The clauses after a parenthesized select are set on the select inside.
SelectStmt == <<Call("SimpleSelect"), Call("SetOps"), OrderBy>> \o LimitOffset \o ForLocking

CTE == <<Ident("Ctename"), IfGot("lparen", NameList("Aliascolnames") \o <<Want("rparen")>>),
    Want("as"),
    Got("materialized" :> <<Set("CTEMaterialized", "always")>>
        @@ "not" :> <<Want("materialized"), Set("CTEMaterialized", "never")>>, <<>>)>>
  \o Parens(Subselect) \o <<Set("CommonTableExpr", "")>>
WithClause == <<IfGot("recursive", <<Set("Recursive", "true")>>)>> \o ListOf(CTE)

QueryRoutines ==
  "SelectStmt" :> SelectStmt @@ "SimpleSelect" :> SimpleSelect @@ "SetOps" :> SetOps
  @@ "TableRef" :> TableRef @@ "TablePrimary" :> TablePrimary @@ "JoinSuffix" :> JoinSuffix
  @@ "GroupByItem" :> GroupByItem @@ "ResTarget" :> ResTarget
  @@ ExprRoutines
=============================================================================
