------------------------------- MODULE Deparser -------------------------------
(***************************************************************************)
(* parser/deparse.go, deparse_expr.go and deparse_stmt.go: the text that   *)
(* is written for a node.  A node is a function from the names of its      *)
(* fields, in nodes.go, and "type"; a field that is nil, zero or empty is  *)
(* left out.  A text is the sequence of tokens that the scanner finds in   *)
(* what is written.                                                        *)
(***************************************************************************)
EXTENDS Naturals, Sequences, TLC
LOCAL INSTANCE SequencesExt

CONSTANTS
  Unquoted,     \* the names that need quotes, each with what it is read as without
  Reprefixed    \* the bit strings, each with what is written for it

\* deparseNode and deparseExpr call each other.  deparseNode leaves an expression to
\* deparseExpr, so one recursion stands for both: what a node is given as an expression
\* is written by DeparseNode too.
RECURSIVE DeparseNode(_)

Has(n, f) == f \in DOMAIN n
When(c, t) == IF c THEN t ELSE <<>>
Separated(texts, w) ==
  When(texts # <<>>, FoldLeft(LAMBDA all, t : all \o w \o t, Head(texts), Tail(texts)))
Commas(W(_), s) == Separated([k \in DOMAIN s |-> W(s[k])], <<"comma">>)
Dots(W(_), s) == Separated([k \in DOMAIN s |-> W(s[k])], <<"dot">>)
Enclosed(t) == <<"lparen">> \o t \o <<"rparen">>

\* The field f of n after the words w, if it is there
Given(n, f, w, W(_)) == IF Has(n, f) THEN w \o W(n[f]) ELSE <<>>
GivenList(n, f, w, W(_)) == IF Has(n, f) THEN w \o Commas(W, n[f]) ELSE <<>>
Flagged(n, f, w) == When(Has(n, f), w)

\* Names are written as they are, without quotes.
Raw(name) == <<IF name \in DOMAIN Unquoted THEN Unquoted[name] ELSE name>>
RawNames(n, f) == IF Has(n, f) THEN Enclosed(Commas(Raw, n[f])) ELSE <<>>
DeparseExprList(s) == Commas(DeparseNode, s)
-----------------------------------------------------------------------------
(***************************************************************************)
(* deparse_expr.go                                                         *)
(***************************************************************************)
\* A string is written between quotes, with the quotes in it doubled, and a number as
\* it is.  A bit string is kept with the letter before its quote, and is written with
\* another.  (A hex string is stored as a string whose text begins with x, and written
\* as that string: no token stands for one here.)
DeparseConst(v) == <<IF v \in DOMAIN Reprefixed THEN Reprefixed[v] ELSE v>>

DeparseColumnRef(e) == Dots(Raw, e.Fields)

\* No space stands between a prefix operator and its operand: two signs begin a
\* comment, and other operators that meet are read as one.
Glued(op, t) ==
  IF t = <<>> \/ Head(t) \notin {"minus", "op"} THEN <<op>> \o t
  ELSE IF op = "minus" /\ Head(t) = "minus" THEN <<"comment">> \o t
  ELSE <<"op">> \o Tail(t)

DeparseBounds(bounds) ==
  DeparseNode(bounds.Items[1]) \o <<"and">> \o DeparseNode(bounds.Items[2])

\* The words between the operands, by the kind and the name of the operator
DeparseAExpr(e) ==
  LET infix(w) == DeparseNode(e.Lexpr) \o w \o DeparseNode(e.Rexpr)
      enclosed(w) == DeparseNode(e.Lexpr) \o w \o Enclosed(DeparseNode(e.Rexpr))
      negated(no, w) == infix(When(e.Name = no, <<"not">>) \o w)
      between(w) == DeparseNode(e.Lexpr) \o w \o DeparseBounds(e.Rexpr)
  IN  CASE e.Kind = "OP" /\ ~Has(e, "Lexpr") -> Glued(e.Name, DeparseNode(e.Rexpr))
        [] e.Kind = "OP" /\ Has(e, "Lexpr") -> infix(<<e.Name>>)
        [] e.Kind = "OP_ANY" -> enclosed(<<e.Name, "any">>)
        [] e.Kind = "OP_ALL" -> enclosed(<<e.Name, "all">>)
        [] e.Kind = "DISTINCT" -> infix(<<"is", "distinct", "from">>)
        [] e.Kind = "NOT_DISTINCT" -> infix(<<"is", "not", "distinct", "from">>)
        [] e.Kind = "IN" -> enclosed(When(e.Name = "<>", <<"not">>) \o <<"in">>)
        [] e.Kind = "LIKE" -> negated("!~~", <<"like">>)
        [] e.Kind = "ILIKE" -> negated("!~~*", <<"ilike">>)
        [] e.Kind = "SIMILAR" -> negated("!~", <<"similar", "to">>)
        [] e.Kind = "BETWEEN" -> between(<<"between">>)
        [] e.Kind = "NOT_BETWEEN" -> between(<<"not", "between">>)
        [] e.Kind = "BETWEEN_SYM" -> between(<<"between", "symmetric">>)
        [] e.Kind = "NOT_BETWEEN_SYM" -> between(<<"not", "between", "symmetric">>)

\* Fault: an OR under an AND is written without parentheses.
ParensNever(e, op) == FALSE

\* Only logical operators are put in parentheses, and only under others.
NeedParen(e, op) ==
  /\ e.type = "BoolExpr"
  /\ op = "and" => e.Op = "or"
  /\ op = "or" => e.Op = "and"
DeparseBoolExpr(e) ==
  LET arg(a) == IF NeedParen(a, e.Op) THEN Enclosed(DeparseNode(a)) ELSE DeparseNode(a)
  IN  IF e.Op = "not" THEN <<"not">> \o arg(e.Args[1])
      ELSE Separated([k \in DOMAIN e.Args |-> arg(e.Args[k])], <<e.Op>>)

\* The names of pg_catalog back to SQL; the words of a time zone come before the
\* typmods, and those of an interval are not written.
SQLNames == "int4" :> <<"integer">> @@ "int2" :> <<"smallint">> @@ "int8" :> <<"bigint">>
  @@ "float4" :> <<"real">> @@ "float8" :> <<"double", "precision">>
  @@ "bool" :> <<"boolean">> @@ "bpchar" :> <<"char">> @@ "varbit" :> <<"bit", "varying">>
  @@ "timestamptz" :> <<"timestamp", "with", "time", "zone">>
  @@ "timetz" :> <<"time", "with", "time", "zone">>
TypeNameToSQL(names) ==
  IF Len(names) # 2 \/ names[1] # "pg_catalog" THEN Dots(Raw, names)
  ELSE IF names[2] \in DOMAIN SQLNames THEN SQLNames[names[2]] ELSE <<names[2]>>
DeparseTypeName(t) ==
  LET name == TypeNameToSQL(t.Names)
      brackets == [k \in DOMAIN t.ArrayBounds |-> <<"lbracket", "rbracket">>]
  IN  Flagged(t, "Setof", <<"setof">>) \o name
      \o (IF Has(t, "Typmods") /\ name # <<"interval">> THEN Enclosed(DeparseExprList(t.Typmods)) ELSE <<>>)
      \o (IF Has(t, "ArrayBounds") THEN Separated(brackets, <<>>) ELSE <<>>)
DeparseTypeCast(e) == DeparseNode(e.Arg) \o <<"typecast">> \o DeparseTypeName(e.TypeName)

DeparseSortBy(s) ==
  DeparseNode(s.Node) \o Given(s, "SortbyDir", <<>>, LAMBDA d : <<d>>)
  \o Given(s, "SortbyNulls", <<"nulls">>, LAMBDA d : <<d>>)

\* A window that is only a name is written without parentheses; the frame is not
\* written.
DeparseWindowDef(w) ==
  IF Has(w, "Refname") /\ ~Has(w, "PartitionClause") /\ ~Has(w, "OrderClause") THEN Raw(w.Refname)
  ELSE Enclosed(Given(w, "Refname", <<>>, Raw)
         \o GivenList(w, "PartitionClause", <<"partition", "by">>, DeparseNode)
         \o GivenList(w, "OrderClause", <<"order", "by">>, DeparseSortBy))

DeparseFuncCall(f) ==
  LET last == Len(f.Args)
      arg(k) == When(Has(f, "FuncVariadic") /\ k = last, <<"variadic">>) \o DeparseNode(f.Args[k])
      args == IF Has(f, "Args") THEN Separated([k \in DOMAIN f.Args |-> arg(k)], <<"comma">>) ELSE <<>>
  IN  Dots(Raw, f.Funcname)
      \o Enclosed(IF Has(f, "AggStar") THEN <<"star">>
                  ELSE Flagged(f, "AggDistinct", <<"distinct">>) \o args
                       \o GivenList(f, "AggOrder", <<"order", "by">>, DeparseSortBy))
      \o Given(f, "AggFilter", <<"filter">>, LAMBDA c : Enclosed(<<"where">> \o DeparseNode(c)))
      \o Given(f, "AggWithinGroup", <<"within", "group">>,
               LAMBDA s : Enclosed(<<"order", "by">> \o Commas(DeparseSortBy, s)))
      \o Given(f, "Over", <<"over">>, DeparseWindowDef)

DeparseSubLink(s) ==
  LET query == Enclosed(DeparseNode(s.Subselect))
      tested(w) == DeparseNode(s.Testexpr) \o <<s.OperName, w>> \o query
  IN  CASE s.SubLinkType = "EXISTS" -> <<"exists">> \o query
        [] s.SubLinkType = "ANY" -> tested("any")
        [] s.SubLinkType = "ALL" -> tested("all")
        [] s.SubLinkType = "ARRAY" -> <<"array">> \o query
        [] s.SubLinkType = "EXPR" -> query

DeparseCaseExpr(e) ==
  LET branch(w) == <<"when">> \o DeparseNode(w.Expr) \o <<"then">> \o DeparseNode(w.Result)
  IN  <<"case">> \o Given(e, "Arg", <<>>, DeparseNode)
      \o Separated([k \in DOMAIN e.Args |-> branch(e.Args[k])], <<>>)
      \o Given(e, "Defresult", <<"else">>, DeparseNode) \o <<"end">>

DeparseIndirection(e) ==
  LET one(n) == IF n.type = "String" THEN <<"dot">> \o Raw(n.Str)
                ELSE <<"lbracket">> \o Given(n, "Lidx", <<>>, DeparseNode) \o Flagged(n, "IsSlice", <<"colon">>)
                     \o Given(n, "Uidx", <<>>, DeparseNode) \o <<"rbracket">>
  IN  DeparseNode(e.Arg) \o Separated([k \in DOMAIN e.Indirection |-> one(e.Indirection[k])], <<>>)

\* A node of any other type is written as a comment.
DeparseExpr(e) ==
  LET call(w) == <<w>> \o Enclosed(DeparseExprList(e.Args))
  IN  CASE e.type = "A_Const" -> DeparseConst(e.Val)
        [] e.type = "ColumnRef" -> DeparseColumnRef(e)
        [] e.type = "A_Expr" -> DeparseAExpr(e)
        [] e.type = "BoolExpr" -> DeparseBoolExpr(e)
        [] e.type = "TypeCast" -> DeparseTypeCast(e)
        [] e.type = "FuncCall" -> DeparseFuncCall(e)
        [] e.type = "SubLink" -> DeparseSubLink(e)
        [] e.type \in {"NullTest", "BooleanTest"} ->
             DeparseNode(e.Arg) \o <<"is">> \o Flagged(e, "Not", <<"not">>) \o <<e.Test>>
        [] e.type = "CaseExpr" -> DeparseCaseExpr(e)
        [] e.type = "CoalesceExpr" -> call("coalesce")
        [] e.type = "NullIfExpr" -> call("nullif")
        [] e.type = "MinMaxExpr" -> call(e.Op)
        [] e.type = "RowExpr" -> IF Has(e, "Args") THEN call("row") ELSE <<"row", "lparen", "rparen">>
        [] e.type = "A_ArrayExpr" -> <<"array", "lbracket">> \o DeparseExprList(e.Elements) \o <<"rbracket">>
        [] e.type = "SQLValueFunction" -> <<e.Op>> \o Given(e, "Typmod", <<>>, LAMBDA n : Enclosed(<<n>>))
        [] e.type = "A_Indirection" -> DeparseIndirection(e)
        [] e.type = "CollateClause" -> DeparseNode(e.Arg) \o <<"collate">> \o Dots(Raw, e.Collname)
        [] e.type = "ParamRef" -> <<"param">>
        [] e.type = "NamedArgExpr" -> Raw(e.Name) \o <<"equals_greater">> \o DeparseNode(e.Arg)
        [] e.type = "ExprList" -> DeparseExprList(e.Items)
        [] e.type = "RangeVar" -> DeparseNode(e)
        [] OTHER -> <<>>
-----------------------------------------------------------------------------
(***************************************************************************)
(* deparse_stmt.go: queries                                                *)
(***************************************************************************)
DeparseLockingClause(c) ==
  LET words == "UPDATE" :> <<"update">> @@ "NO_KEY_UPDATE" :> <<"no", "key", "update">>
        @@ "SHARE" :> <<"share">> @@ "KEY_SHARE" :> <<"key", "share">>
  IN  <<"for">> \o words[c.Strength] \o GivenList(c, "LockedRels", <<"of">>, DeparseNode)
DeparseSortLimitLocking(s) ==
  GivenList(s, "SortClause", <<"order", "by">>, DeparseSortBy)
  \o Given(s, "LimitCount", <<"limit">>, DeparseNode) \o Given(s, "LimitOffset", <<"offset">>, DeparseNode)
  \o Given(s, "LockingClause", <<>>,
           LAMBDA cs : Separated([k \in DOMAIN cs |-> DeparseLockingClause(cs[k])], <<>>))

DeparseResTarget(r) == DeparseNode(r.Val) \o Given(r, "Name", <<"as">>, Raw)

DeparseWithClause(w) ==
  LET way == "always" :> <<"materialized">> @@ "never" :> <<"not", "materialized">>
      cte(c) == Raw(c.Ctename) \o RawNames(c, "Aliascolnames") \o <<"as">>
                \o Given(c, "CTEMaterialized", <<>>, LAMBDA m : way[m]) \o Enclosed(DeparseNode(c.Ctequery))
  IN  <<"with">> \o Flagged(w, "Recursive", <<"recursive">>) \o Commas(cte, w.CTEs)

\* An alias, and the names it gives the columns
DeparseAlias(a) == Raw(a.Aliasname) \o RawNames(a, "Colnames")
DeparseRangeVar(r) ==
  Given(r, "Schemaname", <<>>, LAMBDA n : Append(Raw(n), "dot")) \o Raw(r.Relname)
  \o Given(r, "Alias", <<>>, DeparseAlias)

DeparseJoinExpr(j) ==
  LET conditioned == Has(j, "Quals") \/ Has(j, "UsingClause") \/ Has(j, "IsNatural")
      kind == IF j.Jointype # "inner" THEN <<j.Jointype>> ELSE When(~conditioned, <<"cross">>)
  IN  DeparseNode(j.Larg) \o Flagged(j, "IsNatural", <<"natural">>) \o kind \o <<"join">>
      \o DeparseNode(j.Rarg) \o Given(j, "Quals", <<"on">>, DeparseNode)
      \o When(Has(j, "UsingClause"), <<"using">>) \o RawNames(j, "UsingClause")
      \o Given(j, "Alias", <<>>, LAMBDA a : Raw(a.Aliasname))

DeparseRangeSubselect(r) ==
  Flagged(r, "Lateral", <<"lateral">>) \o Enclosed(DeparseNode(r.Subquery)) \o Given(r, "Alias", <<>>, DeparseAlias)

\* The operands of a set operation are written without parentheses; they and
\* VALUES without WITH.
DeparseSelect(s) ==
  LET distinct(on) == <<"distinct">>
        \o (IF on = <<>> THEN <<>> ELSE <<"on">> \o Enclosed(DeparseExprList(on)))
      window(w) == Raw(w.Name) \o <<"as">> \o DeparseWindowDef(w)
  IN  (IF Has(s, "Op") THEN
         DeparseNode(s.Larg) \o <<s.Op>> \o Flagged(s, "All", <<"all">>) \o DeparseNode(s.Rarg)
       ELSE IF Has(s, "ValuesLists") THEN
         <<"values">> \o Commas(LAMBDA row : Enclosed(DeparseExprList(row)), s.ValuesLists)
       ELSE
         Given(s, "WithClause", <<>>, DeparseWithClause) \o <<"select">> \o Given(s, "DistinctClause", <<>>, distinct)
         \o GivenList(s, "TargetList", <<>>, DeparseResTarget) \o GivenList(s, "FromClause", <<"from">>, DeparseNode)
         \o Given(s, "WhereClause", <<"where">>, DeparseNode)
         \o GivenList(s, "GroupClause", <<"group", "by">> \o Flagged(s, "GroupDistinct", <<"distinct">>), DeparseNode)
         \o Given(s, "HavingClause", <<"having">>, DeparseNode) \o GivenList(s, "WindowClause", <<"window">>, window))
      \o DeparseSortLimitLocking(s)
-----------------------------------------------------------------------------
(***************************************************************************)
(* deparse_stmt.go: changes                                                *)
(***************************************************************************)
DeparseSet(r) == Raw(r.Name) \o <<"eq">> \o Given(r, "Val", <<>>, DeparseNode)
DeparseReturning(s) == GivenList(s, "ReturningList", <<"returning">>, DeparseResTarget)
DeparseWhere(s) == Given(s, "WhereClause", <<"where">>, DeparseNode)

\* The condition of the arbiter is not written.
DeparseOnConflict(c) ==
  LET infer(o) == IF Has(o, "Conname") THEN <<"on", "constraint">> \o Raw(o.Conname) ELSE RawNames(o, "IndexElems")
  IN  <<"on", "conflict">> \o Given(c, "Infer", <<>>, infer)
      \o (IF c.Action = "NOTHING" THEN <<"do", "nothing">>
          ELSE <<"do", "update", "set">> \o Commas(DeparseSet, c.TargetList) \o DeparseWhere(c))

DeparseInsert(s) ==
  Given(s, "WithClause", <<>>, DeparseWithClause) \o <<"insert", "into">> \o DeparseRangeVar(s.Relation)
  \o (IF Has(s, "Cols") THEN Enclosed(Commas(LAMBDA r : Raw(r.Name), s.Cols)) ELSE <<>>)
  \o (IF Has(s, "SelectStmt") THEN DeparseNode(s.SelectStmt) ELSE <<"default", "values">>)
  \o Given(s, "OnConflict", <<>>, DeparseOnConflict) \o DeparseReturning(s)

DeparseUpdate(s) ==
  Given(s, "WithClause", <<>>, DeparseWithClause) \o <<"update">> \o DeparseRangeVar(s.Relation)
  \o <<"set">> \o Commas(DeparseSet, s.TargetList) \o GivenList(s, "FromClause", <<"from">>, DeparseNode)
  \o DeparseWhere(s) \o DeparseReturning(s)

DeparseDelete(s) ==
  Given(s, "WithClause", <<>>, DeparseWithClause) \o <<"delete", "from">> \o DeparseRangeVar(s.Relation)
  \o GivenList(s, "UsingClause", <<"using">>, DeparseNode) \o DeparseWhere(s) \o DeparseReturning(s)
-----------------------------------------------------------------------------
(***************************************************************************)
(* deparse_stmt.go: definitions                                            *)
(***************************************************************************)
DeparsePartitionBoundSpec(b) ==
  IF Has(b, "IsDefault") THEN <<"default">>
  ELSE <<"for", "values">>
       \o (IF b.Strategy = "list" THEN <<"in">> \o Enclosed(DeparseExprList(b.ListValues))
           ELSE <<"from">> \o Enclosed(DeparseExprList(b.LowerBound))
                \o <<"to">> \o Enclosed(DeparseExprList(b.UpperBound)))

DeparsePartitionSpec(p) ==
  LET elem(e) == (IF Has(e, "Expr") THEN Enclosed(DeparseNode(e.Expr)) ELSE Raw(e.Name))
        \o Given(e, "Collation", <<"collate">>, LAMBDA n : Dots(Raw, n))
        \o Given(e, "OpClass", <<>>, LAMBDA n : Dots(Raw, n))
  IN  <<"partition", "by", p.Strategy>> \o Enclosed(Commas(elem, p.PartParams))

\* The actions of a foreign key, the way of an identity and the expression of a
\* generated column are not written.
DeparseConstraint(c) ==
  LET key(w) == w \o RawNames(c, "Keys")
  IN  Given(c, "Conname", <<"constraint">>, Raw)
      \o CASE c.Contype = "NULL" -> <<"null">>
           [] c.Contype = "NOTNULL" -> <<"not", "null">>
           [] c.Contype = "DEFAULT" -> <<"default">> \o DeparseNode(c.RawExpr)
           [] c.Contype = "CHECK" -> <<"check">> \o Enclosed(DeparseNode(c.RawExpr))
           [] c.Contype = "PRIMARY" -> key(<<"primary", "key">>)
           [] c.Contype = "UNIQUE" -> key(<<"unique">>)
           [] c.Contype = "FOREIGN" -> <<"references">> \o DeparseRangeVar(c.PkTable) \o RawNames(c, "PkAttrs")
           [] c.Contype = "IDENTITY" -> <<"generated", "always", "as", "identity">>
           [] OTHER -> <<>>
DeparseColumnDef(c) ==
  Raw(c.Colname) \o DeparseTypeName(c.TypeName)
  \o Given(c, "Constraints", <<>>, LAMBDA s : Separated([k \in DOMAIN s |-> DeparseConstraint(s[k])], <<>>))

DeparseCreateTable(s) ==
  LET kept == "TEMP" :> <<"temporary">> @@ "UNLOGGED" :> <<"unlogged">>
      elements == IF Has(s, "TableElts") THEN Commas(DeparseNode, s.TableElts) ELSE <<>>
  IN  <<"create">> \o Given(s, "Persistence", <<>>, LAMBDA p : kept[p]) \o <<"table">>
      \o Flagged(s, "IfNotExists", <<"if", "not", "exists">>) \o DeparseRangeVar(s.Relation)
      \o (IF Has(s, "PartitionOf")
          THEN <<"partition", "of">> \o DeparseRangeVar(s.PartitionOf)
               \o Given(s, "PartBound", <<>>, DeparsePartitionBoundSpec)
          ELSE Enclosed(elements)
               \o Given(s, "InhRelations", <<"inherits">>, LAMBDA r : Enclosed(Commas(DeparseNode, r)))
               \o Given(s, "PartitionSpec", <<>>, DeparsePartitionSpec))

DeparseViewStmt(s) ==
  <<"create">> \o Flagged(s, "Replace", <<"or", "replace">>) \o <<"view">> \o DeparseRangeVar(s.View)
  \o RawNames(s, "Aliases") \o <<"as">> \o DeparseNode(s.Query)

\* An expression is written without the parentheses it must have.
DeparseIndexStmt(s) ==
  LET elem(e) == (IF Has(e, "Name") THEN Raw(e.Name) ELSE DeparseNode(e.Expr))
        \o When(Has(e, "Ordering") /\ e.Ordering = "DESC", <<"desc">>)
        \o Given(e, "NullsOrder", <<"nulls">>, LAMBDA n : IF n = "FIRST" THEN <<"first">> ELSE <<"last">>)
  IN  <<"create">> \o Flagged(s, "Unique", <<"unique">>) \o <<"index">>
      \o Flagged(s, "Concurrent", <<"concurrently">>) \o Flagged(s, "IfNotExists", <<"if", "not", "exists">>)
      \o Given(s, "Idxname", <<>>, Raw) \o <<"on">> \o DeparseRangeVar(s.Relation)
      \o Given(s, "AccessMethod", <<"using">>, Raw) \o Enclosed(Commas(elem, s.IndexParams)) \o DeparseWhere(s)

DeparseClusterStmt(s) ==
  <<"cluster">> \o (IF Has(s, "Relation") THEN DeparseRangeVar(s.Relation) \o Given(s, "IndexName", <<"using">>, Raw)
                    ELSE <<>>)

\* The value of an option is not written.
DeparseExplainStmt(s) ==
  <<"explain">> \o (IF Has(s, "Options") THEN Enclosed(Commas(LAMBDA o : Raw(o.Defname), s.Options)) ELSE <<>>)
  \o DeparseNode(s.Query)
-----------------------------------------------------------------------------
\* deparseNode: a node that is of none of these types is written as a comment.
DeparseNode(n) ==
  CASE n.type = "SelectStmt" -> DeparseSelect(n)
    [] n.type = "InsertStmt" -> DeparseInsert(n)
    [] n.type = "UpdateStmt" -> DeparseUpdate(n)
    [] n.type = "DeleteStmt" -> DeparseDelete(n)
    [] n.type = "CreateStmt" -> DeparseCreateTable(n)
    [] n.type = "ViewStmt" -> DeparseViewStmt(n)
    [] n.type = "IndexStmt" -> DeparseIndexStmt(n)
    [] n.type = "ExplainStmt" -> DeparseExplainStmt(n)
    [] n.type = "ClusterStmt" -> DeparseClusterStmt(n)
    [] n.type = "ColumnDef" -> DeparseColumnDef(n)
    [] n.type = "RangeVar" -> DeparseRangeVar(n)
    [] n.type = "JoinExpr" -> DeparseJoinExpr(n)
    [] n.type = "RangeSubselect" -> DeparseRangeSubselect(n)
    [] OTHER -> DeparseExpr(n)

\* Deparse, and what the scanner finds in it: a comment takes the rest of the line.
Deparse(n) ==
  LET all == DeparseNode(n)
      comments == {k \in DOMAIN all : all[k] = "comment"}
  IN  IF comments = {} THEN all
      ELSE SubSeq(all, 1, (CHOOSE k \in comments : \A m \in comments : k <= m) - 1)
=============================================================================
