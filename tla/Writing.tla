-------------------------------- MODULE Writing --------------------------------
(***************************************************************************)
(* Statements that the deparser writes as they were: each a text with the  *)
(* node it stands for.  A piece is a text with the value it stands for:    *)
(* the fields of a node, a node or a list of them.                         *)
(***************************************************************************)
EXTENDS Deparser, SequencesExt

Piece(w, v) == [text |-> w, value |-> v]
Text(w) == {Piece(w, <<>>)}
And(A, B) == {Piece(a.text \o b.text, a.value @@ b.value) : a \in A, b \in B}
All(s) == FoldLeft(And, Text(<<>>), s)
Perhaps(A) == A \cup Text(<<>>)
Means(w, f, v) == {Piece(w, f :> v)}
As(f, A) == {Piece(a.text, f :> a.value) : a \in A}
Token(t) == {Piece(<<t>>, t)}
Node(type, A) == {Piece(a.text, ("type" :> type) @@ a.value) : a \in A}
One(A) == {Piece(a.text, <<a.value>>) : a \in A}
Two(A, B) == {Piece(a.text \o <<"comma">> \o b.text, <<a.value, b.value>>) : a \in A, b \in B}
List(A) == One(A) \cup Two(A, A)
Paren(A) == {Piece(<<"lparen">> \o a.text \o <<"rparen">>, a.value) : a \in A}
After(w, A) == {Piece(w \o a.text, a.value) : a \in A}
Before(A, w) == {Piece(a.text \o w, a.value) : a \in A}
May(w, f, v) == Perhaps(Means(w, f, v))
Field(w, f, A) == As(f, After(w, A))
Clause(w, f, A) == Perhaps(Field(w, f, A))
-----------------------------------------------------------------------------
(***************************************************************************)
(* Expressions, where no operand of an operator needs parentheses          *)
(***************************************************************************)
Named(s) == Node("ColumnRef", As("Fields", s))
Const(t) == Node("A_Const", As("Val", Token(t)))
X == Named(One(Token("x")))
N == Const("1")
Kind(kind, name, left, w, right) ==
  Node("A_Expr", All(<<Means(<<>>, "Kind", kind), Means(<<>>, "Name", name), As("Lexpr", left), Text(w),
                       As("Rexpr", right)>>))
Binary(op, left, right) == Kind("OP", op, left, <<op>>, right)
Items(w, A, B) == Node("ExprList", As("Items", {Piece(a.text \o w \o b.text, <<a.value, b.value>>) : a \in A, b \in B}))
Plus == Binary("plus", X, N)
Bool(op, A, B) == Node("BoolExpr", And(Means(<<>>, "Op", op),
  As("Args", {Piece(a.text \o <<op>> \o b.text, <<a.value, b.value>>) : a \in A, b \in B})))
Not(A) == Node("BoolExpr", And(Means(<<"not">>, "Op", "not"), As("Args", One(A))))
Typed(type) == Node("TypeCast", And(As("Arg", X), Field(<<"typecast">>, "TypeName", Node("TypeName", type))))

\* Two binary operators, of which the tighter is inside, or the first of two of
\* one level (the levels of parse_expr.go:11-30)
Chains ==
  LET level == "eq" :> 5 @@ "lt" :> 5 @@ "bar" :> 7 @@ "plus" :> 8 @@ "minus" :> 8 @@ "star" :> 9 @@ "caret" :> 10
      pairs(P(_, _)) == {p \in (DOMAIN level) \X (DOMAIN level) : P(level[p[1]], level[p[2]])}
  IN  UNION {Binary(p[1], Binary(p[2], X, N), X) : p \in pairs(LAMBDA a, b : a <= b)}
      \cup UNION {Binary(p[1], X, Binary(p[2], X, N)) : p \in pairs(LAMBDA a, b : a < b)}

Operations ==
  Chains \cup Binary("caret", Node("A_Expr",
         All(<<Means(<<"minus">>, "Kind", "OP"), Means(<<>>, "Name", "minus"), As("Rexpr", X)>>)), N)
  \cup Kind("DISTINCT", "eq", Plus, <<"is", "distinct", "from">>, X)
  \cup Kind("NOT_DISTINCT", "eq", X, <<"is", "not", "distinct", "from">>, N)
  \cup Kind("OP_ANY", "eq", X, <<"eq", "any">>, Paren(X)) \cup Kind("OP_ALL", "lt", X, <<"lt", "all">>, Paren(X))
  \cup Kind("IN", "eq", X, <<"in">>, Paren(Node("ExprList", As("Items", List(N)))))
  \cup Kind("LIKE", "~~", X, <<"like">>, Const("'s'")) \cup Kind("LIKE", "!~~", X, <<"not", "like">>, Plus)
  \cup Kind("ILIKE", "!~~*", X, <<"not", "ilike">>, X) \cup Kind("SIMILAR", "~", X, <<"similar", "to">>, X)
  \cup Kind("BETWEEN", "between", X, <<"between">>, Items(<<"and">>, N, Plus))
  \cup Kind("NOT_BETWEEN_SYM", "between", X, <<"not", "between", "symmetric">>, Items(<<"and">>, N, X))
  \cup Node("CollateClause", And(As("Arg", X), Field(<<"collate">>, "Collname", One(Token("x")))))
  \cup Node("NullTest", All(<<As("Arg", Plus), Text(<<"is">>), May(<<"not">>, "Not", "true"), Means(<<"null">>, "Test", "null")>>))
  \cup Node("BooleanTest", All(<<As("Arg", X), Text(<<"is">>), Means(<<"not">>, "Not", "true"), Means(<<"true">>, "Test", "true")>>))

\* Logical operators in any order, with parentheses wherever they are needed;
\* but an OR in the right operand of an OR is not grouped as it was.
Logic ==
  LET under(op) == X \cup Paren(Bool(IF op = "and" THEN "or" ELSE "and", X, N)) \cup Not(X)
      two == UNION {Bool(op, under(op), under(op)) \cup Bool(op, Bool(op, X, N), under(op)) : op \in {"and", "or"}}
      other(p) == IF p = "and" THEN "or" ELSE "and"
  IN  two \cup Not(Paren(two)) \cup Not(Paren(Not(X)))
      \cup UNION {Bool(op, X, Paren(Bool(other(op), X, Paren(Bool(op, X, N))))) : op \in {"and", "or"}}
      \cup UNION {Bool(op, Not(Paren(Bool(o, X, N))), Operations) : op \in {"and", "or"}, o \in {"and", "or"}}

Types ==
  LET of(w, type) == Means(w, "Names", <<"pg_catalog", type>>)
      mods == Perhaps(As("Typmods", Paren(List(N))))
      own == As("Names", One(Token("x")) \cup {Piece(<<"x", "dot", "y">>, <<"x", "y">>)})
      int == of(<<"int">>, "int4")
  IN  int \cup of(<<"boolean">>, "bool") \cup of(<<"double", "precision">>, "float8") \cup of(<<"text">>, "text")
      \cup And(int, Means(<<"lbracket", "rbracket">>, "ArrayBounds", <<"-1">>))
      \cup of(<<"timestamp", "with", "time", "zone">>, "timestamptz") \cup of(<<"bit", "varying">>, "varbit")
      \cup And(of(<<"numeric">>, "numeric") \cup of(<<"char">>, "bpchar") \cup own, mods)

Sorts == Node("SortBy", All(<<As("Node", X), Perhaps(Field(<<>>, "SortbyDir", Token("asc") \cup Token("desc"))),
                              Clause(<<"nulls">>, "SortbyNulls", Token("last"))>>))
Sort == Node("SortBy", As("Node", X))
OrderBy(f) == Field(<<"order", "by">>, f, One(Sorts) \cup Two(Sort, Sort))
Windows ==
  LET partition == Field(<<"partition", "by">>, "PartitionClause", One(X))
  IN  As("Refname", Token("x"))
      \cup Paren(All(<<Perhaps(As("Refname", Token("x"))), Perhaps(partition), Field(<<"order", "by">>, "OrderClause", One(Sort))>>)
                 \cup And(Perhaps(As("Refname", Token("x"))), partition) \cup Text(<<>>))
Calls ==
  LET args == All(<<Perhaps(Means(<<"distinct">>, "AggDistinct", "true")), As("Args", List(Plus)), Perhaps(OrderBy("AggOrder"))>>)
        \cup Means(<<"star">>, "AggStar", "true") \cup Text(<<>>)
        \cup And(Means(<<"variadic">>, "FuncVariadic", "true"), As("Args", One(X)))
        \cup As("Args", Two(X, Node("NamedArgExpr", And(As("Name", Token("y")), Field(<<"equals_greater">>, "Arg", N)))))
      filter == Field(<<"filter">>, "AggFilter", Paren(After(<<"where">>, X)))
      within == Field(<<"within", "group">>, "AggWithinGroup", Paren(After(<<"order", "by">>, One(Sorts))))
      name == As("Funcname", One(Token("x")) \cup {Piece(<<"x", "dot", "y">>, <<"x", "y">>)})
  IN  Node("FuncCall", And(name, Paren(args)) \cup All(<<name, Paren(Text(<<>>)), filter>>)
        \cup All(<<name, Paren(Text(<<>>)), within>>)
        \cup All(<<name, Paren(Text(<<>>)), Field(<<"over">>, "Over", Windows)>>))

Operands ==
  LET when == Node("CaseWhen", And(Field(<<"when">>, "Expr", X), Field(<<"then">>, "Result", Plus)))
      twice == {Piece(a.text \o a.text, <<a.value, a.value>>) : a \in when}
      call(w, type, f) == Node(type, And(f, After(<<w>>, Paren(As("Args", Two(X, N))))))
      field == Node("String", As("Str", Token("y")))
      index(A) == Node("A_Indices", A)
      brackets(A) == After(<<"lbracket">>, Before(A, <<"rbracket">>))
      lower == Before(As("Lidx", N), <<"colon">>)
      slice == And(lower \cup Text(<<"colon">>), As("Uidx", N)) \cup lower
  IN  Const("null") \cup Const("true") \cup Const("1.5") \cup Const("'s'")
      \cup Node("ParamRef", Text(<<"param">>)) \cup Node("SQLValueFunction", As("Op", Token("current_date")))
      \cup Named({Piece(<<"x", "dot", "y">>, <<"x", "y">>), Piece(<<"x", "dot", "star">>, <<"x", "star">>)})
      \cup Node("SQLValueFunction", And(As("Op", Token("localtime")), As("Typmod", Paren(Token("1")))))
      \cup Node("CaseExpr", All(<<Text(<<"case">>), Perhaps(As("Arg", X)), As("Args", One(when) \cup twice),
                                  Clause(<<"else">>, "Defresult", N), Text(<<"end">>)>>))
      \cup call("coalesce", "CoalesceExpr", Text(<<>>)) \cup call("nullif", "NullIfExpr", Text(<<>>))
      \cup call("greatest", "MinMaxExpr", Means(<<>>, "Op", "greatest")) \cup call("row", "RowExpr", Text(<<>>))
      \cup Node("RowExpr", Text(<<"row", "lparen", "rparen">>))
      \cup Node("A_ArrayExpr", After(<<"array">>, brackets(As("Elements", List(X)))))
      \cup Node("A_Indirection", And(As("Arg", X), As("Indirection",
             One(index(brackets(As("Uidx", Plus))))
             \cup One(index(brackets(And(Means(<<>>, "IsSlice", "true"), slice)))))))
      \cup Typed(Types) \cup Calls
-----------------------------------------------------------------------------
(***************************************************************************)
(* Queries: the clauses in the order they are written in, set operations   *)
(* grouped from the left                                                   *)
(***************************************************************************)
Target(A) == Node("ResTarget", As("Val", A))
Simple(A) == Node("SelectStmt", Field(<<"select">>, "TargetList", One(Target(A))))
Table(name, alias) == Node("RangeVar", And(As("Relname", Token(name)), alias))
Plain(name) == Table(name, Text(<<>>))
Names(t) == Paren(One(Token(t)))
Aliased == As("Alias", And(As("Aliasname", Token("y")), Perhaps(As("Colnames", Paren(List(Token("x")))))))
Qualified == Node("RangeVar", And(Field(<<>>, "Schemaname", Token("x")), Field(<<"dot">>, "Relname", Token("y"))))

Join(left, w, kind, right, rest) ==
  Node("JoinExpr", All(<<As("Larg", left), Means(w, "Jointype", kind), As("Rarg", right), rest>>))
Joins ==
  LET on == Field(<<"on">>, "Quals", Plus)
      using == Field(<<"using">>, "UsingClause", Names("y"))
      natural == Means(<<>>, "IsNatural", "true")
      first == Join(Plain("x"), <<"join">>, "inner", Plain("y"), on \cup using)
  IN  first \cup Join(Plain("x"), <<"left", "join">>, "left", Table("y", Aliased), on)
      \cup Join(Plain("x"), <<"full", "join">>, "full", Plain("y"), using)
      \cup Join(Plain("x"), <<"cross", "join">>, "cross", Plain("y"), Text(<<>>))
      \cup Join(Plain("x"), <<"natural", "join">>, "inner", Plain("y"), natural)
      \cup Join(Plain("x"), <<"natural", "right", "join">>, "right", Plain("y"), natural)
      \cup Join(first, <<"left", "join">>, "left", Plain("x"), using)
Subselected ==
  LET sub == All(<<As("Subquery", Paren(Simple(X))), Aliased>>)
  IN  Node("RangeSubselect", sub \cup And(Means(<<"lateral">>, "Lateral", "true"), sub))
Tables == Plain("x") \cup Qualified \cup Table("x", Aliased) \cup Joins \cup Subselected

Expressions == Operations \cup Logic \cup Operands
Ends ==
  LET lock == Node("LockingClause", All(<<Text(<<"for">>),
        Means(<<"update">>, "Strength", "UPDATE") \cup Means(<<"no", "key", "update">>, "Strength", "NO_KEY_UPDATE"),
        Clause(<<"of">>, "LockedRels", List(Plain("x")))>>))
  IN  And(Clause(<<"limit">>, "LimitCount", N), Clause(<<"offset">>, "LimitOffset", Plus)) \cup As("LockingClause", One(lock))
      \cup And(OrderBy("SortClause"), Clause(<<"limit">>, "LimitCount", N))
Clauses ==
  LET groupBy == Field(<<"group", "by">>, "GroupClause", List(X))
        \cup And(Means(<<"group", "by", "distinct">>, "GroupDistinct", "true"), As("GroupClause", One(X)))
      window == Node("WindowDef", And(Before(As("Name", Token("y")), <<"as">>), Windows))
  IN  All(<<Clause(<<"where">>, "WhereClause", Plus), Perhaps(groupBy), Clause(<<"having">>, "HavingClause", X),
            Clause(<<"window">>, "WindowClause", One(Node("WindowDef", And(Before(As("Name", Token("y")), <<"as">>),
              Paren(Field(<<"order", "by">>, "OrderClause", One(Sort)))))))>>)
      \cup Field(<<"window">>, "WindowClause", One(window))
Selects ==
  LET select(rest) == Node("SelectStmt", All(<<Text(<<"select">>), As("TargetList", One(Target(X))), rest>>))
      distinct == Means(<<"distinct">>, "DistinctClause", <<>>)
        \cup Field(<<"distinct", "on">>, "DistinctClause", Paren(One(X)))
      targets == List(Target(Named(One(Token("star"))))
        \cup Node("ResTarget", And(As("Val", Plus), Field(<<"as">>, "Name", Token("y")))))
  IN  Simple(Expressions) \cup select(Field(<<"from">>, "FromClause", One(Tables) \cup Two(Plain("y"), Joins)))
      \cup select(Clauses) \cup select(Field(<<"where">>, "WhereClause", Logic)) \cup select(Ends)
      \cup Node("SelectStmt", All(<<Text(<<"select">>), Perhaps(distinct), As("TargetList", targets)>>))
      \cup Node("SelectStmt", Text(<<"select">>))

ValuesOf(A) == Node("SelectStmt", And(Field(<<"values">>, "ValuesLists", A), Clause(<<"order", "by">>, "SortClause", One(Sort))))
SetOp(A, op, B) == Node("SelectStmt", All(<<As("Larg", A), Means(<<op>>, "Op", op), May(<<"all">>, "All", "true"), As("Rarg", B)>>))
Sets == SetOp(Simple(X), "union", Simple(N)) \cup SetOp(SetOp(Simple(X), "except", Simple(N)), "intersect", Simple(X))
With ==
  LET way == Perhaps(Means(<<"not", "materialized">>, "CTEMaterialized", "never"))
      cte == All(<<As("Ctename", Token("x")), Perhaps(As("Aliascolnames", Names("y"))), Text(<<"as">>), way,
                   As("Ctequery", Paren(Simple(X)))>>)
  IN  Field(<<"with">>, "WithClause", And(May(<<"recursive">>, "Recursive", "true"), As("CTEs", List(cte))))
Links ==
  LET link(type, w, op) == All(<<Text(w), Means(<<>>, "SubLinkType", type), op, As("Subselect", Paren(Simple(X)))>>)
      tested(type, w) == link(type, w, Text(<<>>))
      of(type, w) == Node("SubLink", And(As("Testexpr", X), link(type, <<"lt", w>>, Means(<<>>, "OperName", "lt"))))
  IN  Simple(Node("SubLink", tested("EXISTS", <<"exists">>) \cup tested("ARRAY", <<"array">>) \cup tested("EXPR", <<>>))
             \cup of("ANY", "any") \cup of("ALL", "all"))
Queries == Selects \cup ValuesOf(List(Paren(List(X)))) \cup Sets \cup Links
  \cup Node("SelectStmt", And(With, Field(<<"select">>, "TargetList", One(Target(X)))))
-----------------------------------------------------------------------------
(***************************************************************************)
(* Changes and definitions                                                 *)
(***************************************************************************)
Changes ==
  LET into(w) == Field(w, "Relation", Plain("x") \cup Qualified)
      aliased(w) == Field(w, "Relation", Table("x", As("Alias", As("Aliasname", Token("y")))))
      with == Perhaps(Field(<<"with">>, "WithClause", As("CTEs", One(
                All(<<As("Ctename", Token("x")), Text(<<"as">>), As("Ctequery", Paren(Simple(X)))>>)))))
      set == Node("ResTarget", And(As("Name", Token("y")), Field(<<"eq">>, "Val", Plus)))
      setList == Field(<<"set">>, "TargetList", List(set))
      returning == Clause(<<"returning">>, "ReturningList", List(Target(X)))
      where == Clause(<<"where">>, "WhereClause", Plus)
      cols == Perhaps(As("Cols", Paren(List(Node("ResTarget", As("Name", Token("y")))))))
      source == As("SelectStmt", ValuesOf(One(Paren(One(X)))) \cup Sets) \cup Text(<<"default", "values">>)
      infer == Perhaps(As("Infer", As("IndexElems", Paren(List(Token("y")))) \cup Field(<<"on", "constraint">>, "Conname", Token("x"))))
      act == Means(<<"do", "nothing">>, "Action", "NOTHING")
        \cup All(<<Means(<<"do", "update">>, "Action", "UPDATE"), setList, where>>)
      conflict == Field(<<"on", "conflict">>, "OnConflict", And(infer, act))
  IN  Node("InsertStmt", All(<<with, into(<<"insert", "into">>), cols, source, returning>>)
        \cup All(<<into(<<"insert", "into">>), As("SelectStmt", ValuesOf(One(Paren(One(X))))), conflict, returning>>))
      \cup Node("UpdateStmt", All(<<with, into(<<"update">>) \cup aliased(<<"update">>), setList, where, returning>>)
             \cup All(<<into(<<"update">>), setList, Field(<<"from">>, "FromClause", One(Tables))>>))
      \cup Node("DeleteStmt", All(<<with, into(<<"delete", "from">>) \cup aliased(<<"delete", "from">>),
                                    Clause(<<"using">>, "UsingClause", One(Joins)), where, returning>>))

Columns ==
  LET is(type, A) == And(Means(<<>>, "Contype", type), A)
      word(type, w) == Means(w, "Contype", type)
      raw(w, A) == Field(w, "RawExpr", A)
      references == Field(<<"references">>, "PkTable", Plain("y"))
      constraint == word("NOTNULL", <<"not", "null">>) \cup word("NULL", <<"null">>)
        \cup word("PRIMARY", <<"primary", "key">>) \cup word("UNIQUE", <<"unique">>)
        \cup word("IDENTITY", <<"generated", "always", "as", "identity">>)
        \cup is("DEFAULT", raw(<<"default">>, Plus)) \cup is("CHECK", raw(<<"check">>, Paren(Logic)))
        \cup is("FOREIGN", And(references, Perhaps(As("PkAttrs", Names("x")))))
      named == And(Field(<<"constraint">>, "Conname", Token("y")), constraint)
      few == word("NOTNULL", <<"not", "null">>) \cup is("DEFAULT", raw(<<"default">>, N))
      two == {Piece(a.text \o b.text, <<a.value, b.value>>) : a, b \in few}
      column(type, constraints) == Node("ColumnDef", All(<<As("Colname", Token("x")),
        As("TypeName", Node("TypeName", type)), constraints>>))
      int == Means(<<"int">>, "Names", <<"pg_catalog", "int4">>)
  IN  column(Types, Text(<<>>)) \cup column(int, As("Constraints", One(constraint \cup named) \cup two))

Definitions ==
  LET create(p, e) == All(<<Text(<<"create">>), p, Text(<<"table">>), e, As("Relation", Plain("x"))>>)
      absent == May(<<"if", "not", "exists">>, "IfNotExists", "true")
      kept == May(<<"temporary">>, "Persistence", "TEMP") \cup Means(<<"unlogged">>, "Persistence", "UNLOGGED")
      int == Node("ColumnDef", And(As("Colname", Token("y")), As("TypeName", Node("TypeName", Means(<<"int">>, "Names", <<"pg_catalog", "int4">>)))))
      key == As("Name", Token("x")) \cup And(As("Name", Token("x")), As("OpClass", One(Token("y"))))
        \cup As("Expr", Paren(Plus))
      by(s) == Field(<<"partition", "by">>, "PartitionSpec", And(As("Strategy", Token(s)), As("PartParams", Paren(List(key)))))
      bound == Means(<<"default">>, "IsDefault", "true")
        \cup And(Means(<<"for", "values">>, "Strategy", "list"), Field(<<"in">>, "ListValues", Paren(List(N))))
        \cup All(<<Means(<<"for", "values">>, "Strategy", "range"), Field(<<"from">>, "LowerBound", Paren(One(N))),
                   Field(<<"to">>, "UpperBound", Paren(One(N)))>>)
      elem == And(As("Name", Token("y")), Text(<<>>)) \cup All(<<As("Name", Token("y")), Means(<<"desc">>, "Ordering", "DESC"),
                May(<<"nulls", "first">>, "NullsOrder", "FIRST")>>)
      index == All(<<Text(<<"create">>), May(<<"unique">>, "Unique", "true"), Text(<<"index">>), May(<<"concurrently">>, "Concurrent", "true"),
                     Perhaps(And(absent, As("Idxname", Token("y")))), Field(<<"on">>, "Relation", Plain("x")),
                     Clause(<<"using">>, "AccessMethod", Token("y")), As("IndexParams", Paren(List(elem)))>>)
      view == All(<<Text(<<"create">>), May(<<"or", "replace">>, "Replace", "true"), Text(<<"view">>), As("View", Plain("x")),
                    Perhaps(As("Aliases", Paren(List(Token("y"))))), Field(<<"as">>, "Query", Simple(Plus))>>)
  IN  Node("CreateStmt",
        All(<<create(kept, absent), As("TableElts", Paren(One(int)))>>)
        \cup And(create(Text(<<>>), Text(<<>>)), As("TableElts", Paren(One(Columns) \cup Two(int, int)))
                 \cup All(<<As("TableElts", Paren(One(int))), Clause(<<"inherits">>, "InhRelations", Paren(List(Plain("y")))),
                            by("range") \cup by("list")>>))
        \cup All(<<create(Text(<<>>), absent), Field(<<"partition", "of">>, "PartitionOf", Plain("y")), As("PartBound", bound)>>))
      \cup Node("IndexStmt", index \cup {Piece(a.text \o w.text, a.value @@ w.value) :
             a \in {p \in index : Len(p.text) <= 7}, w \in Clause(<<"where">>, "WhereClause", Plus)})
      \cup Node("ViewStmt", view)
      \cup Node("ClusterStmt", Text(<<"cluster">>)
             \cup All(<<Text(<<"cluster">>), As("Relation", Plain("x")), Clause(<<"using">>, "IndexName", Token("y"))>>))
      \cup Node("ExplainStmt", All(<<Text(<<"explain">>), Perhaps(As("Options", Paren(List(As("Defname", Token("x") \cup Token("verbose")))))),
                                     As("Query", Simple(X))>>))
Statements == Queries \cup Changes \cup Definitions
-----------------------------------------------------------------------------
\* A statement, then what is written for it
AndWritten(A) == {a.text \o <<"semi">> \o Deparse(a.value) : a \in A}
WrittenTexts == AndWritten(Statements)
-----------------------------------------------------------------------------
\* Statements that need what the deparser leaves out, the parentheses around an
\* operand, quotes around a name or a space after a sign; and bit strings, which it
\* gives a second prefix
Unwritable ==
  LET quoted == {Piece(<<t>>, t) : t \in DOMAIN Unquoted}
      bits == {Piece(<<t>>, t) : t \in DOMAIN Reprefixed}
      negative(A) == Node("A_Expr", All(<<Means(<<"minus">>, "Kind", "OP"), Means(<<>>, "Name", "minus"), As("Rexpr", A)>>))
  IN  Simple(Binary("star", Paren(Plus), N) \cup Binary("minus", N, Paren(Plus)) \cup Bool("or", X, Paren(Bool("or", X, N)))
             \cup Named(One(quoted)) \cup negative(negative(X))
             \cup Node("A_Const", As("Val", bits)))
UnwritableTexts == AndWritten(Unwritable)
=============================================================================
