--------------------------- MODULE DefinitionSyntax ---------------------------
(***************************************************************************)
(* The syntax of tables, their columns, constraints and indexes, and of    *)
(* ALTER TABLE, as the comments above the parse functions give it, with    *)
(* the nodes that it stands for.                                           *)
(***************************************************************************)
EXTENDS QuerySyntax, Alterations, SequencesExt

\* The phrases of one from each of the sets in s, in that order
Chain(s) == FoldLeft(Then, Words(<<>>), s)
Id(field) == Lit({"x"}, field)
Str(field) == Lit({"'s'"}, field)
Said(w, field, value) == Before(w, Is(field, value))
May(w, field, value) == Maybe(Said(w, field, value))
Ids(field) == Listed(Id(field))
Typed == Into(Said(<<"int">>, "Names", "int4"), "TypeName")
Own(t) == {Phrase(<<t>>, <<<<"Names", t>>, <<"TypeName", "">>>>)}
IfThere == May(<<"if", "exists">>, "MissingOk", "true")
Drops == Optional("restrict") \cup Said(<<"cascade">>, "Behavior", "CASCADE")
NewOnly == May(<<"if", "not", "exists">>, "IfNotExists", "true")
AQuery == Into(Simple(X), "Query")
Defs == Wrapped(Listed(Then(Id("Defname"), Before(<<"eq">>, Str("Arg") \cup Lit({"y"}, "Arg")))))
-----------------------------------------------------------------------------
(***************************************************************************)
(* Columns and constraints (parse_ddl.go:496-787)                          *)
(***************************************************************************)
References ==
  LET action == Said(<<"on", "delete", "cascade">>, "FkDelAction", "CASCADE")
        \cup Then(Said(<<"on", "update", "set", "null">>, "FkUpdAction", "SET NULL"),
                  May(<<"on", "delete", "no", "action">>, "FkDelAction", "NO ACTION"))
  IN  Of(Before(<<"references">>, Lit({"y"}, "PkTable")), Maybe(Wrapped(Id("PkAttrs"))), Maybe(action))

\* The DEFAULT is an expression: NOT after it begins the next constraint.
Constraints ==
  LET is(A, type) == As(A, "Constraint", type)
      word(w, type) == is(Words(w), type)
      unlike == As(Of(X, Words(<<"not", "like">>), X), "A_Expr", "NOT_LIKE")
  IN  word(<<"not", "null">>, "NOTNULL") \cup word(<<"null">>, "NULL") \cup word(<<"primary", "key">>, "PRIMARY")
      \cup is(Before(<<"default">>, Into(Number \cup Sum, "RawExpr")), "DEFAULT")
      \cup is(Before(<<"check">>, Wrapped(Into(unlike, "RawExpr"))), "CHECK")
      \cup word(<<"unique">>, "UNIQUE") \cup is(References, "FOREIGN")
      \cup word(<<"generated", "by", "default", "as", "identity">>, "IDENTITY")
      \cup is(Of(Words(<<"generated", "always", "as">>), Wrapped(Into(Sum, "RawExpr")), Words(<<"stored">>)),
              "GENERATED")
Constrained == Constraints \cup Then(Before(<<"constraint">>, Lit({"y"}, "Conname")), Constraints)
Column_(type, constraints) == Into(Of(Id("Colname"), type, constraints), "ColumnDef")
Columns_ == Column_(Typed \cup Own("y"), Maybe(Constrained)) \cup Column_(Typed, Then(Constraints, Constraints))

TableConstraints ==
  LET is(A, type) == As(A, "Constraint", type)
      deferred == Maybe(Then(Said(<<"deferrable">>, "Deferrable", "true"),
                             May(<<"initially", "deferred">>, "InitDeferred", "true")))
      keys(w) == Then(Before(w, Wrapped(Ids("Keys"))), deferred)
      foreign == Of(Words(<<"foreign", "key">>), Wrapped(Ids("FkAttrs")), Then(References, deferred))
  IN  Then(Maybe(Before(<<"constraint">>, Lit({"y"}, "Conname"))),
           is(keys(<<"primary", "key">>), "PRIMARY") \cup is(keys(<<"unique">>), "UNIQUE")
           \cup is(Before(<<"check">>, Wrapped(Into(X, "RawExpr"))), "CHECK") \cup is(foreign, "FOREIGN"))

\* parse_ddl.go:245-465: tables
TableSyntax ==
  LET kept == Said(<<"temp">>, "Persistence", "TEMP") \cup Said(<<"local", "temporary">>, "Persistence", "TEMP")
                \cup Said(<<"unlogged">>, "Persistence", "UNLOGGED")
      head(p, absent) == Chain(<<Words(<<"create">>), p, Words(<<"table">>), absent, Id("Relation")>>)
      create(p) == head(p, NewOnly)
      plain == head(Words(<<>>), Words(<<>>))
      new(A) == Made("CreateStmt", A)
      one == Column_(Typed, Words(<<>>))
      like == Into(Before(<<"like">>, Lit({"y"}, "Relation")), "TableLikeClause")
      pair(A) == Of(one, Words(<<"comma">>), A)
      elements == Columns_ \cup pair(TableConstraints \cup like) \cup Of(TableConstraints, Words(<<"comma">>), one)
      key == Into(Id("Name") \cup Then(Id("Name"), Lit({"y"}, "OpClass"))
                  \cup Wrapped(Into(Sum, "Expr")), "PartitionElem")
      by(s) == Of(Words(<<"partition", "by">>), Lit({s}, "Strategy"), Wrapped(Listed(key)))
      after == Of(Maybe(Before(<<"inherits">>, Wrapped(Ids("InhRelations")))), Maybe(by("range") \cup by("list")),
                  May(<<"on", "commit", "delete", "rows">>, "OnCommit", "DELETE_ROWS")
                  \cup Said(<<"on", "commit", "drop">>, "OnCommit", "DROP"))
      bound == Said(<<"default">>, "PartBound", "default")
        \cup As(Before(<<"for", "values", "in">>, Wrapped(Listed(Into(Number, "ListValues")))), "PartBound", "list")
        \cup As(Before(<<"for", "values", "from">>, Of(Wrapped(Into(Number, "LowerBound")), Words(<<"to">>),
                Wrapped(Into(Number, "UpperBound")))), "PartBound", "range")
      ofQuery == Then(AQuery, May(<<"with", "no", "data">>, "WithData", "false") \cup Words(<<"with", "data">>))
  IN  Then(plain, new(Wrapped(Maybe(elements)) \cup Then(Wrapped(one), after)))
      \cup Then(create(Maybe(kept)), new(Wrapped(one)))
      \cup Then(create(Words(<<>>)), new(Of(Words(<<"partition", "of">>), Lit({"y"}, "PartitionOf"), bound)))
      \cup Then(create(Maybe(kept)), Before(<<"as">>, Made("CreateTableAsStmt", ofQuery)))

\* parse_ddl2.go:7-60
IndexSyntax ==
  LET elem == Into(Of(Id("Name") \cup Wrapped(Into(Sum, "Expr")), May(<<"desc">>, "Ordering", "DESC"),
                      May(<<"nulls", "first">>, "NullsOrder", "FIRST")), "IndexElem")
  IN  Before(<<"create">>, Made("IndexStmt", Chain(<<
        May(<<"unique">>, "Unique", "true"), Words(<<"index">>), May(<<"concurrently">>, "Concurrent", "true"),
        Maybe(Then(NewOnly, Lit({"y"}, "Idxname"))), Before(<<"on">>, Id("Relation")),
        Wrapped(Listed(Into(Id("Name"), "IndexElem")) \cup elem), Clause(<<"where">>, X, "WhereClause")>>)))

\* parse_ddl2.go:155-640
AlterTableSyntax ==
  LET cmd(type, A) == As(A, "AlterTableCmd", type)
      alter(type, w, A) == cmd(type, Of(Words(<<"alter">>), Then(Optional("column"), Id("Name")), Before(w, A)))
      end == Words(<<>>)
      commands == cmd("AddColumn", Of(Words(<<"add">>), Optional("column"), Column_(Typed, Maybe(Constraints))))
        \cup cmd("AddConstraint", Before(<<"add">>, TableConstraints))
        \cup cmd("DropColumn", Of(Words(<<"drop", "column">>), IfThere, Then(Id("Name"), Drops)))
        \cup cmd("DropConstraint", Of(Words(<<"drop", "constraint">>), IfThere, Then(Id("Name"), Drops)))
        \cup alter("SetNotNull", <<"set", "not", "null">>, end) \cup alter("DropNotNull", <<"drop", "not", "null">>, end)
        \cup alter("SetDefault", <<"set", "default">>, Into(Sum, "Def")) \cup alter("DropDefault", <<"drop", "default">>, end)
        \cup alter("AlterColumnType", <<"type">>, Typed) \cup alter("AlterColumnType", <<"set", "data", "type">>, Own("y"))
        \cup alter("AddIdentity", <<"add", "generated", "by", "default", "as", "identity">>, end)
        \cup cmd("ValidateConstraint", Before(<<"validate", "constraint">>, Id("Name")))
        \cup cmd("EnableTrig", Before(<<"enable", "trigger">>, Id("Name")))
        \cup cmd("DisableTrigAll", Words(<<"disable", "trigger", "all">>))
        \cup cmd("EnableAlwaysRule", Before(<<"enable", "always", "rule">>, Id("Name")))
        \cup cmd("EnableReplicaTrig", Before(<<"enable", "replica", "trigger">>, Id("Name")))
        \cup cmd("EnableRowSecurity", Words(<<"enable", "row", "level", "security">>))
        \cup cmd("NoForceRowSecurity", Words(<<"no", "force", "row", "level", "security">>))
        \cup cmd("AddInherit", Before(<<"inherit">>, Lit({"y"}, "Def"))) \cup cmd("DropOf", Words(<<"not", "of">>))
        \cup cmd("ChangeOwner", Before(<<"owner", "to">>, Id("Name"))) \cup cmd("SetSchema", Before(<<"set", "schema">>, Id("Name")))
        \cup cmd("SetUnLogged", Words(<<"set", "unlogged">>))
        \cup cmd("ReplicaIdentity", Before(<<"replica", "identity", "using", "index">>, Id("Name")))
        \cup cmd("DetachPartition", Before(<<"detach", "partition">>, Lit({"y"}, "Def")))
      renames == cmd("RenameColumn", Of(Words(<<"rename">>), Then(Optional("column"), Id("Name")),
                                        Before(<<"to">>, Lit({"y"}, "Def"))))
        \cup cmd("RenameTable", Before(<<"rename", "to">>, Id("Name")))
      short == {p \in commands : Len(p.text) <= 3}
      head == Of(IfThere, May(<<"only">>, "Inh", "false"), Id("Relation"))
  IN  Before(<<"alter">>, Made("AlterTableStmt", Before(<<"table">>,
        Then(head, renames \cup short) \cup Then(Id("Relation"), commands \cup Of(short, Words(<<"comma">>), short)))))
=============================================================================
