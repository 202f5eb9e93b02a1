---------------------------- MODULE ObjectSyntax ----------------------------
(***************************************************************************)
(* The syntax of the other objects, and of ALTER and DROP, as the comments *)
(* above the parse functions give it; and what Parse must not carry from   *)
(* one statement over to the next.                                         *)
(***************************************************************************)
EXTENDS DefinitionSyntax

Replaced == May(<<"or", "replace">>, "Replace", "true")
Create(type, w) == Before(<<"create">>, Made(type, Words(w)))
Def(name, arg) == Then(Is("Defname", name), arg)
None == Words(<<>>)

\* parse_func.go:3 and 65: a parameter is a type, or a name and a type.
FunctionSyntax ==
  LET mode == May(<<"in">>, "Mode", "IN") \cup Said(<<"in", "out">>, "Mode", "INOUT")
                \cup Said(<<"variadic">>, "Mode", "VARIADIC")
      type == Into(Typed \cup Own("y"), "ArgType")
      parameter(m, A) == Into(Of(m, Maybe(Id("Name")), A), "FunctionParameter")
      default == Then(Into(Typed, "ArgType"), Into(Before(<<"default">>, Sum), "DefExpr"))
      two == Of(parameter(None, type), Words(<<"comma">>), parameter(None, type))
      option == Before(<<"language">>, Def("language", Id("Arg"))) \cup Before(<<"as">>, Def("as", Str("Arg")))
        \cup Said(<<"stable">>, "Defname", "stable") \cup Said(<<"called", "on", "null", "input">>, "Defname", "called")
        \cup Said(<<"security", "definer">>, "Defname", "security_definer")
        \cup Before(<<"cost">>, Def("cost", Lit({"1"}, "Arg")))
      column == As(Into(Then(Id("Name"), Typed), "ArgType"), "FunctionParameter", "OUT")
      returns == Into(Before(<<"returns">>, Typed \cup Own("y")), "ReturnType")
        \cup As(Into(Before(<<"returns", "setof">>, Typed), "ReturnType"), "Setof", "true")
        \cup Before(<<"returns", "table">>, Wrapped(column))
      create(w, A) == Chain(<<Words(<<"create">>), Replaced, Made("CreateFunctionStmt", w), Id("Funcname"), A>>)
      function == Words(<<"function">>)
      procedure == Said(<<"procedure">>, "IsProcedure", "true")
      strict == Said(<<"returns", "null", "on", "null", "input">>, "Defname", "strict")
      short == {p \in option : Len(p.text) <= 2}
  IN  create(function, Then(Wrapped(parameter(mode, type) \cup parameter(None, default) \cup two), Before(<<"as">>, Def("as", Str("Arg")))))
      \cup create(procedure, Wrapped(Maybe(parameter(None, type))))
      \cup create(function, Of(Wrapped(None), returns, Then(option \cup strict, Maybe(short))) \cup Then(Wrapped(None), option))

\* parse_func.go:282: a trigger
TriggerSyntax ==
  LET event == UNION {Said(<<t>>, "Events", t) : t \in {"insert", "delete", "update", "truncate"}}
        \cup Then(Said(<<"update">>, "Events", "update"), Before(<<"of">>, Ids("Columns")))
      for == Maybe(Words(<<"for", "each", "statement">>) \cup Said(<<"for", "each", "row">>, "Row", "true"))
      call(w) == Of(Words(<<"execute", w>>), Lit({"y"}, "Funcname"), Wrapped(Maybe(Into(X, "Args"))))
      timing(w) == Said(w, "Timing", w[1])
      head(A) == Chain(<<Words(<<"create">>), Replaced, Made("CreateTrigStmt", Words(<<"trigger">>)), Id("Trigname"),
                         A, Before(<<"on">>, Id("Relation"))>>)
  IN  Of(head(Then(timing(<<"before">>) \cup timing(<<"instead", "of">>), event)), for, call("function"))
      \cup Of(head(Of(timing(<<"after">>), event, Before(<<"or">>, event))),
              Clause(<<"when">>, Wrapped(X), "WhenClause"), call("procedure"))

\* parse_func.go:366: the actions of a rule are statements.
RuleSyntax ==
  LET delete == Made("DeleteStmt", Relation(<<"delete", "from">>))
      action == delete \cup Made("SelectStmt", Simple(X))
        \cup Made("NotifyStmt", Before(<<"notify">>, Lit({"y"}, "Conditionname")))
      event(e) == Said(<<e>>, "Event", e)
      rule(r, where, do) == Chain(<<Words(<<"create">>), r, Made("RuleStmt", Words(<<"rule">>)), Id("Rulename"), Words(<<"as", "on">>),
        event("select") \cup event("insert"), Before(<<"to">>, Id("Relation")), where, Words(<<"do">>), do>>)
      instead == May(<<"instead">>, "Instead", "true") \cup Words(<<"also">>)
  IN  rule(Replaced, Clause(<<"where">>, X, "WhereClause"), Then(instead, Words(<<"nothing">>) \cup action))
      \cup rule(None, None, Wrapped(action \cup Of(action, Words(<<"semi">>), action)))

\* parse_utility.go:3, parse_matview.go:3, 52 and 79
ViewSyntax ==
  LET kept == May(<<"temp">>, "Persistence", "TEMP")
      checked == Said(<<"with", "cascaded", "check", "option">>, "WithCheckOption", "CASCADED")
        \cup Said(<<"with", "local", "check", "option">>, "WithCheckOption", "LOCAL")
        \cup Said(<<"with", "check", "option">>, "WithCheckOption", "CASCADED")
      data(field, value) == May(<<"with", "no", "data">>, field, value) \cup Words(<<"with", "data">>)
  IN  Chain(<<Words(<<"create">>), kept, Replaced, Made("ViewStmt", Words(<<"view">>)), Id("View"),
              Maybe(Wrapped(Ids("Aliases"))), Before(<<"as">>, AQuery), Maybe(checked)>>)
      \cup Chain(<<Create("CreateMatViewStmt", <<"materialized", "view">>), NewOnly, Id("Relation"),
                   Maybe(Before(<<"using">>, Lit({"y"}, "AccessMethod"))), Before(<<"as">>, AQuery), data("WithData", "false")>>)
      \cup Made("RefreshMatViewStmt", Of(Words(<<"refresh", "materialized", "view">>),
             May(<<"concurrently">>, "Concurrent", "true"), Then(Id("Relation"), data("SkipData", "true"))))
      \cup Chain(<<Create("CreateStatsStmt", <<"statistics">>), NewOnly, Id("Defnames"), Maybe(Wrapped(Ids("StatTypes"))),
                   Before(<<"on">>, Listed(Into(X, "Exprs"))), Before(<<"from">>, Id("Relations"))>>)

\* parse_define.go, and parse_grant.go:322 and 345
DefineSyntax ==
  LET define(kind, w) == Chain(<<Words(<<"create">>), Is("Node", "DefineStmt"), Is("Kind", kind), Words(w)>>)
      aggregate == Chain(<<Words(<<"create">>), Replaced, Is("Node", "DefineStmt"), Is("Kind", "aggregate"),
                           Words(<<"aggregate">>), Id("Defnames")>>)
      old == Then(Is("OldStyle", "true"), Of(Lit({"sfunc"}, "Defname"), Before(<<"eq">>, Id("Arg")),
               Maybe(Of(Words(<<"comma">>), Lit({"stype"}, "Defname"), Before(<<"eq">>, Lit({"y"}, "Arg"))))))
      args(field) == Wrapped(Maybe(Listed(Into(Typed \cup Own("y"), field))))
      func == Into(Then(Id("Funcname"), Maybe(args("Funcargs"))), "Func")
      sql(w, field) == Into(Before(<<w, "sql", "with", "function">>, Then(Id("Funcname"), args("Funcargs"))), field)
      item(w, n, A) == Chain(<<Words(<<w>>), Is("ItemType", n), Lit({"1"}, "Number"), A>>)
      items == item("operator", "1", Of(Lit({"lt"}, "Name"), Maybe(args("ClassArgs")),
                                        Words(<<"for", "search">>) \cup May(<<"for", "order", "by", "x">>, "OrderFamily", "x")))
        \cup item("function", "2", Then(Id("Name"), args("ClassArgs")))
        \cup Chain(<<Words(<<"storage">>), Is("ItemType", "3"), Into(Typed, "StoredType")>>)
      type(A) == Chain(<<Words(<<"create", "type">>), Id("TypeName"), A>>)
  IN  Then(aggregate, Wrapped(old) \cup Then(args("Args"), Wrapped(Then(Lit({"sfunc"}, "Defname"), Before(<<"eq">>, Id("Arg"))))))
      \cup Of(define("operator", <<"operator">>), Lit({"plus"}, "Defnames") \cup Of(Id("Defnames"), Words(<<"dot">>), Lit({"op"}, "Defnames")), Defs)
      \cup Chain(<<Create("DefineStmt", <<"text", "search">>), Said(<<"parser">>, "Kind", "parser"), Id("Defnames"), Defs>>)
      \cup Chain(<<define("collation", <<"collation">>), NewOnly, Id("Defnames"), Defs \cup Before(<<"from">>, Def("from", Lit({"y"}, "Arg")))>>)
      \cup Chain(<<Create("CreateCastStmt", <<"cast">>), Wrapped(Of(Into(Typed, "SourceType"), Words(<<"as">>), Into(Own("y"), "TargetType"))),
                   Words(<<"without", "function">>) \cup Before(<<"with">>, Before(<<"function">>, func) \cup Said(<<"inout">>, "Inout", "true")),
                   May(<<"as", "implicit">>, "Context", "IMPLICIT")>>)
      \cup Chain(<<Words(<<"create">>), Replaced, Made("CreateTransformStmt", Words(<<"transform">>)), Before(<<"for">>, Typed), Before(<<"language">>, Id("Lang")),
                   Wrapped(sql("from", "FromSQL") \cup Of(sql("from", "FromSQL"), Words(<<"comma">>), sql("to", "ToSQL")))>>)
      \cup Chain(<<Create("CreateAmStmt", <<"access", "method">>), Id("AmName"), Said(<<"type", "index">>, "AmType", "INDEX"),
                   Before(<<"handler">>, Lit({"y"}, "HandlerName"))>>)
      \cup Chain(<<Create("CreateOpClassStmt", <<"operator", "class">>), Id("OpClassName"), May(<<"default">>, "IsDefault", "true"),
                   Before(<<"for", "type">>, Into(Own("y"), "DataType")), Before(<<"using">>, Id("AmName")),
                   Maybe(Before(<<"family">>, Id("OpFamily"))), Before(<<"as">>, items)>>)
      \cup Chain(<<Create("CreateOpFamilyStmt", <<"operator", "family">>), Id("OpFamilyName"), Before(<<"using">>, Id("AmName"))>>)
      \cup Chain(<<Words(<<"create">>), Replaced, Is("Node", "CreatePLangStmt"), May(<<"trusted">>, "Trusted", "true"),
                   Optional("procedural"), Before(<<"language">>, Id("PLName")), Maybe(Before(<<"handler">>, Id("PLHandler"))),
                   Maybe(Before(<<"validator">>, Id("PLValidator")))>>)
      \cup Chain(<<Words(<<"create">>), May(<<"default">>, "IsDefault", "true"), Made("CreateConversionStmt", Words(<<"conversion">>)),
                   Id("ConvName"), Before(<<"for">>, Str("ForEncoding")), Before(<<"to">>, Str("ToEncoding")), Before(<<"from">>, Id("FuncName"))>>)
      \cup Chain(<<Create("CreateDomainStmt", <<"domain">>), Id("Domainname"), Before(<<"as">>, Typed), Maybe(Constrained)>>)
      \cup type(Then(Is("Node", "DefineStmt"), Is("Kind", "type")))
      \cup type(Before(<<"as", "range">>, Of(Is("Node", "DefineStmt"), Is("Kind", "type"), Defs)))
      \cup type(Before(<<"as", "enum">>, Then(Is("Node", "CreateEnumStmt"), Wrapped(Maybe(Listed(Str("Vals")))))))
      \cup type(Before(<<"as">>, Then(Is("Node", "CompositeTypeStmt"), Wrapped(Listed(Column_(Typed \cup Own("y"), None))))))
-----------------------------------------------------------------------------
\* parse_seq.go, parse_fdw.go, parse_database.go, parse_grant.go:199-320
ServiceSyntax ==
  LET int(w) == Def(w[1], Lit({"1"}, "Arg"))
      sequence == Before(<<"increment", "by">>, Def("increment", Then(Said(<<"minus">>, "Arg", "-"), Lit({"1"}, "Arg"))))
        \cup Before(<<"start", "with">>, int(<<"start">>)) \cup Before(<<"cache">>, int(<<"cache">>))
        \cup Said(<<"no", "maxvalue">>, "Defname", "maxvalue")
        \cup Before(<<"cycle">>, Def("cycle", Is("Arg", "1"))) \cup Before(<<"no", "cycle">>, Def("cycle", Is("Arg", "0")))
        \cup Before(<<"owned", "by">>, Def("owned_by", Id("Arg") \cup Words(<<"none">>)))
        \cup Said(<<"restart">>, "Defname", "restart")
      version == Before(<<"version">>, Def("version", Str("Arg") \cup Lit({"y"}, "Arg")))
      with == Maybe(Before(<<"with">>, Defs))
      quals == Of(Maybe(Before(<<"to">>, Listed(Id("Roles")))), Clause(<<"using">>, Wrapped(X), "Qual"),
                  Clause(<<"with", "check">>, Wrapped(X), "WithCheck"))
      filter == Of(Id("Defname"), Words(<<"in">>), Wrapped(Listed(Str("Arg"))))
      options == Maybe(Before(<<"options">>, Wrapped(Listed(Then(Id("Defname"), Str("Arg"))))))
      fdw == Before(<<"handler">>, Def("handler", Id("Arg"))) \cup Said(<<"no", "validator">>, "Defname", "validator")
      server == Before(<<"server">>, Lit({"y"}, "Servername"))
      database == Before(<<"owner">>, Then(Is("Defname", "owner"), Then(Optional("eq"), Id("Arg"))))
        \cup Before(<<"connection", "limit">>, Def("connection_limit", Lit({"1"}, "Arg")))
        \cup Before(<<"oid", "eq">>, Def("oid", Words(<<"default">>))) \cup Before(<<"is_template">>, Def("is_template", Lit({"true"}, "Arg")))
      role == Said(<<"login">>, "Defname", "login") \cup Before(<<"password">>, Def("password", Str("Arg")))
        \cup Said(<<"password", "null">>, "Defname", "password_null")
        \cup Before(<<"valid", "until">>, Def("valid_until", Str("Arg")))
        \cup Before(<<"connection", "limit">>, Def("connection_limit", Lit({"1"}, "Arg")))
        \cup Before(<<"in", "role">>, Def("in_role", Listed(Id("Arg"))))
      body == Of(Id("RoleName"), Optional("with"), Maybe(role \cup Then(role, role)))
      twice(A) == Maybe(A \cup Then(A, A))
      set == Then(Is("Node", "VariableSetStmt"), Of(Words(<<"set">>), Lit({"y"}, "Name"), Before(<<"to">>, Lit({"x"}, "Args"))))
        \cup Of(Is("Node", "VariableSetStmt"), Said(<<"reset">>, "IsReset", "true"), Lit({"y"}, "Name"))
      temporary == May(<<"temp">>, "Persistence", "TEMP") \cup Words(<<"unlogged">>)
      new(p, absent, list) == Chain(<<Words(<<"create">>), p, Made("CreateSeqStmt", Words(<<"sequence">>)), absent, Id("Name"), list>>)
  IN  new(None, None, twice(sequence)) \cup new(temporary, NewOnly, sequence)
      \cup Chain(<<Words(<<"alter">>), Made("AlterSeqStmt", Words(<<"sequence">>)), May(<<"if", "exists">>, "IfExists", "true"), Id("Name"), sequence>>)
      \cup Chain(<<Create("CreateExtensionStmt", <<"extension">>), NewOnly, Id("Extname"), Optional("with"),
                   twice(Before(<<"schema">>, Def("schema", Id("Arg"))) \cup version \cup Said(<<"cascade">>, "Defname", "cascade"))>>)
      \cup Chain(<<Words(<<"alter">>), Made("AlterExtensionStmt", Words(<<"extension">>)), Id("Extname"), Words(<<"update">>), Maybe(Before(<<"to">>, Def("version", Str("Arg"))))>>)
      \cup Chain(<<Create("CreatePolicyStmt", <<"policy">>), Id("PolicyName"), Before(<<"on">>, Id("Table")),
                   May(<<"as", "restrictive">>, "Permissive", "false") \cup Words(<<"as", "x">>), May(<<"for", "select">>, "CmdName", "select"), quals>>)
      \cup Chain(<<Words(<<"alter">>), Made("AlterPolicyStmt", Words(<<"policy">>)), Id("PolicyName"), Before(<<"on">>, Id("Table")), quals>>)
      \cup Chain(<<Create("CreatePublicationStmt", <<"publication">>), Id("Pubname"),
                   Maybe(Before(<<"for">>, Said(<<"all", "tables">>, "ForAllTables", "true") \cup Then(Optional("table"), Listed(Id("Tables"))))), with>>)
      \cup Chain(<<Create("CreateSubscriptionStmt", <<"subscription">>), Id("Subname"), Before(<<"connection">>, Str("Conninfo")),
                   Before(<<"publication">>, Ids("Publication")), with>>)
      \cup Chain(<<Create("CreateEventTrigStmt", <<"event", "trigger">>), Id("Trigname"), Before(<<"on">>, Id("Eventname")),
                   Maybe(Before(<<"when">>, filter \cup Of(filter, Words(<<"and">>), filter))), Words(<<"execute", "function">>), Id("Funcname"), Wrapped(None)>>)
      \cup Chain(<<Create("CreateFdwStmt", <<"foreign", "data", "wrapper">>), Id("Fdwname"), twice(fdw), options>>)
      \cup Chain(<<Create("CreateForeignServerStmt", <<"server">>), NewOnly, Id("Servername"), Maybe(Before(<<"type">>, Str("ServerType"))),
                   Maybe(Before(<<"version">>, Str("Version"))), Before(<<"foreign", "data", "wrapper">>, Id("Fdwname")), options>>)
      \cup Chain(<<Create("CreateForeignTableStmt", <<"foreign", "table">>), NewOnly, Id("Relation"),
                   Wrapped(Maybe(Listed(Column_(Typed, None)))), server, options>>)
      \cup Chain(<<Create("CreateUserMappingStmt", <<"user", "mapping">>), NewOnly, Before(<<"for">>, Id("User") \cup Said(<<"user">>, "User", "current_user")), server, options>>)
      \cup Chain(<<Made("ImportForeignSchemaStmt", Words(<<"import", "foreign", "schema">>)), Id("RemoteSchema"),
                   Maybe(Then(Said(<<"limit", "to">>, "ListType", "limit_to") \cup Said(<<"except">>, "ListType", "except"), Wrapped(Ids("TableList")))),
                   Before(<<"from", "server">>, Id("ServerName")), Before(<<"into">>, Lit({"y"}, "LocalSchema")), options>>)
      \cup Chain(<<Create("CreatedbStmt", <<"database">>), Id("Dbname"), Optional("with"), twice(database)>>)
      \cup Chain(<<Words(<<"drop">>), Made("DropdbStmt", Words(<<"database">>)), IfThere, Id("Dbname"), Maybe(Before(<<"with">>, Wrapped(Id("Defname"))))>>)
      \cup Chain(<<Words(<<"alter", "database">>), Id("Dbname"), Then(Is("Node", "AlterDatabaseSetStmt"), set)
                     \cup Then(Is("Node", "AlterDatabaseStmt"), database)>>)
      \cup Chain(<<Create("CreateTableSpaceStmt", <<"tablespace">>), Id("Tablespacename"), Maybe(Before(<<"owner">>, Id("Owner"))), Before(<<"location">>, Str("Location")), with>>)
      \cup Chain(<<Words(<<"create">>), Is("Node", "CreateRoleStmt"), UNION {Said(<<t>>, "StmtType", t) : t \in {"role", "user", "group"}}, body>>)
      \cup Chain(<<Words(<<"alter", "role">>), Id("RoleName"), Then(Is("Node", "AlterRoleSetStmt"), set)
                     \cup Of(Is("Node", "AlterRoleStmt"), Optional("with"), role)>>)
      \cup Chain(<<Create("CreateSchemaStmt", <<"schema">>), NewOnly, Before(<<"authorization">>, Id("AuthRole"))
                     \cup Then(Id("Schemaname"), Maybe(Before(<<"authorization">>, Id("AuthRole"))))>>)
-----------------------------------------------------------------------------
\* parse_alter.go, and parse_matview.go:134
AlterSyntax ==
  LET alter(w, A) == Chain(<<Words(<<"alter">>), Words(w), A>>)
      named(type, w, A) == Chain(<<Words(<<"alter">>), Made(type, Words(w)), A>>)
      owner(t) == Chain(<<Words(<<"owner", "to">>), Is("Node", "AlterOwnerStmt"), Is("ObjectType", t), Lit({"y"}, "NewOwner")>>)
      renames(w, t) == Chain(<<Words(w), Is("Node", "RenameStmt"), Is("RenameType", t), Lit({"y"}, "Newname")>>)
      moves(t) == owner(t) \cup renames(<<"rename", "to">>, t)
      all(t) == moves(t) \cup renames(<<"set", "schema">>, t)
      moved(t, A) == alter(<<t>>, Then(Id("Object"), A))
      domain(w, subtype, A) == Then(Then(Words(w), Then(Is("Node", "AlterDomainStmt"), Is("Subtype", subtype))), A)
      domains == domain(<<"set", "not", "null">>, "O", None) \cup domain(<<"set", "default">>, "T", Into(Sum, "Def"))
        \cup domain(<<"drop", "not", "null">>, "N", None) \cup domain(<<"drop", "default">>, "N", None)
        \cup domain(<<"drop", "constraint">>, "X", Then(IfThere, Id("Name"))) \cup domain(<<"add">>, "C", TableConstraints)
        \cup domain(<<"validate", "constraint">>, "V", Id("Name"))
      enum(A) == Then(Is("Node", "AlterEnumStmt"), A)
      value == Chain(<<Words(<<"add", "value">>), NewOnly, Str("NewVal"),
                       Maybe(Of(Words(<<"before">>), Str("NewValNeighbor"), Is("NewValIsAfter", "false"))
                             \cup Of(Words(<<"after">>), Str("NewValNeighbor"), Is("NewValIsAfter", "true")))>>)
      types == enum(value \cup Of(Before(<<"rename", "value">>, Str("RenameOldVal")), Words(<<"to">>), Str("NewVal")))
      argument == Into(Of(Optional("variadic") \cup Words(<<"in", "out">>), Optional("x"), Typed) \cup Own("y"), "Funcargs")
      args == Wrapped(None \cup argument \cup Of(argument, Words(<<"comma">>), Into(Typed, "Funcargs")))
      does(w, name, A) == Before(w, Def(name, A))
      action == does(<<"rename", "to">>, "rename", Id("Arg")) \cup does(<<"owner", "to">>, "owner", Id("Arg"))
        \cup does(<<"set", "schema">>, "schema", Id("Arg")) \cup does(<<"security">>, "security", Id("Arg"))
        \cup Of(Words(<<"set">>), Lit({"y"}, "Defname"), Before(<<"eq">>, Id("Arg")))
      function(t, A) == Chain(<<Words(<<"alter">>), Is("Node", "AlterFunctionStmt"), Said(<<t>>, "ObjType", t), Id("Funcname"), A>>)
      tables(w) == Said(<<w>>, "TableAction", w)
      subscription(w, kind) == Said(w, "Kind", kind)
      set == Of(Words(<<"set">>), Lit({"y"}, "Name"), Before(<<"to">>, Lit({"x"}, "Args")))
      grant == Then(Before(<<"grant">>, Lit({"select"}, "Privileges")),
                    Of(Words(<<"on">>), Then(Is("Node", "GrantStmt"), Is("IsGrant", "true")),
                       Of(Said(<<"table">>, "TargetType", "table"), Id("Objects"), Before(<<"to">>, Id("Grantees")))))
      within == Before(<<"for", "role">>, Def("for_role", Listed(Id("Arg")))) \cup Before(<<"in", "schema">>, Def("in_schema", Ids("Arg")))
  IN  moved("domain", all("domain") \cup domains) \cup moved("type", owner("type") \cup renames(<<"set", "schema">>, "type") \cup types)
      \cup moved("schema", moves("schema"))
      \cup moved("statistics", all("statistics")
                    \cup Before(<<"set", "statistics">>, Then(Is("Node", "AlterStatsStmt"), Lit({"1"}, "Stxstattarget"))))
      \cup alter(<<"aggregate">>, Of(Id("Object"), Wrapped(Words(<<"star">>) \cup Words(<<"int">>) \cup Words(<<"x", "int">>)), all("aggregate")))
      \cup function("function", Then(args, does(<<"security">>, "security", Id("Arg"))))
      \cup function("procedure", Then(Maybe(Wrapped(None)), action \cup Then(action, action)))
      \cup named("AlterPublicationStmt", <<"publication">>, Then(Id("Pubname"),
              Of(tables("add") \cup tables("drop") \cup tables("set"), Words(<<"table">>), Ids("Tables")) \cup Before(<<"set">>, Defs)))
      \cup named("AlterSubscriptionStmt", <<"subscription">>, Then(Id("Subname"),
              Then(subscription(<<"connection">>, "connection"), Str("Conninfo"))
              \cup Then(subscription(<<"set", "publication">>, "publication") \cup subscription(<<"add", "publication">>, "add_publication")
                         \cup subscription(<<"drop", "publication">>, "drop_publication"), Then(Ids("Publication"), Maybe(Before(<<"with">>, Defs))))
              \cup Then(subscription(<<"set">>, "options"), Defs)
              \cup UNION {subscription(<<k>>, k) : k \in {"enable", "disable"}} \cup subscription(<<"refresh", "publication">>, "refresh")))
      \cup named("AlterEventTrigStmt", <<"event", "trigger">>, Then(Id("Trigname"),
              Said(<<"enable">>, "Tgenabled", "O") \cup Said(<<"enable", "replica">>, "Tgenabled", "R")
              \cup Said(<<"enable", "always">>, "Tgenabled", "A") \cup Said(<<"disable">>, "Tgenabled", "D")))
      \cup named("AlterSystemStmt", <<"system">>, Then(Is("Node", "VariableSetStmt"),
              set \cup Then(Said(<<"reset">>, "IsReset", "true"), Lit({"y"}, "Name"))))
      \cup named("AlterDefaultPrivilegesStmt", <<"default", "privileges">>, Then(Maybe(within \cup Then(within, within)), grant))

\* parse_ddl2.go:627, parse_drop.go
DropSyntax ==
  LET kind(k) == Said(<<k>>, "RemoveType", k)
      plain == UNION {kind(k) : k \in {"table", "view", "sequence", "type", "schema", "extension", "domain"}}
      concurrent == May(<<"concurrently">>, "Concurrent", "true")
      index == Of(Words(<<"index">>), concurrent, Is("RemoveType", "index")) \cup Said(<<"materialized", "view">>, "RemoveType", "matview")
      objects(A) == Chain(<<Words(<<"drop">>), Is("Node", "DropStmt"), A, IfThere, Id("Objects")>>)
      function(t) == Said(<<t>>, "ObjType", t)
      roles == UNION {Words(<<w>>) : w \in {"role", "user", "group"}}
  IN  Of(objects(plain \cup index), Maybe(Before(<<"comma">>, Lit({"y"}, "Objects"))), Drops)
      \cup Of(objects(kind("trigger") \cup kind("rule")), Before(<<"on">>, Lit({"y"}, "Objects")), Drops)
      \cup Chain(<<Words(<<"drop">>), Is("Node", "RemoveFuncStmt"), function("function") \cup function("aggregate"), IfThere, Id("Funcname"),
                   Maybe(Wrapped(Maybe(Listed(Into(Typed \cup Own("y"), "Funcargs"))))), Drops>>)
      \cup Chain(<<Words(<<"drop">>), Made("DropRoleStmt", roles), IfThere, Ids("Roles")>>)
      \cup Chain(<<Words(<<"drop">>), Made("DropOwnedStmt", Words(<<"owned", "by">>)), Ids("Roles"), Drops>>)
-----------------------------------------------------------------------------
AllDefinitions == TableSyntax \cup IndexSyntax \cup AlterTableSyntax \cup FunctionSyntax \cup TriggerSyntax
  \cup RuleSyntax \cup ViewSyntax \cup DefineSyntax \cup ServiceSyntax \cup AlterSyntax \cup DropSyntax
DefinitionTexts == {p.text : p \in AllDefinitions}

\* Every definition is parsed without an error into the node that the comment
\* of its parse function describes: each clause in its own field, whatever
\* clauses stand before and after it (the parse functions of parse_ddl.go,
\* parse_ddl2.go, parse_define.go, parse_func.go, parse_seq.go, parse_fdw.go,
\* parse_database.go, parse_matview.go, parse_grant.go, parse_alter.go and
\* parse_drop.go).
DefinitionsAreParsed == ParsedAs(AllDefinitions, DefinitionTexts)
-----------------------------------------------------------------------------
\* What the turn k of the list made of the tokens up to the next semicolon
Ends(k) == CHOOSE n \in rounds[k]..EOF :
  /\ TokenAt(n) \in {"semi", "EOF"}
  /\ \A m \in rounds[k]..(n - 1) : TokenAt(m) # "semi"
Reads(k) == SubSeq(text, rounds[k], Ends(k) - 1)
KeepsToItself(k) == LastOf(k) <= Ends(k)
Outcome(k) ==
  LET own == {s \in DOMAIN stmts : stmts[s].from = rounds[k]}
      Offset(n) == IF n = 0 THEN 0 ELSE n - rounds[k]
  IN  <<{<<nodes[s].tree, Offset(stmts[s].end), Offset(nodes[s].loc)>> : s \in own},
        {Offset(log[n]) : n \in {m \in DOMAIN log : log[m] \in rounds[k]..Ends(k)}}>>

\* A statement means the same wherever it stands in the list: the fields of the
\* parser that outlive a statement carry nothing over from the one before, not
\* even from one that ended in an error in the middle of the DEFAULT of a column
\* (parseStmtList, and inColDefault of parse_ddl.go:553-558).
NothingIsCarriedOver ==
  pc = "done" =>
    \A k, m \in DOMAIN rounds :
      Reads(k) = Reads(m) /\ KeepsToItself(k) /\ KeepsToItself(m) => Outcome(k) = Outcome(m)
-----------------------------------------------------------------------------
\* README.md:11: the node is equivalent to PostgreSQL's, so that two statements
\* that differ in more than words without a meaning have different nodes. It is
\* false of REVOKE GRANT OPTION FOR, of NOT SIMILAR TO (nodes.go:73), of NOT IN
\* (SELECT ...), of what ALTER DOMAIN drops (nodes.go:1870), of IS JSON OBJECT
\* (parse_xmljson.go:485) and of STANDALONE in XMLROOT.
TreesTellApart ==
  LET meaning(s) == SelectSeq(Piece(s.from, s.end - 1),
                              LAMBDA t : t \notin {"table", "restrict", "privileges"})
  IN  pc = "done" /\ log = <<>> =>
        \A s, t \in DOMAIN stmts :
          nodes[s].tree = nodes[t].tree => meaning(stmts[s]) = meaning(stmts[t])
=============================================================================
