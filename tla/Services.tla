------------------------------- MODULE Services -------------------------------
(***************************************************************************)
(* parser/parse_seq.go, parse_fdw.go and parse_database.go, and the roles  *)
(* and schemas of parse_grant.go, as routines of Parser.tla.  An option    *)
(* that has one word in the source and several in the tree is written as   *)
(* its name and its arguments.                                             *)
(***************************************************************************)
EXTENDS Objects

SignedIconst == <<Got("minus" :> <<Set("Arg", "-")>>, <<Opt("plus")>>), Integer("Arg")>>
SeqOptions ==
  LET option(o, is) == <<Set("Defname", o)>> \o is
      no == [t \in {"minvalue", "maxvalue"} |-> option(t, <<>>)] @@ "cycle" :> option("cycle", <<Set("Arg", "0")>>)
  IN  <<While(
        "increment" :> <<Opt("by")>> \o option("increment", SignedIconst)
        @@ "start" :> <<Opt("with")>> \o option("start", SignedIconst)
        @@ [t \in {"minvalue", "maxvalue", "cache"} |-> option(t, SignedIconst)]
        @@ "cycle" :> option("cycle", <<Set("Arg", "1")>>)
        @@ "no" :> <<Got(no, <<Fail, Skip>>)>>
        @@ "owned" :> <<Want("by"), Set("Defname", "owned_by"), Got("none" :> <<>>, QualifiedName("Arg"))>>
        @@ "as" :> option("as", <<Ident("Arg")>>)
        @@ "restart" :> <<Opt("with")>> \o option("restart", <<AtAny(IntConsts, SignedIconst)>>))>>

CreateSequence == <<Want("sequence"), Mark, IfNotExists("IfNotExists")>> \o QualifiedName("Name")
  \o <<Call("SeqOptions")>>
AlterSequence == <<Want("sequence"), Mark, IfGot("if", <<Want("exists"), Set("IfExists", "true")>>)>>
  \o QualifiedName("Name") \o <<Call("SeqOptions")>>

Version(field) == At([t \in StringConsts |-> <<Take(field)>>], <<Ident(field)>>)
CreateExtension == <<Want("extension"), Mark, IfNotExists("IfNotExists"), Ident("Extname"), Opt("with"),
  While("schema" :> <<Set("Defname", "schema"), Ident("Arg")>>
        @@ "version" :> <<Set("Defname", "version"), Version("Arg")>>
        @@ "cascade" :> <<Set("Defname", "cascade")>>)>>
AlterExtension == <<Want("extension"), Mark, Ident("Extname"),
  IfGot("update", <<IfGot("to", <<Set("Defname", "version"), Version("Arg")>>)>>)>>

\* What a policy says after its table, in CREATE and in ALTER
PolicyRest == <<IfGot("to", Roles("Roles")), IfGot("using", Parens(Expr("Qual"))),
                IfWith(<<Want("check")>> \o Parens(Expr("WithCheck")))>>
CreatePolicy ==
  LET commands == {"all", "select", "insert", "update", "delete"}
  IN  <<Want("policy"), Mark, Ident("PolicyName"), Want("on")>> \o QualifiedName("Table")
      \o <<IfGot("as", <<At("restrictive" :> <<Skip, Set("Permissive", "false")>>,
                           <<Ident("As"), Clear({"As"})>>)>>),
           IfGot("for", <<Got([t \in commands |-> <<Set("CmdName", t)>>], <<Ident("CmdName")>>)>>)>>
      \o PolicyRest

CreatePublication == <<Want("publication"), Mark, Ident("Pubname"),
  IfGot("for", <<Got("all" :> <<Want("tables"), Set("ForAllTables", "true")>>,
                     <<Opt("table")>> \o QualifiedNames("Tables"))>>),
  IfWith(DefElems(Floats))>>
CreateSubscription == <<Want("subscription"), Mark, Ident("Subname"), Want("connection"), Text("Conninfo"),
  Want("publication")>> \o NameList("Publication") \o <<IfWith(DefElems(Floats))>>

\* An entry of WHEN that has no values is none; its variable is here by itself.
EventFilter == <<Ident("Defname"), Want("in")>> \o Parens(<<Strings("Arg")>>)
  \o <<IfGot("and", <<Call("EventFilter")>>)>>
CreateEventTrigger == <<Want("trigger"), Mark, Ident("Trigname"), Want("on"), Ident("Eventname"),
    IfGot("when", <<Call("EventFilter")>>), Want("execute"), Got("function" :> <<>>, <<Opt("procedure")>>)>>
  \o QualifiedName("Funcname") \o Parens(<<>>)
-----------------------------------------------------------------------------
FdwOptionList == Parens(ListOf(<<ColLabel("Defname"), Text("Arg")>>))
FdwOptions == IfGot("options", FdwOptionList)
CreateFdw == <<Want("data"), Want("wrapper"), Mark, Ident("Fdwname"), Call("FdwFunctions")>>
FdwFunctions ==
  LET option(o, is) == <<Set("Defname", o)>> \o is
      functions == {"handler", "validator"}
  IN  <<While([f \in functions |-> option(f, <<Ident("Arg")>>)]
              @@ "no" :> <<Got([f \in functions |-> option(f, <<>>)], <<>>)>>
              @@ "options" :> FdwOptionList)>>

CreateServer == <<Want("server"), Mark, IfNotExists("IfNotExists"), Ident("Servername"),
  IfGot("type", <<Text("ServerType")>>),
  IfGot("version", <<At([t \in StringConsts |-> <<Take("Version")>>], <<Opt("null")>>)>>),
  Want("foreign"), Want("data"), Want("wrapper"), Ident("Fdwname"), FdwOptions>>

CreateForeignTable == <<Want("table"), Mark, IfNotExists("IfNotExists")>> \o RangeVar("Relation")
  \o <<IfGot("lparen", <<At("rparen" :> <<>>, ListOf(<<Call("ColumnDef")>>)), Want("rparen")>>),
       Want("server"), Ident("Servername"), FdwOptions>>

CreateUserMapping == <<Want("mapping"), Mark, IfNotExists("IfNotExists"), Want("for"),
  Got([t \in {"current_user", "current_role", "session_user"} |-> <<Set("User", t)>>]
      @@ "user" :> <<Set("User", "current_user")>>, <<Ident("User")>>),
  Want("server"), Ident("Servername"), FdwOptions>>

ImportForeignSchema ==
  LET tables(type) == <<Set("ListType", type)>> \o Parens(NameList("TableList"))
  IN  <<Want("import"), Mark, Want("foreign"), Want("schema"), Ident("RemoteSchema"),
        Got("limit" :> <<Want("to")>> \o tables("limit_to") @@ "except" :> tables("except"), <<>>),
        Want("from"), Want("server"), Ident("ServerName"), Want("into"), Ident("LocalSchema"), FdwOptions>>
-----------------------------------------------------------------------------
CreatedbKeys == {"owner", "template", "encoding", "locale", "lc_collate", "lc_ctype",
  "icu_locale", "icu_rules", "locale_provider", "collation_version", "tablespace",
  "allow_connections", "connection_limit", "is_template", "oid", "strategy", "builtin_locale"}
CreatedbOptions ==
  LET option(o) == <<Set("Defname", o), Opt("eq"),
        At([t \in StringConsts \cup {"true", "false"} |-> <<Take("Arg")>>]
           @@ [t \in IntConsts |-> <<Integer("Arg")>>] @@ "default" :> <<Skip>>, <<Ident("Arg")>>)>>
  IN  <<While([t \in CreatedbKeys |-> option(t)]
              @@ "connection" :> <<Want("limit")>> \o option("connection_limit"))>>

CreateDatabase == <<Want("database"), Mark, Ident("Dbname"), Opt("with"), Call("CreatedbOptions")>>
DropDatabase == <<Want("database"), Mark, IfExists, Ident("Dbname"), IfWith(DefElems(Floats))>>
CreateTablespace == <<Want("tablespace"), Mark, Ident("Tablespacename"), IfGot("owner", <<Ident("Owner")>>),
  Want("location"), Text("Location"), IfWith(DefElems(Floats))>>

\* SET and RESET inside a statement have a node of their own.
SetOrReset(no) == At("set" :> <<Inner("SetStmt")>>
  @@ "reset" :> <<Set("Node", "VariableSetStmt"), Inner("ResetStmt")>>, no)
AlterDatabase == <<Want("database"), Mark, Ident("Dbname"),
  At([t \in {"set", "reset"} |-> <<Set("Node", "AlterDatabaseSetStmt"), SetOrReset(<<>>)>>],
     <<Set("Node", "AlterDatabaseStmt"), Opt("with"), Call("CreatedbOptions")>>)>>
-----------------------------------------------------------------------------
\* The words of roles that are identifiers; INHERIT is a keyword, and none.
RoleOptionNames == {"superuser", "nosuperuser", "createdb", "nocreatedb", "createrole",
  "nocreaterole", "login", "nologin", "replication", "noreplication", "bypassrls",
  "nobypassrls", "inherit", "noinherit"} \cap Identifiers
RoleOptions ==
  LET option(o, is) == <<Set("Defname", o)>> \o is
  IN  <<While([t \in RoleOptionNames |-> option(t, <<>>)]
          @@ "password" :> <<At([t \in StringConsts |-> option("password", <<Take("Arg")>>)],
                                <<IfGot("null", option("password_null", <<>>))>>)>>
          @@ "valid" :> <<Want("until"), AtAny(StringConsts, option("valid_until", <<Take("Arg")>>))>>
          @@ "connection" :> <<Want("limit")>> \o option("connection_limit", <<Integer("Arg")>>)
          @@ "in" :> <<Want("role")>> \o option("in_role", Roles("Arg")))>>

RoleBody == <<Ident("RoleName"), Opt("with"), Call("RoleOptions")>>
CreateRole == <<Mark, Got([t \in {"role", "group"} |-> <<Set("StmtType", t)>>], <<>>)>> \o RoleBody
CreateUser == <<Mark, Set("StmtType", "user")>> \o RoleBody
AlterRole == <<Skip, Mark, Ident("RoleName"),
  At([t \in {"set", "reset"} |-> <<Set("Node", "AlterRoleSetStmt"), SetOrReset(<<>>)>>],
     <<Set("Node", "AlterRoleStmt"), Opt("with"), Call("RoleOptions")>>)>>

CreateSchema ==
  LET authorization == IfGot("authorization", <<Ident("AuthRole")>>)
  IN  <<Want("schema"), Mark, IfNotExists("IfNotExists"),
        Got("authorization" :> <<Ident("AuthRole")>>, <<Ident("Schemaname"), authorization>>)>>

ServiceRoutines ==
  "SeqOptions" :> SeqOptions @@ "EventFilter" :> EventFilter @@ "FdwFunctions" :> FdwFunctions
  @@ "CreatedbOptions" :> CreatedbOptions @@ "RoleOptions" :> RoleOptions
  @@ "CreateSequence" :> CreateSequence @@ "AlterSequence" :> AlterSequence
  @@ "CreateExtension" :> CreateExtension @@ "AlterExtension" :> AlterExtension
  @@ "CreatePolicy" :> CreatePolicy @@ "CreatePublication" :> CreatePublication
  @@ "CreateSubscription" :> CreateSubscription @@ "CreateEventTrigger" :> CreateEventTrigger
  @@ "CreateFdw" :> CreateFdw @@ "CreateServer" :> CreateServer
  @@ "CreateForeignTable" :> CreateForeignTable @@ "CreateUserMapping" :> CreateUserMapping
  @@ "ImportForeignSchema" :> ImportForeignSchema @@ "CreateDatabase" :> CreateDatabase
  @@ "DropDatabase" :> DropDatabase @@ "CreateTablespace" :> CreateTablespace
  @@ "AlterDatabase" :> AlterDatabase @@ "CreateRole" :> CreateRole @@ "CreateUser" :> CreateUser
  @@ "AlterRole" :> AlterRole @@ "CreateSchema" :> CreateSchema @@ ObjectRoutines
=============================================================================
