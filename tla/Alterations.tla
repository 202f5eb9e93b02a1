----------------------------- MODULE Alterations -----------------------------
(***************************************************************************)
(* parser/parse_alter.go, parse_drop.go and the other ALTER and DROP       *)
(* statements (ALTER STATISTICS of parse_matview.go, DEFAULT PRIVILEGES of *)
(* parse_utility2.go, DROP of parse_ddl2.go), as routines of Parser.tla;   *)
(* and parseStmt with every statement.                                     *)
(***************************************************************************)
EXTENDS Services

Renamed(type) == <<Set("Node", "RenameStmt"), Set("RenameType", type), Ident("Newname")>>
RenameTo(type) == <<Want("to")>> \o Renamed(type)

\* Fault: nothing known follows, and no error is reported.
NothingSilent == <<Nil>>

Nothing == <<Fail, Nil>>

OwnerTo(type) ==
  <<Want("to"), Set("Node", "AlterOwnerStmt"), Set("ObjectType", type), Ident("NewOwner")>>

\* SET SCHEMA gives a RenameStmt too, as RENAME TO does.
AlterDomain ==
  LET is(subtype) == <<Set("Node", "AlterDomainStmt"), Set("Subtype", subtype)>>
      null == <<Want("null")>>
      failed == <<Fail>> \o <<Set("Node", "AlterDomainStmt")>>
  IN  <<Want("domain"), Mark>> \o QualifiedName("Object") \o <<Got(
        "owner" :> OwnerTo("domain") @@ "rename" :> RenameTo("domain")
        @@ "set" :> <<Got("not" :> null \o is("O") @@ "default" :> is("T") \o Expr("Def")
                          @@ "schema" :> Renamed("domain"), failed)>>
        @@ "drop" :> <<Got("not" :> null \o is("N") @@ "default" :> is("N")
                           @@ "constraint" :> is("X") \o <<IfExists, Ident("Name")>>,
                           <<Set("Node", "AlterDomainStmt")>>)>>
        @@ "add" :> is("C") \o <<Call("TableConstraint")>>
        @@ "validate" :> <<Want("constraint")>> \o is("V") \o <<Ident("Name")>>, failed)>>

AlterType ==
  LET enum(is) == <<Set("Node", "AlterEnumStmt")>> \o is
      beside(after) == <<Text("NewValNeighbor"), Set("NewValIsAfter", after)>>
      add == enum(<<IfNotExists("IfNotExists"), Text("NewVal"),
                    Got("before" :> beside("false") @@ "after" :> beside("true"), <<>>)>>)
      other == <<Set("Node", "AlterTypeStmt")>>
  IN  <<Want("type"), Mark>> \o QualifiedName("Object") \o <<Got(
        "add" :> <<Got("value" :> add, other)>>
        @@ "rename" :> <<Got("value" :> enum(<<Text("RenameOldVal"), Want("to"), Text("NewVal")>>), other)>>
        @@ "owner" :> OwnerTo("type") @@ "set" :> <<Got("schema" :> Renamed("type"), other)>>, other)>>

\* A name before another word is the name of the argument.
AlterFuncArg ==
  <<Got("in" :> <<Opt("out")>> @@ [t \in {"out", "inout", "variadic"} |-> <<>>], <<>>),
    At([t \in AnyName \ (TypeWords \cup {"setof"}) |-> <<Skip,
          At([w \in AnyWord |-> <<Call("TypeName")>>], <<Set("Names", t), Set("TypeName", "")>>)>>],
       <<Call("TypeName")>>),
    Set("Funcargs", "")>>
ArgTypes == <<At("rparen" :> <<>>, ListOf(<<Call("AlterFuncArg")>>)), Want("rparen")>>

\* The words an identifier is compared with are keywords, so only a quoted one
\* could be any of them: an identifier is taken, and ends the actions.
AlterFunction ==
  LET action(a, is) == <<Set("Defname", a)>> \o is
      set == Got("schema" :> action("schema", <<Ident("Arg")>>),
                 <<Ident("Defname"), Got([t \in {"to", "eq"} |-> <<Ident("Arg")>>], <<Set("Arg", "")>>)>>)
  IN  <<Got([t \in {"function", "procedure"} |-> <<Set("ObjType", t)>>], <<>>), Mark>>
      \o QualifiedName("Funcname") \o <<IfGot("lparen", ArgTypes),
        While("rename" :> <<Want("to")>> \o action("rename", <<Ident("Arg")>>)
              @@ "owner" :> <<Want("to")>> \o action("owner", <<Ident("Arg")>>)
              @@ "set" :> <<set>> @@ "security" :> action("security", <<Ident("Arg")>>)),
        AtAny(Identifiers, <<Skip>>)>>

\* The arguments are read, and are in no node.
AlterAggregate == <<Want("aggregate"), Mark>> \o QualifiedName("Object")
  \o <<IfGot("lparen", <<At("star" :> <<Skip, Want("rparen")>>, ArgTypes)>>), Keep({"Object"}),
       Got("owner" :> OwnerTo("aggregate") @@ "rename" :> RenameTo("aggregate")
           @@ "set" :> <<Got("schema" :> Renamed("aggregate"), Nothing)>>, Nothing)>>
AlterSchema == <<Want("schema"), Mark, Ident("Object"),
  Got("owner" :> OwnerTo("schema") @@ "rename" :> RenameTo("schema"), Nothing)>>
AlterStatistics == <<Want("statistics"), Mark>> \o QualifiedName("Object")
  \o <<Got("owner" :> OwnerTo("statistics") @@ "rename" :> RenameTo("statistics")
           @@ "set" :> <<Got("schema" :> Renamed("statistics"),
                <<Want("statistics"), Set("Node", "AlterStatsStmt"), Integer("Stxstattarget")>>)>>, Nothing)>>

AlterPolicy == <<Want("policy"), Mark, Ident("PolicyName"), Want("on")>> \o QualifiedName("Table") \o PolicyRest

AlterPublication ==
  LET tables(action) == <<Set("TableAction", action)>> \o QualifiedNames("Tables")
  IN  <<Want("publication"), Mark, Ident("Pubname"),
        Got([a \in {"add", "drop"} |-> <<Want("table")>> \o tables(a)]
            @@ "set" :> <<Got("table" :> tables("set"), DefElems({}))>>, <<>>)>>
AlterSubscription ==
  LET kind(k, is) == <<Set("Kind", k)>> \o is
      publications == NameList("Publication")
  IN  <<Want("subscription"), Mark, Ident("Subname"), Got(
        "connection" :> kind("connection", <<Text("Conninfo")>>)
        @@ "set" :> <<Got("publication" :> kind("publication", publications), kind("options", DefElems({})))>>
        @@ [t \in {"add", "drop"} |-> <<Want("publication")>> \o kind(t \o "_publication", publications)]
        @@ [t \in {"enable", "disable"} |-> kind(t, <<>>)]
        @@ "refresh" :> <<Want("publication")>> \o kind("refresh", <<>>), <<>>),
        IfWith(DefElems({}))>>

AlterEventTrigger ==
  LET enabled(c) == <<Set("Tgenabled", c)>>
  IN  <<Want("trigger"), Mark, Ident("Trigname"),
        Got("enable" :> <<Got("replica" :> enabled("R") @@ "always" :> enabled("A"), enabled("O"))>>
            @@ "disable" :> enabled("D"), <<>>)>>

AlterSystem == <<Want("system"), Mark, SetOrReset(<<Fail>>)>>

AlterDefaultPrivileges == <<Want("default"), Want("privileges"), Mark,
  While("for" :> <<Got("role" :> <<>>, <<Opt("user")>>), Set("Defname", "for_role")>> \o Roles("Arg")
        @@ "in" :> <<Want("schema"), Set("Defname", "in_schema")>> \o NameList("Arg")),
  At("grant" :> <<Inner("GrantStmt")>> @@ "revoke" :> <<Inner("RevokeStmt")>>, <<Fail>>)>>
-----------------------------------------------------------------------------
(***************************************************************************)
(* DROP                                                                    *)
(***************************************************************************)
DropStmt ==
  LET kind(k, objects) == <<Set("RemoveType", k), IfExists>> \o objects
      all == QualifiedNames("Objects")
      placed == QualifiedName("Objects")
        \o <<Got("on" :> QualifiedName("Objects"), <<While("comma" :> QualifiedName("Objects"))>>)>>
  IN  <<Mark, Got(
        [k \in {"table", "view", "sequence", "type", "schema", "extension", "domain"} |-> kind(k, all)]
        @@ [k \in {"trigger", "rule"} |-> kind(k, placed)]
        @@ "index" :> <<Flag("concurrently", "Concurrent")>> \o kind("index", all)
        @@ "materialized" :> <<Want("view")>> \o kind("matview", all),
        <<Fail>> \o kind("", all)), Behavior>>

DropFunction == <<Got([k \in {"function", "procedure", "aggregate"} |-> <<Set("ObjType", k)>>], <<>>),
    Mark, IfExists>> \o QualifiedName("Funcname")
  \o <<IfGot("lparen", <<At("rparen" :> <<>>, ListOf(<<Call("TypeName"), Set("Funcargs", "")>>)),
                         Want("rparen")>>), Behavior>>
DropRole == <<Skip, Mark, IfExists>> \o NameList("Roles")
DropOwned == <<Want("owned"), Mark, Want("by")>> \o NameList("Roles") \o <<Behavior>>
-----------------------------------------------------------------------------
(***************************************************************************)
(* The dispatch of CREATE, ALTER and DROP, and of every statement          *)
(***************************************************************************)
Defined(kind, name) == Define(kind) \o <<Call(name)>>

\* What may be replaced, and what may be created
Replaceable ==
  "view" :> New("ViewStmt", "CreateView")
  @@ [t \in {"function", "procedure"} |-> New("CreateFunctionStmt", "CreateFunction")]
  @@ "trigger" :> New("CreateTrigStmt", "CreateTrigger") @@ "rule" :> New("RuleStmt", "CreateRule")
  @@ "aggregate" :> Defined("aggregate", "CreateAggregate")
  @@ "transform" :> New("CreateTransformStmt", "CreateTransform")
  @@ [t \in {"trusted", "procedural", "language"} |-> New("CreatePLangStmt", "CreateLanguage")]
Creatable ==
  "table" :> <<Call("CreateTable")>> @@ [t \in {"unique", "index"} |-> New("IndexStmt", "CreateIndex")]
  @@ "materialized" :> New("CreateMatViewStmt", "CreateMatView")
  @@ "statistics" :> New("CreateStatsStmt", "CreateStatistics")
  @@ "foreign" :> <<Skip, At("table" :> New("CreateForeignTableStmt", "CreateForeignTable"),
                             New("CreateFdwStmt", "CreateFdw"))>>
  @@ "server" :> New("CreateForeignServerStmt", "CreateServer")
  @@ "database" :> New("CreatedbStmt", "CreateDatabase")
  @@ "tablespace" :> New("CreateTableSpaceStmt", "CreateTablespace")
  @@ "sequence" :> New("CreateSeqStmt", "CreateSequence")
  @@ "extension" :> New("CreateExtensionStmt", "CreateExtension")
  @@ "policy" :> New("CreatePolicyStmt", "CreatePolicy")
  @@ "publication" :> New("CreatePublicationStmt", "CreatePublication")
  @@ "subscription" :> New("CreateSubscriptionStmt", "CreateSubscription")
  @@ "event" :> <<Skip>> \o New("CreateEventTrigStmt", "CreateEventTrigger")
  @@ [t \in {"role", "group"} |-> New("CreateRoleStmt", "CreateRole")]
  @@ "user" :> <<Skip, At("mapping" :> New("CreateUserMappingStmt", "CreateUserMapping"),
                          New("CreateRoleStmt", "CreateUser"))>>
  @@ "schema" :> New("CreateSchemaStmt", "CreateSchema")
  @@ "domain" :> New("CreateDomainStmt", "CreateDomain") @@ "type" :> <<Call("CreateType")>>
  @@ "operator" :> <<Skip, At("class" :> New("CreateOpClassStmt", "CreateOpClass")
                              @@ "family" :> New("CreateOpFamilyStmt", "CreateOpFamily"),
                              Defined("operator", "CreateOperator"))>>
  @@ "text" :> <<Skip>> \o New("DefineStmt", "CreateTextSearch")
  @@ "collation" :> Defined("collation", "CreateCollation")
  @@ "cast" :> New("CreateCastStmt", "CreateCast")
  @@ "access" :> <<Skip>> \o New("CreateAmStmt", "CreateAccessMethod")
  @@ "default" :> <<Skip, At("conversion" :> <<Set("IsDefault", "true")>>
                                              \o New("CreateConversionStmt", "CreateConversion"), Nothing)>>
  @@ "conversion" :> New("CreateConversionStmt", "CreateConversion")

\* TEMPORARY and UNLOGGED are read before anything, and are kept by tables and
\* views; a sequence keeps TEMPORARY.
CreateStmt ==
  LET is(p) == <<Set("Persistence", p)>>
      temporary == [t \in {"temporary", "temp"} |-> is("TEMP")]
      loses == <<Clear({"Persistence"})>>
      created(t) == (CASE t \in {"table", "view"} -> <<>>
                       [] t = "sequence" -> <<IfMade("Persistence", "UNLOGGED", loses)>>
                       [] OTHER -> loses) \o <<Call("Create" \o t)>>
      of(all) == [t \in DOMAIN all |-> created(t)]
      replace == <<Skip, Want("replace"), Set("Replace", "true"), At(of(Replaceable), <<Fail, Skip, Nil>>)>>
  IN  <<Want("create"),
        Got(temporary @@ [t \in {"local", "global"} |-> <<Got(temporary, <<>>)>>]
            @@ "unlogged" :> is("UNLOGGED"), <<>>),
        At(of(Creatable @@ Replaceable) @@ "or" :> replace, <<Fail, Skip, Nil>>)>>

Alterable ==
  "table" :> New("AlterTableStmt", "AlterTable") @@ "sequence" :> New("AlterSeqStmt", "AlterSequence")
  @@ "extension" :> New("AlterExtensionStmt", "AlterExtension") @@ "database" :> <<Call("AlterDatabase")>>
  @@ [t \in {"role", "user"} |-> <<Call("AlterRole")>>] @@ "domain" :> <<Call("AlterDomain")>>
  @@ "type" :> <<Call("AlterType")>>
  @@ [t \in {"function", "procedure"} |-> New("AlterFunctionStmt", "AlterFunction")]
  @@ "policy" :> New("AlterPolicyStmt", "AlterPolicy")
  @@ "publication" :> New("AlterPublicationStmt", "AlterPublication")
  @@ "subscription" :> New("AlterSubscriptionStmt", "AlterSubscription")
  @@ "event" :> <<Skip>> \o New("AlterEventTrigStmt", "AlterEventTrigger")
  @@ "system" :> New("AlterSystemStmt", "AlterSystem")
  @@ "default" :> New("AlterDefaultPrivilegesStmt", "AlterDefaultPrivileges")
  @@ "statistics" :> <<Call("AlterStatistics")>> @@ "schema" :> <<Call("AlterSchema")>>
  @@ "aggregate" :> <<Call("AlterAggregate")>>
AlterStmt == <<Want("alter"), At(Alterable, <<Fail, Skip, Nil>>)>>

Droppable ==
  "database" :> New("DropdbStmt", "DropDatabase") @@ "owned" :> New("DropOwnedStmt", "DropOwned")
  @@ [t \in {"role", "user", "group"} |-> New("DropRoleStmt", "DropRole")]
  @@ [t \in {"function", "procedure", "aggregate"} |-> New("RemoveFuncStmt", "DropFunction")]
DropDispatch == <<Want("drop"), At(Droppable, Makes("DropStmt"))>>

DefinitionDispatch ==
  "create" :> <<Call("CreateStmt")>> @@ "alter" :> <<Call("AlterStmt")>>
  @@ "drop" :> <<Call("DropDispatch")>>
  @@ "import" :> New("ImportForeignSchemaStmt", "ImportForeignSchema")
  @@ "refresh" :> New("RefreshMatViewStmt", "RefreshMatView")
  @@ FullDispatch

DefinitionRoutines ==
  "SimpleStmt" :> <<At(DefinitionDispatch, <<Fail, Skip, Nil>>)>>
  @@ "CreateStmt" :> CreateStmt @@ "AlterStmt" :> AlterStmt @@ "DropDispatch" :> DropDispatch
  @@ "AlterFuncArg" :> AlterFuncArg @@ "AlterDomain" :> AlterDomain @@ "AlterType" :> AlterType
  @@ "AlterFunction" :> AlterFunction @@ "AlterAggregate" :> AlterAggregate
  @@ "AlterSchema" :> AlterSchema @@ "AlterStatistics" :> AlterStatistics
  @@ "AlterPolicy" :> AlterPolicy @@ "AlterPublication" :> AlterPublication
  @@ "AlterSubscription" :> AlterSubscription @@ "AlterEventTrigger" :> AlterEventTrigger
  @@ "AlterSystem" :> AlterSystem @@ "AlterDefaultPrivileges" :> AlterDefaultPrivileges
  @@ "DropStmt" :> DropStmt @@ "DropFunction" :> DropFunction @@ "DropRole" :> DropRole
  @@ "DropOwned" :> DropOwned
  @@ ServiceRoutines @@ FullRoutines @@ ByToken("Create", Creatable @@ Replaceable)
=============================================================================
