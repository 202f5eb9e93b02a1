------------------------------- MODULE Objects -------------------------------
(***************************************************************************)
(* parser/parse_define.go, parse_func.go and parse_matview.go, the CREATE  *)
(* VIEW of parse_utility.go, and the domains and types of parse_grant.go,  *)
(* as routines of Parser.tla.                                              *)
(***************************************************************************)
EXTENDS Tables

Text(field) == TakeAny(StringConsts, field)
Strings(field) == AtAny(StringConsts, <<Take(field), While("comma" :> <<Text(field)>>)>>)
QualifiedNames(field) == ListOf(QualifiedName(field))
IfWith(is) == IfGot("with", is)

\* name = value, ...
DefArg == <<At(
  [t \in StringConsts \cup Floats |-> <<Take("Arg")>>] @@ [t \in IntConsts |-> <<Integer("Arg")>>]
  @@ "minus" :> <<Skip, Set("Arg", "-"), At([t \in IntConsts |-> <<Integer("Arg")>>], <<Take("Arg")>>)>>,
  <<ColLabel("Arg"), IfGot("dot", <<ColLabel("Arg")>>)>>)>>
DefElemList == ListOf(<<ColLabel("Defname"), IfGot("eq", <<Call("DefArg")>>)>>)
Definition == Parens(DefElemList)

\* parseParenDefElemList and parseParenDefElemListInner; only the first takes
\* floats.
DefElems(floats) == Parens(ListOf(<<Ident("Defname"),
  IfGot("eq", <<At([t \in StringConsts \cup floats \cup {"true", "false", "on", "off"} |-> <<Take("Arg")>>]
                   @@ [t \in IntConsts |-> <<Integer("Arg")>>], <<Ident("Arg")>>)>>)>>))

\* The types between parentheses; a comma may be the last.
Types(field) == <<At([t \in {"rparen", "EOF"} |-> <<>>],
  <<Call("TypeName"), Set(field, ""), IfGot("comma", <<Call("Types" \o field)>>)>>)>>
TypesOf(field) == IfGot("lparen", <<Call("Types" \o field), Want("rparen")>>)
FuncWithArgs(field) == QualifiedName("Funcname") \o <<TypesOf("Funcargs"), Set(field, "")>>
-----------------------------------------------------------------------------
(***************************************************************************)
(* parse_define.go                                                         *)
(***************************************************************************)
Define(kind) == <<Set("Node", "DefineStmt"), Set("Kind", kind)>>

\* The names of the options of an old aggregate tell it from a new one.
OldOptions == {"sfunc", "stype", "initcond", "finalfunc", "combinefunc", "serialfunc",
  "deserialfunc", "msfunc", "mstype", "minitcond", "mfinalfunc", "sortop", "parallel",
  "hypothetical"}
CreateAggregate ==
  LET new == <<Call("TypesArgs"), Want("rparen")>> \o Definition
  IN  <<Want("aggregate"), Mark>> \o QualifiedName("Defnames") \o <<Want("lparen"),
        At([t \in OldOptions \cap AnyWord |->
              <<Set("OldStyle", "true")>> \o DefElemList \o <<Want("rparen")>>], new)>>

OpSymbol(field) == At([s \in Symbols |-> <<Take(field)>>], <<Fail>>)
OperatorName(field) == <<At([t \in AnyName |-> <<Take(field), IfGot("dot", <<OpSymbol(field)>>)>>],
                            <<OpSymbol(field)>>)>>
CreateOperator == <<Mark>> \o OperatorName("Defnames") \o Definition

CreateTextSearch == <<Want("search"), Mark,
    Got([t \in {"parser", "dictionary", "template", "configuration"} |-> <<Set("Kind", t)>>], <<Fail>>)>>
  \o QualifiedName("Defnames") \o Definition

CreateCollation == <<Want("collation"), Mark, IfNotExists("IfNotExists")>> \o QualifiedName("Defnames")
  \o <<Got("from" :> <<Set("Defname", "from")>> \o QualifiedName("Arg"), Definition)>>

CreateCast == <<Want("cast"), Mark, Want("lparen"), Call("TypeName"), Set("SourceType", ""),
    Want("as"), Call("TypeName"), Set("TargetType", ""), Want("rparen"),
    Got("without" :> <<Want("function")>>,
        <<Want("with"), Got("function" :> FuncWithArgs("Func")
                            @@ "inout" :> <<Set("Inout", "true")>>, <<>>)>>),
    IfGot("as", <<Got("implicit" :> <<Set("Context", "IMPLICIT")>>
                      @@ "assignment" :> <<Set("Context", "ASSIGNMENT")>>, <<>>)>>)>>

\* Any token but FROM, TO and a comma is left where it is, and looked at again.
CreateTransform ==
  LET sql(field) == <<Want("sql"), Want("with"), Want("function")>> \o FuncWithArgs(field)
  IN  <<Want("transform"), Mark, Want("for"), Call("TypeName"), Want("language"), Ident("Lang")>>
      \o Parens(<<Until("rparen", <<Got("from" :> sql("FromSQL") @@ "to" :> sql("ToSQL"), <<>>),
                                    Opt("comma")>>)>>)

CreateAccessMethod == <<Want("method"), Mark, Ident("AmName"), Want("type"),
    Got("index" :> <<Set("AmType", "INDEX")>>, <<Want("table"), Set("AmType", "TABLE")>>),
    Want("handler")>> \o QualifiedName("HandlerName")

OpClassItem ==
  LET search == <<Got("order" :> <<Want("by")>> \o QualifiedName("OrderFamily"), <<Want("search")>>)>>
      item(n, is) == <<Set("ItemType", n), Integer("Number")>> \o is \o <<TypesOf("ClassArgs")>>
  IN  <<Got("operator" :> item("1", OperatorName("Name")) \o <<IfGot("for", search)>>
            @@ "function" :> item("2", QualifiedName("Name"))
            @@ "storage" :> <<Set("ItemType", "3"), Call("TypeName"), Set("StoredType", "")>>, <<Fail>>)>>
CreateOpClass == <<Want("class"), Mark>> \o QualifiedName("OpClassName")
  \o <<Flag("default", "IsDefault"), Want("for"), Want("type"), Call("TypeName"), Set("DataType", ""),
       Want("using"), Ident("AmName"), IfGot("family", QualifiedName("OpFamily")), Want("as")>>
  \o ListOf(<<Call("OpClassItem")>>)
CreateOpFamily == <<Want("family"), Mark>> \o QualifiedName("OpFamilyName") \o <<Want("using"), Ident("AmName")>>

CreateLanguage == <<Mark, Flag("trusted", "Trusted"), Opt("procedural"), Want("language"), Ident("PLName"),
  While("handler" :> QualifiedName("PLHandler") @@ "inline" :> QualifiedName("PLInline")
        @@ "validator" :> QualifiedName("PLValidator"))>>

CreateConversion == <<Want("conversion"), Mark>> \o QualifiedName("ConvName")
  \o <<Want("for"), Text("ForEncoding"), Want("to"), Text("ToEncoding"), Want("from")>>
  \o QualifiedName("FuncName")
-----------------------------------------------------------------------------
(***************************************************************************)
(* parse_func.go                                                           *)
(***************************************************************************)
TypeWords == {"int", "integer", "smallint", "bigint", "real", "float", "double", "decimal",
  "numeric", "boolean", "bool", "text", "varchar", "character", "char", "timestamp", "time",
  "interval", "json", "jsonb", "uuid", "xml", "bytea", "bit"} \cap Keywords
ParamType == <<Call("TypeName"), Set("ArgType", "")>>

\* Fault: a single name is the name of a parameter.
NameFirst(t) == <<Skip, Set("Name", t)>> \o ParamType

\* A name that is followed by neither a comma nor a parenthesis has its type
\* after it, DEFAULT too.
NameOrType(t) == <<Skip,
  At([d \in {"comma", "rparen"} |-> <<Set("Names", t), Set("TypeName", ""), Set("ArgType", "")>>],
     <<Set("Name", t)>> \o ParamType)>>
FuncParam ==
  LET mode(m) == <<Set("Mode", m)>>
      default == Expr("DefExpr")
  IN  <<Got("in" :> <<Got("out" :> mode("INOUT"), mode("IN"))>> @@ "out" :> mode("OUT")
            @@ "inout" :> mode("INOUT") @@ "variadic" :> mode("VARIADIC"), <<>>),
        At([t \in AnyName \ TypeWords |-> NameOrType(t)], ParamType),
        Got("default" :> default @@ "eq" :> default, <<>>), Set("FunctionParameter", "")>>

FuncOptions ==
  LET option(o, is) == <<Set("Defname", o)>> \o is
      symbol == <<IfGot("comma", <<AtAny(StringConsts, option("as_symbol", <<Take("Arg")>>))>>)>>
      onNull == <<Want("on"), Want("null"), Want("input")>>
  IN  <<While(
        "language" :> option("language", <<ColLabel("Arg")>>)
        @@ "as" :> <<AtAny(StringConsts, option("as", <<Take("Arg")>> \o symbol))>>
        @@ [t \in {"immutable", "stable", "volatile", "strict"} |-> option(t, <<>>)]
        @@ "called" :> onNull \o option("called", <<>>)
        @@ "returns" :> <<Want("null")>> \o onNull \o option("strict", <<>>)
        @@ "security" :> <<Got("definer" :> option("security_definer", <<>>),
                               <<Want("invoker")>> \o option("security_invoker", <<>>))>>
        @@ "parallel" :> option("parallel", <<ColLabel("Arg")>>)
        @@ [t \in {"cost", "rows"} |-> option(t, <<Integer("Arg")>>)]
        @@ "set" :> option("set", <<Ident("Name"), Opt("eq"), Opt("to"), ColLabel("Arg")>>))>>

\* VOID is no keyword, and is a type as others are.
CreateFunction ==
  LET column == <<Ident("Name")>> \o ParamType \o <<Set("FunctionParameter", "OUT")>>
      type == <<Call("TypeName"), Set("ReturnType", "")>>
      returns == <<Got("table" :> Parens(ListOf(column)) @@ "setof" :> type \o <<Set("Setof", "true")>>,
                       type)>>
      head == QualifiedName("Funcname")
        \o Parens(<<At("rparen" :> <<>>, ListOf(<<Call("FuncParam")>>))>>)
  IN  <<Mark, Got("procedure" :> <<Set("IsProcedure", "true")>> \o head,
                  <<Want("function")>> \o head \o <<IfGot("returns", returns)>>),
        Call("FuncOptions")>>

TriggerEvent == <<Got([e \in {"insert", "delete", "truncate"} |-> <<Set("Events", e)>>]
  @@ "update" :> <<Set("Events", "update"), IfGot("of", NameList("Columns"))>>, <<Fail>>)>>
CreateTrigger == <<Want("trigger"), Mark, Ident("Trigname"),
    Got([t \in {"before", "after"} |-> <<Set("Timing", t)>>]
        @@ "instead" :> <<Want("of"), Set("Timing", "instead")>>, <<>>)>>
  \o TriggerEvent \o <<While("or" :> TriggerEvent), Want("on")>> \o RangeVar("Relation")
  \o <<IfGot("for", <<Opt("each"), Got("row" :> <<Set("Row", "true")>>, <<Want("statement")>>)>>),
       IfGot("when", Parens(Expr("WhenClause"))),
       Want("execute"), Opt("function"), Opt("procedure")>> \o QualifiedName("Funcname")
  \o Parens(<<At("rparen" :> <<>>, ExprList("Args"))>>)

\* A semicolon between parentheses does not end the statement.
\* Fault: an action that does not begin as expected is left standing.
ActionsKnown == <<Until("rparen", <<
  AtAny({"select", "insert", "update", "delete", "notify"}, <<Inner("SimpleStmt")>>), Opt("semi")>>)>>

Actions == <<Until("rparen", <<Inner("SimpleStmt"), Opt("semi")>>)>>
CreateRule == <<Want("rule"), Mark, Ident("Rulename"), Want("as"), Want("on"),
    Got([e \in {"select", "insert", "update", "delete"} |-> <<Set("Event", e)>>], <<>>), Want("to")>>
  \o RangeVar("Relation") \o <<Where, Want("do"), Got("instead" :> <<Set("Instead", "true")>>, <<Opt("also")>>),
    Got("nothing" :> <<>>
        @@ "lparen" :> Actions \o <<Want("rparen")>>,
        <<Inner("SimpleStmt")>>)>>
-----------------------------------------------------------------------------
(***************************************************************************)
(* Views, statistics, domains and types                                    *)
(***************************************************************************)
Query == Subselect \o <<Set("Query", "")>>
Data(yes, no) == IfWith(<<Got("no" :> <<Want("data")>> \o no, <<Want("data")>> \o yes)>>)

CreateView ==
  LET checked(by) == <<Want("check"), Want("option"), Set("WithCheckOption", by)>>
  IN  <<Want("view"), Mark>> \o RangeVar("View")
      \o <<IfGot("lparen", NameList("Aliases") \o <<Want("rparen")>>), Want("as")>> \o Query
      \o <<IfWith(<<Got("cascaded" :> checked("CASCADED") @@ "local" :> checked("LOCAL"),
                       checked("CASCADED"))>>)>>

\* WITH is taken before AS even when no options follow it.
CreateMatView == <<Want("materialized"), Want("view"), Mark, IfNotExists("IfNotExists")>>
  \o RangeVar("Relation") \o <<IfGot("using", <<Ident("AccessMethod")>>),
    IfWith(<<AtAny({"lparen"}, DefElems(Floats))>>),
    IfGot("tablespace", <<Ident("TableSpace")>>), Want("as")>> \o Query
  \o <<Data(<<>>, <<Set("WithData", "false")>>)>>
RefreshMatView == <<Want("refresh"), Mark, Want("materialized"), Want("view"), Flag("concurrently", "Concurrent")>>
  \o RangeVar("Relation") \o <<Data(<<>>, <<Set("SkipData", "true")>>)>>

CreateStatistics == <<Want("statistics"), Mark, IfNotExists("IfNotExists")>> \o QualifiedName("Defnames")
  \o <<IfGot("lparen", NameList("StatTypes") \o <<Want("rparen")>>), Want("on")>>
  \o ExprList("Exprs") \o <<Want("from")>> \o QualifiedNames("Relations")

CreateDomain == <<Want("domain"), Mark>> \o QualifiedName("Domainname")
  \o <<Want("as"), Call("TypeName"), Call("ColConstraints")>>

\* The node of a shell type has no position, and that of a range type is after
\* the word RANGE.
CreateType ==
  LET enum == <<Set("Node", "CreateEnumStmt")>> \o Parens(<<Strings("Vals")>>)
      column == <<Ident("Colname"), Call("TypeName"), Set("ColumnDef", "")>>
      composite == <<Set("Node", "CompositeTypeStmt")>> \o Parens(ListOf(column))
      range == <<Skip>> \o Define("type") \o <<Mark>> \o Definition
  IN  <<Want("type"), Mark>> \o QualifiedName("TypeName")
      \o <<Got("as" :> <<At("range" :> range, <<Got("enum" :> enum, composite)>>)>>,
               Define("type") \o <<Unplaced>>)>>

ObjectRoutines ==
  [s \in {"TypesArgs", "TypesFuncargs", "TypesClassArgs"} |->
     Types(CHOOSE f \in {"Args", "Funcargs", "ClassArgs"} : "Types" \o f = s)]
  @@ "DefArg" :> DefArg @@ "OpClassItem" :> OpClassItem @@ "FuncParam" :> FuncParam
  @@ "FuncOptions" :> FuncOptions @@ "CreateAggregate" :> CreateAggregate
  @@ "CreateOperator" :> CreateOperator @@ "CreateTextSearch" :> CreateTextSearch
  @@ "CreateCollation" :> CreateCollation @@ "CreateCast" :> CreateCast
  @@ "CreateTransform" :> CreateTransform @@ "CreateAccessMethod" :> CreateAccessMethod
  @@ "CreateOpClass" :> CreateOpClass @@ "CreateOpFamily" :> CreateOpFamily
  @@ "CreateLanguage" :> CreateLanguage @@ "CreateConversion" :> CreateConversion
  @@ "CreateFunction" :> CreateFunction @@ "CreateTrigger" :> CreateTrigger
  @@ "CreateRule" :> CreateRule @@ "CreateView" :> CreateView
  @@ "CreateMatView" :> CreateMatView @@ "RefreshMatView" :> RefreshMatView
  @@ "CreateStatistics" :> CreateStatistics @@ "CreateDomain" :> CreateDomain
  @@ "CreateType" :> CreateType @@ TableRoutines
=============================================================================
