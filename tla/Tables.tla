-------------------------------- MODULE Tables --------------------------------
(***************************************************************************)
(* parser/parse_ddl.go and parse_ddl2.go: tables, their columns,           *)
(* constraints, partitions and indexes, and ALTER TABLE, as routines of    *)
(* Parser.tla.  A column, a constraint and a command is written in postfix *)
(* as expressions are: its fields, then the entry of its node.             *)
(***************************************************************************)
EXTENDS Changes

Flag(t, field) == IfGot(t, <<Set(field, "true")>>)
IfNotExists(field) == IfGot("if", <<Want("not"), Want("exists"), Set(field, "true")>>)
IfExists == IfGot("if", <<Want("exists"), Set("MissingOk", "true")>>)
Behavior == Got("cascade" :> <<Set("Behavior", "CASCADE")>>, <<Opt("restrict")>>)
NamesInParens(field) == Parens(NameList(field))
-----------------------------------------------------------------------------
(***************************************************************************)
(* Constraints                                                             *)
(***************************************************************************)
Constraint(type) == <<Set("Constraint", type)>>
Initially == IfGot("initially",
  <<Got("deferred" :> <<Set("InitDeferred", "true")>>, <<Want("immediate")>>)>>)
Unique == IfGot("nulls", <<Want("not"), Want("distinct"), Set("NullsNotDistinct", "true")>>)
CheckConstraint == Parens(Expr("RawExpr"))

\* ON without UPDATE or DELETE ends the loop; it may come after other actions.
KeyActions ==
  LET action(field) == <<Got(
        "cascade" :> <<Set(field, "CASCADE")>> @@ "restrict" :> <<Set(field, "RESTRICT")>>
        @@ "set" :> <<Got("null" :> <<Set(field, "SET NULL")>>
                          @@ "default" :> <<Set(field, "SET DEFAULT")>>, <<>>)>>
        @@ "no" :> <<Want("action"), Set(field, "NO ACTION")>>, <<>>),
        Call("KeyActions")>>
  IN  <<IfGot("on", <<Got("update" :> action("FkUpdAction") @@ "delete" :> action("FkDelAction"),
                          <<>>)>>)>>
Referenced == RangeVar("PkTable")
  \o <<IfGot("lparen", NameList("PkAttrs") \o <<Want("rparen")>>), Call("KeyActions"),
       IfGot("match", <<Got("full" :> <<Set("FkMatchType", "FULL")>>
                            @@ "partial" :> <<Set("FkMatchType", "PARTIAL")>>
                            @@ "simple" :> <<Set("FkMatchType", "SIMPLE")>>, <<>>)>>)>>

\* Fault: NOT is no operator after the default of the first column.
DefaultStays == <<InColDefault(TRUE)>> \o Expr("RawExpr")

Default == <<InColDefault(TRUE)>> \o Expr("RawExpr") \o <<InColDefault(FALSE)>>

\* A GENERATED that nothing known follows, and DEFERRABLE, are constraints of
\* the type that is 0, CONSTR_NULL.
Generated == <<Got(
  "always" :> <<Got("as" :> <<Got("identity" :> Constraint("IDENTITY"),
                                  Parens(Expr("RawExpr")) \o <<Want("stored")>> \o Constraint("GENERATED"))>>,
                    Constraint("NULL"))>>
  @@ "by" :> <<Want("default"), Want("as"), Want("identity")>> \o Constraint("IDENTITY"),
  Constraint("NULL"))>>

ColConstraintElem ==
  "not" :> <<Want("null")>> \o Constraint("NOTNULL")
  @@ "null" :> Constraint("NULL")
  @@ "default" :> Default \o Constraint("DEFAULT")
  @@ "check" :> CheckConstraint \o Constraint("CHECK")
  @@ "primary" :> <<Want("key")>> \o Constraint("PRIMARY")
  @@ "unique" :> <<Unique>> \o Constraint("UNIQUE")
  @@ "references" :> Referenced \o Constraint("FOREIGN")
  @@ "generated" :> Generated
  @@ "deferrable" :> <<Set("Deferrable", "true"), Initially>> \o Constraint("NULL")

ColConstraints ==
  LET elem == [t \in DOMAIN ColConstraintElem |-> ColConstraintElem[t] \o <<Call("ColConstraints")>>]
  IN  <<Got("constraint" :> <<At([t \in AnyName |-> <<Ident("Conname"), Got(elem, <<Fail>>)>>],
                                 <<Ident("Conname"), Got(elem, <<>>)>>)>>
            @@ elem, <<>>)>>

ColumnDef == <<Ident("Colname"), Call("TypeName"), Call("ColConstraints"), Set("ColumnDef", "")>>

ConstraintAttrs == <<Got("deferrable" :> <<Set("Deferrable", "true"), Initially>>,
                         <<AtAny({"initially"}, <<Initially>>)>>)>>
ConstraintElem ==
  "check" :> CheckConstraint \o ConstraintAttrs \o Constraint("CHECK")
  @@ "unique" :> <<Unique>> \o NamesInParens("Keys") \o ConstraintAttrs \o Constraint("UNIQUE")
  @@ "primary" :> <<Want("key")>> \o NamesInParens("Keys") \o ConstraintAttrs \o Constraint("PRIMARY")
  @@ "foreign" :> <<Want("key")>> \o NamesInParens("FkAttrs") \o <<Want("references")>> \o Referenced
       \o ConstraintAttrs \o Constraint("FOREIGN")
  @@ "exclude" :> Constraint("EXCLUSION")
TableConstraint ==
  <<IfGot("constraint", <<Ident("Conname")>>), Got(ConstraintElem, <<Fail>> \o Constraint("NULL"))>>

TableElement == <<Got("like" :> RangeVar("Relation") \o <<Set("TableLikeClause", "")>>,
  <<At([t \in DOMAIN ConstraintElem \cup {"constraint"} |-> <<Call("TableConstraint")>>],
       <<Call("ColumnDef")>>)>>)>>
-----------------------------------------------------------------------------
(***************************************************************************)
(* Tables and indexes                                                      *)
(***************************************************************************)
\* LIST and HASH are no keywords: the text of the token is compared.
Strategies == {"range", "list", "hash"}
PartitionElem ==
  <<Got("lparen" :> Expr("Expr") \o <<Want("rparen")>>, <<Ident("Name")>>),
    IfGot("collate", QualifiedName("Collation")),
    AtAny(Identifiers, QualifiedName("OpClass")), Set("PartitionElem", "")>>
PartitionSpec == <<Want("partition"), Want("by"),
  At([t \in Strategies |-> <<Take("Strategy")>> \o Parens(ListOf(PartitionElem))], <<Fail>>)>>

PartitionBoundSpec == <<Got("default" :> <<Set("PartBound", "default")>>,
  <<Want("for"), Want("values"),
    Got("in" :> Parens(ExprList("ListValues")) \o <<Set("PartBound", "list")>>
        @@ "from" :> Parens(ExprList("LowerBound")) \o <<Want("to")>> \o Parens(ExprList("UpperBound"))
             \o <<Set("PartBound", "range")>>, <<Fail>>)>>)>>

\* A table that is made of a query is known by the absence of a parenthesis.
CreateTable ==
  LET as == <<Set("Node", "CreateTableAsStmt")>> \o Subselect \o <<Set("Query", ""),
        Got("with" :> <<Got("no" :> <<Want("data"), Set("WithData", "false")>>, <<Want("data")>>)>>, <<>>)>>
      partition == <<Want("of")>> \o RangeVar("PartitionOf") \o PartitionBoundSpec
      onCommit(do, rows) == rows \o <<Set("OnCommit", do)>>
      table == Parens(<<At("rparen" :> <<>>, ListOf(<<Call("TableElement")>>))>>)
        \o <<IfGot("inherits", Parens(ListOf(RangeVar("InhRelations")))),
             AtAny({"partition"}, PartitionSpec),
             IfGot("on", <<Want("commit"),
               Got("preserve" :> onCommit("PRESERVE_ROWS", <<Want("rows")>>)
                   @@ "delete" :> onCommit("DELETE_ROWS", <<Want("rows")>>)
                   @@ "drop" :> onCommit("DROP", <<>>), <<>>)>>)>>
  IN  <<Want("table"), IfNotExists("IfNotExists"), Mark>> \o RangeVar("Relation")
      \o <<Got("as" :> as @@ "partition" :> <<Set("Node", "CreateStmt")>> \o partition,
               <<Set("Node", "CreateStmt")>> \o table)>>

IndexElem ==
  <<Got("lparen" :> Expr("Expr") \o <<Want("rparen")>>, <<Ident("Name")>>),
    Got("asc" :> <<Set("Ordering", "ASC")>> @@ "desc" :> <<Set("Ordering", "DESC")>>, <<>>),
    IfGot("nulls", <<Got("first" :> <<Set("NullsOrder", "FIRST")>>,
                         <<Want("last"), Set("NullsOrder", "LAST")>>)>>),
    Set("IndexElem", "")>>
CreateIndex ==
  <<Mark, Flag("unique", "Unique"), Want("index"), Flag("concurrently", "Concurrent"),
    IfNotExists("IfNotExists"), AtAny(AnyName \ {"on"}, <<Ident("Idxname")>>), Want("on")>>
  \o RangeVar("Relation") \o <<IfGot("using", <<Ident("AccessMethod")>>)>>
  \o Parens(ListOf(IndexElem)) \o <<Unique, Where>>
-----------------------------------------------------------------------------
(***************************************************************************)
(* ALTER TABLE                                                             *)
(***************************************************************************)
Command(subtype, is) == is \o <<Set("AlterTableCmd", subtype)>>
Unexpected == <<Fail, Skip>> \o Command("AddColumn", <<>>)
RowSecurity == <<Want("row"), Want("level"), Want("security")>>

AddCmd == <<Got("column" :> Command("AddColumn", <<IfNotExists("MissingOk"), Call("ColumnDef")>>),
  <<At([t \in {"constraint", "check", "unique", "primary", "foreign"} |->
          Command("AddConstraint", <<Call("TableConstraint")>>)],
       Command("AddColumn", <<Call("ColumnDef")>>))>>)>>

DropCmd ==
  LET drop(subtype) == Command(subtype, <<IfExists, Ident("Name"), Behavior>>)
  IN  <<Got("column" :> drop("DropColumn") @@ "constraint" :> drop("DropConstraint"),
            Command("DropColumn", <<Ident("Name"), Behavior>>))>>

AlterColumnCmd ==
  LET setTo == "not" :> Command("SetNotNull", <<Want("null")>>)
        @@ "default" :> Command("SetDefault", Expr("Def"))
        @@ "data" :> Command("AlterColumnType", <<Want("type"), Call("TypeName")>>)
        @@ "statistics" :> Command("SetStatistics", <<Integer("Def")>>)
        @@ "storage" :> Command("SetStorage", <<Ident("Def")>>)
        @@ "compression" :> Command("SetCompression", <<Ident("Def")>>)
        @@ "expression" :> Command("SetExpression", <<Want("as")>> \o Parens(Expr("Def")))
      drop == "not" :> Command("DropNotNull", <<Want("null")>>)
        @@ "default" :> Command("DropDefault", <<>>)
        @@ "identity" :> Command("DropIdentity", <<IfExists>>)
        @@ "expression" :> Command("DropExpression", <<IfExists>>)
      column == <<Ident("Name"),
        Got("set" :> <<Got(setTo, Unexpected)>> @@ "drop" :> <<Got(drop, Unexpected)>>
            @@ "type" :> Command("AlterColumnType", <<Call("TypeName")>>)
            @@ "add" :> Command("AddIdentity", <<Want("generated"),
                 Got("always" :> <<>>, <<Want("by"), Want("default")>>), Want("as"), Want("identity")>>),
            Unexpected)>>
  IN  <<Got("constraint" :> Command("AlterConstraint", <<Ident("Name")>>),
            <<Opt("column")>> \o column)>>

SetCmd == <<Got(
  "schema" :> Command("SetSchema", <<Ident("Name")>>)
  @@ "without" :> Command("DropCluster", <<Got("cluster" :> <<>>, <<Want("oids")>>)>>)
  @@ "logged" :> Command("SetLogged", <<>>) @@ "unlogged" :> Command("SetUnLogged", <<>>)
  @@ "tablespace" :> Command("SetTableSpace", <<Ident("Name")>>)
  @@ "access" :> Command("SetAccessMethod", <<Want("method"), Ident("Name")>>)
  @@ "lparen" :> Command("SetRelOptions", <<>>), Unexpected)>>

\* ALWAYS and REPLICA are passed over when no TRIGGER or RULE follows them.
EnableCmd(way) ==
  LET named(what) == Command(way \o what, <<Ident("Name")>>)
      trigger == "trigger" :> <<Got("all" :> Command(way \o "TrigAll", <<>>)
                                    @@ "user" :> Command(way \o "TrigUser", <<>>), named("Trig"))>>
      common == "rule" :> named("Rule")
        @@ "row" :> Command(way \o "RowSecurity", <<Want("level"), Want("security")>>)
      none == <<Fail>> \o Command("AddColumn", <<>>)
      firing(when) == "trigger" :> named(when \o "Trig") @@ "rule" :> named(when \o "Rule") @@ common
      replica == "replica" :> <<Got(firing("Replica"), none)>>
      always == "always" :> <<Got(firing("Always") @@ replica, none)>>
  IN  <<Got(trigger @@ common @@ (IF way = "Enable" THEN always @@ replica ELSE <<>>), none)>>

AlterTableCmd == <<Got(
  "add" :> AddCmd @@ "drop" :> DropCmd @@ "alter" :> AlterColumnCmd @@ "set" :> SetCmd
  @@ "validate" :> Command("ValidateConstraint", <<Want("constraint"), Ident("Name")>>)
  @@ "cluster" :> Command("ClusterOn", <<Want("on"), Ident("Name")>>)
  @@ "reset" :> <<Got("lparen" :> Command("ResetRelOptions", <<>>), Unexpected)>>
  @@ "enable" :> EnableCmd("Enable") @@ "disable" :> EnableCmd("Disable")
  @@ "inherit" :> Command("AddInherit", <<Ident("Def")>>)
  @@ "no" :> <<Got("inherit" :> Command("DropInherit", <<Ident("Def")>>)
                   @@ "force" :> Command("NoForceRowSecurity", RowSecurity), Unexpected)>>
  @@ "of" :> Command("AddOf", <<Ident("Name")>>)
  @@ "not" :> Command("DropOf", <<Want("of")>>)
  @@ "owner" :> Command("ChangeOwner", <<Want("to"), Ident("Name")>>)
  @@ "replica" :> <<Want("identity"),
       Got([t \in {"default", "full", "nothing"} |-> Command("ReplicaIdentity", <<Set("Name", t)>>)]
           @@ "using" :> Command("ReplicaIdentity", <<Want("index"), Ident("Name")>>), Unexpected)>>
  @@ "force" :> Command("ForceRowSecurity", RowSecurity)
  @@ "attach" :> Command("AttachPartition", <<Want("partition")>> \o RangeVar("Def") \o PartitionBoundSpec)
  @@ "detach" :> Command("DetachPartition", <<Want("partition")>> \o RangeVar("Def")),
  Unexpected)>>

AlterTable ==
  LET to(subtype) == Command(subtype, <<Ident("Name"), Want("to"), Ident("Def")>>)
  IN  <<Want("table"), Mark, IfExists, IfGot("only", <<Set("Inh", "false")>>)>> \o RangeVar("Relation")
      \o <<Got("rename" :> <<Got("column" :> to("RenameColumn")
                                 @@ "to" :> Command("RenameTable", <<Ident("Name")>>), to("RenameColumn"))>>,
               ListOf(<<Call("AlterTableCmd")>>))>>

TableRoutines ==
  "ColConstraints" :> ColConstraints @@ "KeyActions" :> KeyActions @@ "ColumnDef" :> ColumnDef
  @@ "TableConstraint" :> TableConstraint @@ "TableElement" :> TableElement
  @@ "CreateTable" :> CreateTable @@ "CreateIndex" :> CreateIndex
  @@ "AlterTable" :> AlterTable @@ "AlterTableCmd" :> AlterTableCmd
=============================================================================
