----------------------------- MODULE Statements -----------------------------
(***************************************************************************)
(* parser/parse_txn.go, parse_cursor.go, parse_utility*.go, parse_grant.go *)
(* and parse_drop.go: statement parsers as routines of Parser.tla.  A      *)
(* routine sets the fields of its node in the order the code does.  The    *)
(* statements that hold queries, expressions or types are not here.        *)
(***************************************************************************)
EXTENDS Routines

CONSTANT Literals    \* from tokens that are other constants to their nodes

Floats == {f \in DOMAIN Literals : Literals[f] = "Float"}
AnyWord == Identifiers \cup Keywords
AnyName == Identifiers \cup (Keywords \ Reserved)

\* A call of the parse function of a node of its own type.
New(type, name) == <<Set("Node", type), Call(name)>>
Makes(name) == New(name, name)

QualifiedName(field) == <<Ident(field), While("dot" :> <<ColLabel(field)>>)>>
RangeVar(field) == <<Ident(field), Got("dot" :> <<Ident(field)>>, <<>>)>>
-----------------------------------------------------------------------------
TransactionModes == <<While(
  "isolation" :> <<Want("level"),
      Got("serializable" :> <<Set("Options", "SERIALIZABLE")>>
          @@ "repeatable" :> <<Want("read"), Set("Options", "REPEATABLE READ")>>
          @@ "read" :> <<Got("committed" :> <<Set("Options", "READ COMMITTED")>>,
                             <<Want("uncommitted"), Set("Options", "READ UNCOMMITTED")>>)>>,
          <<>>),
      Opt("comma")>>
  @@ "read" :> <<Got("only" :> <<Set("Options", "READ ONLY")>>,
                     <<Want("write"), Set("Options", "READ WRITE")>>),
                 Opt("comma")>>
  @@ "deferrable" :> <<Set("Options", "DEFERRABLE"), Opt("comma")>>
  @@ "not" :> <<Want("deferrable"), Set("Options", "NOT DEFERRABLE"), Opt("comma")>>)>>

Noise == <<Opt("work"), Opt("transaction")>>
Prepared(kind) == <<Set("Kind", kind), TakeAny(StringConsts, "Options")>>

TransactionStmt == <<Got(
  "begin" :> <<Set("Kind", "BEGIN")>> \o Noise \o <<Call("TransactionModes")>>
  @@ "start" :> <<Want("transaction"), Set("Kind", "START"), Call("TransactionModes")>>
  @@ "commit" :> Noise \o <<Got("prepared" :> Prepared("COMMIT_PREPARED"),
                                <<Set("Kind", "COMMIT")>>)>>
  @@ "end" :> <<Set("Kind", "COMMIT")>> \o Noise
  @@ "abort" :> <<Set("Kind", "ROLLBACK")>> \o Noise
  @@ "rollback" :> Noise
       \o <<Got("prepared" :> Prepared("ROLLBACK_PREPARED")
                @@ "to" :> <<Set("Kind", "ROLLBACK_TO"), Opt("savepoint"), Ident("Options")>>,
                <<Set("Kind", "ROLLBACK")>>)>>
  @@ "savepoint" :> <<Set("Kind", "SAVEPOINT"), Ident("Options")>>
  @@ "release" :> <<Opt("savepoint"), Set("Kind", "RELEASE"), Ident("Options")>>
  @@ "prepare" :> <<Want("transaction")>> \o Prepared("PREPARE"), <<>>)>>
-----------------------------------------------------------------------------
SetStmt == <<Want("set"), Mark,
  At("constraints" :> New("ConstraintsSetStmt", "SetConstraintsStmt"),
     <<Set("Node", "VariableSetStmt"), Got("local" :> <<Set("IsLocal", "true")>>, <<Opt("session")>>),
       Got("transaction" :> <<Set("Name", "transaction"), Call("TransactionModes")>>,
           <<Ident("Name"),
             LET value == <<Got("default" :> <<Set("IsReset", "true")>>,
                                <<Call("SetValueList")>>)>>
             IN  Got("eq" :> value @@ "to" :> value, <<>>)>>)>>)>>

SetValueList == ListOf(<<
  At([t \in StringConsts \cup Floats |-> <<Take("Args")>>] @@ [t \in IntConsts |-> <<Integer("Args")>>],
     <<ColLabel("Args")>>)>>)

SetConstraintsStmt == <<Want("constraints"), Mark,
  Got("all" :> <<>>, ListOf(QualifiedName("Constraints"))),
  Got("deferred" :> <<Set("Deferred", "true")>>, <<Want("immediate")>>)>>

AllOr(field) == <<Got("all" :> <<Set(field, "all")>>, <<Ident(field)>>)>>
ResetStmt == <<Want("reset"), Mark, Set("IsReset", "true")>> \o AllOr("Name")
ShowStmt == <<Want("show"), Mark>> \o AllOr("Name")

ListenStmt == <<Want("listen"), Mark, Ident("Conditionname")>>
NotifyStmt == <<Want("notify"), Mark, Ident("Conditionname"),
                Got("comma" :> <<TakeAny(StringConsts, "Payload")>>, <<>>)>>
UnlistenStmt == <<Want("unlisten"), Mark,
                  Got("star" :> <<Set("Conditionname", "")>>, <<Ident("Conditionname")>>)>>

DeallocateStmt == <<Want("deallocate"), Mark, Opt("prepare"),
                    Got("all" :> <<Set("IsAll", "true")>>, <<Ident("Name")>>)>>
DiscardStmt == <<Want("discard"), Mark, ColLabel("Target")>>
-----------------------------------------------------------------------------
\* An option of VACUUM or EXPLAIN: a name and perhaps a value of class toks.
Option(toks) == <<ColLabel("Defname"),
  At([t \in toks |-> <<Take("Arg")>>] @@ [t \in IntConsts |-> <<Integer("Arg")>>], <<>>)>>

VacuumStmt ==
  LET listed == <<Skip, Until("rparen", Option(AnyWord) \o <<Opt("comma")>>), Want("rparen")>>
      flags(S) == [t \in S |-> <<Set("Defname", t)>>]
  IN  <<Got("vacuum" :>
              <<Mark, Set("IsVacuum", "true"),
                At("lparen" :> listed, <<While(
                    flags({"full", "freeze", "verbose", "analyze", "analyse"}))>>)>>
            @@ [t \in {"analyze", "analyse"} |->
                 <<Mark, At("lparen" :> listed, <<Got(flags({"verbose"}), <<>>)>>)>>],
            <<>>),
        AtAny(AnyName, ListOf(RangeVar("Relations")))>>

ExplainStmt ==
  LET verbose == Got("verbose" :> <<Set("Defname", "verbose")>>, <<>>)
      analyze == <<Set("Defname", "analyze"), verbose>>
  IN  <<Want("explain"), Mark,
        Got("lparen" :> ListOf(Option(AnyWord \cup StringConsts)) \o <<Want("rparen")>>
            @@ "analyze" :> analyze @@ "analyse" :> analyze, <<verbose>>),
        Inner("SimpleStmt")>>

LockStmt == <<Want("lock"), Mark, Opt("table")>> \o ListOf(RangeVar("Relations"))
  \o <<Got("in" :> <<Until("mode", <<Take("Mode")>>), Want("mode")>>, <<>>),
       Got("nowait" :> <<Set("Nowait", "true")>>, <<>>)>>

ReindexStmt ==
  LET option == <<ColLabel("Defname"), TakeAny(AnyWord, "Arg")>>
      concurrently == Got("concurrently" :> <<Set("Concurrent", "true")>>, <<>>)
      table  == <<concurrently>> \o RangeVar("Relation")
      name   == <<concurrently, Ident("Name")>>
      kind(k, rest) == <<Set("Kind", k)>> \o rest
  IN  <<Want("reindex"), Mark,
        Got("lparen" :> ListOf(option) \o <<Want("rparen")>>, <<>>),
        Got([k \in {"index", "table"} |-> kind(k, table)]
            @@ [k \in {"schema", "database", "system"} |-> kind(k, name)],
            <<Fail>> \o kind("index", table))>>

ClusterStmt == <<Want("cluster"), Mark,
  At([t \in {"semi", "EOF"} |-> <<>>],
     <<Opt("verbose"), AtAny(AnyWord, RangeVar("Relation")),
       Got("using" :> <<Ident("IndexName")>>, <<>>)>>)>>

CheckpointStmt == <<Want("checkpoint"), Mark>>
LoadStmt == <<Want("load"), Mark, TakeAny(StringConsts, "Filename")>>
-----------------------------------------------------------------------------
\* Fault: the sign is read and forgotten.
UnsignedInt == <<Got([t \in {"minus", "plus"} |-> <<>>], <<>>), Integer("HowMany")>>

SignedInt == <<Got("minus" :> <<Set("HowMany", "-")>>, <<Opt("plus")>>), Integer("HowMany")>>

FetchStmt ==
  LET goes(dir, count) == <<Set("Direction", dir)>> \o count
      exactly(n) == <<Set("HowMany", n)>>
      signed == [t \in IntConsts \cup {"plus", "minus"} |-> SignedInt]
      counted(dir) == goes(dir, <<Got("all" :> exactly("0"), <<At(signed, exactly("1"))>>)>>)
  IN  <<Got("move" :> <<Set("IsMove", "true")>> @@ "fetch" :> <<>>, <<>>),
        Got("next" :> goes("FORWARD", exactly("1"))
            @@ "prior" :> goes("BACKWARD", exactly("1"))
            @@ "first" :> goes("ABSOLUTE", exactly("1"))
            @@ "last" :> goes("ABSOLUTE", <<Set("HowMany", "-"), Set("HowMany", "1")>>)
            @@ "absolute" :> goes("ABSOLUTE", SignedInt)
            @@ "relative" :> goes("RELATIVE", SignedInt)
            @@ "all" :> goes("FORWARD", exactly("0"))
            @@ "forward" :> counted("FORWARD")
            @@ "backward" :> counted("BACKWARD"),
            <<At([t \in DOMAIN signed |-> goes("FORWARD", SignedInt)],
                 goes("FORWARD", exactly("1")))>>),
        Got([t \in {"from", "in"} |-> <<>>], <<>>),
        Ident("Portalname")>>

ClosePortalStmt == <<Want("close"), Mark,
  Got("all" :> <<Set("Portalname", "")>>, <<Ident("Portalname")>>)>>
-----------------------------------------------------------------------------
CommentTarget ==
  LET called == QualifiedName("Object")
      is(type) == <<Set("ObjType", type)>> \o called
      placed(type) == is(type) \o <<Got("on" :> called, <<>>)>>
      own == {"table", "index", "view", "sequence", "type", "schema", "domain",
              "function", "procedure", "extension", "column", "database", "role",
              "tablespace", "publication", "subscription", "aggregate", "operator",
              "collation", "conversion", "language", "cast", "server", "statistics"}
  IN  <<Got([t \in own |-> is(t)] @@ [t \in {"trigger", "rule", "policy"} |-> placed(t)]
            @@ "constraint" :> is("constraint")
                 \o <<Got("on" :> <<Opt("domain")>> \o called, <<>>)>>
            @@ "event" :> <<Want("trigger")>> \o is("event_trigger")
            @@ "access" :> <<Want("method")>> \o is("access_method")
            @@ "foreign" :> <<Got("table" :> is("foreign_table"),
                                  <<Want("data"), Want("wrapper")>> \o is("fdw"))>>
            @@ "materialized" :> <<Want("view")>> \o is("matview")
            @@ "text" :> <<Want("search"),
                           Got([t \in {"parser", "dictionary", "template", "configuration"}
                                  |-> is(t)],
                               <<Fail, Set("ObjType", "table")>>)>>
            @@ "large" :> <<Want("object")>> \o is("largeobject"),
            <<Fail, Set("ObjType", "table")>>)>>

IsText(field) == <<Want("is"),
  Got("null" :> <<Set("IsNull", "true")>>, <<TakeAny(StringConsts, field)>>)>>

CommentStmt == <<Want("comment"), Want("on"), Mark>> \o CommentTarget \o IsText("Comment")

SecLabelStmt == <<Want("security"), Want("label"), Mark,
    Got("for" :> <<Ident("Provider")>>, <<>>), Want("on")>>
  \o CommentTarget \o IsText("Label")
-----------------------------------------------------------------------------
Columns(field) == <<Got("lparen" :> ListOf(<<Ident(field)>>) \o <<Want("rparen")>>, <<>>)>>
Privilege == <<ColLabel("Privileges")>> \o Columns("PrivCols")
AllPrivileges == <<Opt("privileges"), Set("Privileges", "ALL")>> \o Columns("PrivCols")
PrivilegeList == <<Got("all" :> AllPrivileges, ListOf(Privilege))>>

GrantTarget ==
  LET kinds == {"table", "sequence", "function", "procedure", "schema", "type", "domain"}
  IN  <<Got([k \in kinds |-> <<Set("TargetType", k)>>]
            @@ "database" :> <<Set("TargetType", "schema")>>,
            <<Set("TargetType", "table")>>)>> \o ListOf(QualifiedName("Objects"))

Roles(field) == ListOf(<<ColLabel(field)>>)

With(option, field) ==
  <<Got("with" :> <<Want(option), Want("option"), Set(field, "true")>>, <<>>)>>

GrantStmt == <<Want("grant"), Mark>> \o PrivilegeList \o <<
  Got("on" :> <<Set("Node", "GrantStmt"), Set("IsGrant", "true")>> \o GrantTarget
              \o <<Want("to")>> \o Roles("Grantees") \o With("grant", "GrantOption"),
      <<Want("to"), Set("Node", "GrantRoleStmt"), Set("IsGrant", "true")>>
              \o Roles("Grantees") \o With("admin", "AdminOption"))>>

\* What follows the privileges.  Only a revoked role has the field that says
\* ADMIN OPTION FOR; GRANT OPTION FOR has none.
RevokeRest(admin) ==
  <<Got("on" :> <<Set("Node", "GrantStmt")>> \o GrantTarget \o <<Want("from")>>
                \o Roles("Grantees")
                \o <<Got("cascade" :> <<Set("GrantOption", "true")>>, <<Opt("restrict")>>)>>,
        <<Want("from"), Set("Node", "GrantRoleStmt")>> \o Roles("Grantees") \o admin)>>

RevokeStmt ==
  LET plain == RevokeRest(<<>>)
      adminOption == <<Clear({"Privileges", "PrivCols"}), Skip, Want("for")>>
        \o PrivilegeList \o RevokeRest(<<Set("AdminOption", "true")>>)
  IN  <<Want("revoke"), Mark,
        Got("grant" :> <<Want("option"), Want("for")>> \o PrivilegeList \o plain
            @@ "admin" :> <<Set("Privileges", "admin")>> \o Columns("PrivCols")
                 \o <<At("option" :> adminOption,
                         <<While("comma" :> Privilege)>> \o plain)>>,
            PrivilegeList \o plain)>>

ReassignOwned == <<Want("reassign"), Mark, Want("owned"), Want("by")>>
  \o ListOf(<<Ident("Roles")>>) \o <<Want("to"), Ident("NewRole")>>
-----------------------------------------------------------------------------
Transactions == {"begin", "start", "commit", "end", "abort", "rollback", "savepoint", "release"}

\* parseSimpleStmt
Dispatch ==
  [t \in Transactions |-> Makes("TransactionStmt")]
  @@ [t \in {"vacuum", "analyze", "analyse"} |-> Makes("VacuumStmt")]
  @@ [t \in {"fetch", "move"} |-> Makes("FetchStmt")]
  @@ "explain" :> Makes("ExplainStmt") @@ "set" :> <<Call("SetStmt")>>
  @@ "reset" :> New("VariableSetStmt", "ResetStmt")
  @@ "show" :> New("VariableShowStmt", "ShowStmt")
  @@ "listen" :> Makes("ListenStmt") @@ "notify" :> Makes("NotifyStmt")
  @@ "unlisten" :> Makes("UnlistenStmt") @@ "lock" :> Makes("LockStmt")
  @@ "deallocate" :> Makes("DeallocateStmt") @@ "discard" :> Makes("DiscardStmt")
  @@ "grant" :> <<Call("GrantStmt")>> @@ "revoke" :> <<Call("RevokeStmt")>>
  @@ "reassign" :> New("ReassignOwnedStmt", "ReassignOwned")
  @@ "close" :> Makes("ClosePortalStmt")
  @@ "comment" :> Makes("CommentStmt") @@ "security" :> Makes("SecLabelStmt")
  @@ "checkpoint" :> New("CheckPointStmt", "CheckpointStmt")
  @@ "load" :> Makes("LoadStmt")
  @@ "reindex" :> Makes("ReindexStmt") @@ "cluster" :> Makes("ClusterStmt")

StmtRoutines ==
  "Stmt" :> <<Call("SimpleStmt")>>
  @@ "SimpleStmt" :> <<At(Dispatch, <<Fail, Skip, Nil>>)>>
  @@ "TransactionStmt" :> TransactionStmt @@ "VacuumStmt" :> VacuumStmt
  @@ "FetchStmt" :> FetchStmt @@ "ExplainStmt" :> ExplainStmt @@ "SetStmt" :> SetStmt
  @@ "SetConstraintsStmt" :> SetConstraintsStmt @@ "SetValueList" :> SetValueList
  @@ "TransactionModes" :> TransactionModes
  @@ "ResetStmt" :> ResetStmt @@ "ShowStmt" :> ShowStmt @@ "ListenStmt" :> ListenStmt
  @@ "NotifyStmt" :> NotifyStmt @@ "UnlistenStmt" :> UnlistenStmt
  @@ "LockStmt" :> LockStmt @@ "DeallocateStmt" :> DeallocateStmt
  @@ "DiscardStmt" :> DiscardStmt @@ "GrantStmt" :> GrantStmt
  @@ "RevokeStmt" :> RevokeStmt @@ "ReassignOwned" :> ReassignOwned
  @@ "ClosePortalStmt" :> ClosePortalStmt @@ "CommentStmt" :> CommentStmt
  @@ "SecLabelStmt" :> SecLabelStmt @@ "CheckpointStmt" :> CheckpointStmt
  @@ "LoadStmt" :> LoadStmt @@ "ReindexStmt" :> ReindexStmt @@ "ClusterStmt" :> ClusterStmt
=============================================================================
