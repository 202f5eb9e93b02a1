------------------------------- MODULE Changes -------------------------------
(***************************************************************************)
(* parser/parse_dml.go, parse_merge.go and the other statements that hold  *)
(* queries, expressions or types (PREPARE, EXECUTE, DECLARE, COPY,         *)
(* TRUNCATE, DO, CALL), as routines of Parser.tla, and parseStmt with all  *)
(* the statements that are modelled.                                       *)
(***************************************************************************)
EXTENDS Queries

Where == IfGot("where", Expr("WhereClause"))
Returning == IfGot("returning", TargetList)

SetClause == <<Ident("Name"),
    While("dot" :> <<ColLabel("Indirection")>>
          @@ "lbracket" :> Expr("Indirection") \o <<Want("rbracket")>>),
    Want("eq"), Got("default" :> <<>>, Expr("Val")), Set("ResTarget", "")>>
SetClauseList == ListOf(SetClause)

InferClause == <<Got("on" :> <<Want("constraint"), Ident("Conname")>>,
  Parens(NameList("IndexElems")) \o <<IfGot("where", Expr("InferWhere"))>>)>>

OnConflict == <<AtAny({"lparen", "on"}, InferClause), Want("do"),
  Got("nothing" :> <<Set("Action", "NOTHING")>>
      @@ "update" :> <<Set("Action", "UPDATE"), Want("set")>> \o SetClauseList \o <<Where>>,
      <<Fail>>)>>

\* INSERT takes a parenthesis for a list of columns when a word follows it,
\* SELECT too.
InsertStmt ==
  LET alias == AliasUnless({"values", "select", "default", "overriding", "on"})
      source == <<
        IfGot("overriding",
          <<Got("system" :> <<Set("Override", "SYSTEM")>> @@ "user" :> <<Set("Override", "USER")>>,
                <<>>), Want("value")>>),
        Got("default" :> <<Want("values")>>, Subselect \o <<Set("SelectStmt", "")>>)>>
  IN  <<Mark, Want("insert"), Want("into")>> \o RangeVar("Relation") \o <<alias,
        Got("lparen" :> <<At([t \in AnyWord |-> NameList("Cols") \o <<Want("rparen")>> \o source],
                             Subselect \o <<Want("rparen"), Set("SelectStmt", "")>>)>>,
            source),
        IfGot("on", <<IfGot("conflict", OnConflict)>>),
        Returning>>

UpdateStmt == <<Mark, Want("update")>> \o RangeVar("Relation")
  \o <<AliasUnless({"set"}), Want("set")>> \o SetClauseList
  \o <<IfGot("from", FromClause), Where, Returning>>

DeleteStmt == <<Mark, Want("delete"), Want("from")>> \o RangeVar("Relation")
  \o <<AliasUnless({"using", "where", "returning"}), IfGot("using", FromClause),
       IfGot("where", <<At("current" :> <<Fail>>, Expr("WhereClause"))>>), Returning>>
-----------------------------------------------------------------------------
Overriding == IfGot("overriding",
  <<Got("user" :> <<Set("Override", "USER")>>, <<Want("system"), Set("Override", "SYSTEM")>>),
    Want("value")>>)

MergeInsert == <<Overriding,
  IfGot("lparen", NameList("Cols") \o <<Want("rparen"), Overriding>>),
  Got("default" :> <<Want("values")>>, <<Want("values")>> \o Parens(ExprList("Values")))>>

MergeWhen ==
  LET notMatched == <<Want("not"), Want("matched"),
        Got("by" :> <<Got("source" :> <<Set("MatchKind", "NOT_MATCHED_BY_SOURCE")>>,
                          <<Want("target"), Set("MatchKind", "NOT_MATCHED_BY_TARGET")>>)>>,
            <<Set("MatchKind", "NOT_MATCHED_BY_TARGET")>>)>>
      command(c, is) == <<Set("CommandType", c)>> \o is
  IN  <<Got("matched" :> <<Set("MatchKind", "MATCHED")>>, notMatched),
        IfGot("and", Expr("Condition")),
        Want("then"),
        Got("update" :> <<Want("set")>> \o command("UPDATE", SetClauseList)
            @@ "delete" :> command("DELETE", <<>>) @@ "insert" :> command("INSERT", MergeInsert)
            @@ "do" :> <<Want("nothing")>> \o command("NOTHING", <<>>), <<Fail>>)>>

MergeStmt == <<Want("merge"), Want("into"), Mark>> \o RangeVar("Relation")
  \o <<Got("as" :> <<Ident("Aliasname")>>, <<AtAny(AnyName \ {"using"}, <<Ident("Aliasname")>>)>>),
       Want("using"), Call("TableRef"), Want("on")>> \o Expr("JoinCondition")
  \o <<While("when" :> MergeWhen), Returning>>
-----------------------------------------------------------------------------
PrepareStmt ==
  LET types == ListOf(<<Call("TypeName"), Set("Argtypes", "")>>)
  IN  <<Want("prepare"), Mark,
        Got("transaction" :> <<Set("Node", "TransactionStmt")>> \o Prepared("PREPARE"),
            <<Set("Node", "PrepareStmt"), Ident("Name"), IfGot("lparen", types \o <<Want("rparen")>>),
              Want("as"), Inner("SimpleStmt")>>)>>
ExecuteStmt == <<Want("execute"), Mark, Ident("Name"),
                 IfGot("lparen", ExprList("Params") \o <<Want("rparen")>>)>>

DeclareCursorStmt ==
  LET option(o) == <<Set("Options", o)>>
  IN  <<Want("declare"), Mark, Ident("Portalname"),
        While("binary" :> option("BINARY") @@ "insensitive" :> option("INSENSITIVE")
              @@ "scroll" :> option("SCROLL") @@ "no" :> <<Want("scroll")>> \o option("NO_SCROLL")),
        Want("cursor"),
        Got("with" :> <<Want("hold")>> \o option("HOLD") @@ "without" :> <<Want("hold")>>, <<>>),
        Want("for"), Inner("SelectStmt")>>

CopyStmt ==
  LET file == TakeAny(StringConsts, "Filename")
      target == Got("program" :> <<Set("IsProgram", "true"), file>>
                    @@ "stdin" :> <<>> @@ "stdout" :> <<>>, <<file>>)
      options == IfGot("with", <<IfGot("lparen",
        <<Until("rparen", Option(AnyWord \cup StringConsts) \o <<Opt("comma")>>), Want("rparen")>>)>>)
  IN  <<Want("copy"), Mark,
        Got("lparen" :> Subselect \o <<Want("rparen"), Want("to"), target, options>>,
            RangeVar("Relation")
            \o <<IfGot("lparen", NameList("Attlist") \o <<Want("rparen")>>),
                 Got("from" :> <<Set("IsFrom", "true"), target, Where>>, <<Want("to"), target>>),
                 options>>)>>

TruncateStmt == <<Want("truncate"), Mark, Opt("table")>> \o ListOf(RangeVar("Relations"))
  \o <<Got("restart" :> <<Want("identity"), Set("RestartSeqs", "true")>>
           @@ "continue" :> <<Want("identity")>>, <<>>),
       Got("cascade" :> <<Set("Behavior", "CASCADE")>>, <<Opt("restrict")>>)>>

DoStmt == <<Want("do"), Mark, TakeAny(StringConsts, "Args"),
            IfGot("language", <<ColLabel("Language")>>)>>
CallStmt == <<Want("call"), Mark>> \o QualifiedName("Funcname")
  \o Parens(<<At("rparen" :> <<>>, ExprList("Args"))>>)
-----------------------------------------------------------------------------
SelectDispatch == [t \in {"select", "values", "lparen"} |-> Makes("SelectStmt")]
ChangeDispatch == "insert" :> Makes("InsertStmt") @@ "update" :> Makes("UpdateStmt")
  @@ "delete" :> Makes("DeleteStmt") @@ "merge" :> Makes("MergeStmt")

\* A clause WITH is followed by a query or a change; it has no TABLE.
WithStmt == <<Skip>> \o WithClause \o <<At(SelectDispatch @@ ChangeDispatch, <<Fail, Skip, Nil>>)>>

FullDispatch ==
  SelectDispatch @@ ChangeDispatch
  @@ "table" :> <<Mark, Skip>> \o New("SelectStmt", "TableStmt")
  @@ "prepare" :> <<Call("PrepareStmt")>> @@ "execute" :> Makes("ExecuteStmt")
  @@ "declare" :> Makes("DeclareCursorStmt") @@ "copy" :> Makes("CopyStmt")
  @@ "truncate" :> Makes("TruncateStmt") @@ "do" :> Makes("DoStmt") @@ "call" :> Makes("CallStmt")
  @@ Dispatch

FullRoutines ==
  "Stmt" :> <<At("with" :> WithStmt, <<Call("SimpleStmt")>>)>>
  @@ "SimpleStmt" :> <<At(FullDispatch, <<Fail, Skip, Nil>>)>>
  @@ "InsertStmt" :> InsertStmt @@ "UpdateStmt" :> UpdateStmt @@ "DeleteStmt" :> DeleteStmt
  @@ "MergeStmt" :> MergeStmt @@ "TableStmt" :> TableStmt @@ "PrepareStmt" :> PrepareStmt
  @@ "ExecuteStmt" :> ExecuteStmt @@ "DeclareCursorStmt" :> DeclareCursorStmt
  @@ "CopyStmt" :> CopyStmt @@ "TruncateStmt" :> TruncateStmt @@ "DoStmt" :> DoStmt
  @@ "CallStmt" :> CallStmt @@ QueryRoutines @@ StmtRoutines
=============================================================================
