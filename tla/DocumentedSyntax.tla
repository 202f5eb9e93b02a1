-------------------------- MODULE DocumentedSyntax --------------------------
(***************************************************************************)
(* The syntax that the comment above each parse function gives, and the    *)
(* node it stands for: a phrase is a text with the fields of its node.     *)
(* The properties compare what Parser.tla makes of a text with it.         *)
(***************************************************************************)
EXTENDS Statements, Phrases

\* parse_txn.go:3-4 and 83: the statements and the modes of a transaction.
Mode ==
  LET mode(w, name) == Then(Words(w), Is("Options", name))
      level(w, name) == mode(<<"isolation", "level">> \o w, name)
  IN  level(<<"serializable">>, "SERIALIZABLE")
      \cup level(<<"repeatable", "read">>, "REPEATABLE READ")
      \cup level(<<"read", "committed">>, "READ COMMITTED")
      \cup level(<<"read", "uncommitted">>, "READ UNCOMMITTED")
      \cup mode(<<"read", "only">>, "READ ONLY") \cup mode(<<"read", "write">>, "READ WRITE")
      \cup mode(<<"deferrable">>, "DEFERRABLE") \cup mode(<<"not", "deferrable">>, "NOT DEFERRABLE")
Modes == Maybe(Mode \cup Of(Mode, Words(<<"comma">>) \cup Words(<<>>), Mode))

Noisy(w) == Then(Words(<<w>>), Optional("work") \cup Optional("transaction"))
TransactionSyntax == Made("TransactionStmt",
  Of(Noisy("begin"), Is("Kind", "BEGIN"), Modes)
  \cup Of(Words(<<"start", "transaction">>), Is("Kind", "START"), Modes)
  \cup Then(Noisy("commit") \cup Noisy("end"), Is("Kind", "COMMIT"))
  \cup Then(Noisy("rollback") \cup Noisy("abort"), Is("Kind", "ROLLBACK"))
  \cup Of(Words(<<"savepoint">>), Is("Kind", "SAVEPOINT"), Name("Options"))
  \cup Of(Words(<<"release">>), Optional("savepoint"),
          Then(Is("Kind", "RELEASE"), Name("Options")))
  \cup Of(Then(Noisy("rollback"), Words(<<"to">>)), Optional("savepoint"),
          Then(Is("Kind", "ROLLBACK_TO"), Name("Options"))))

\* parse_txn.go:128, 147, 184, 208, 224, 240, 249 and 264, parse_utility2.go:286
SetSyntax ==
  LET value == Name("Args") \cup Lit({"1", "1.5", "'s'", "on"}, "Args")
      scope == Then(Words(<<"local">>), Is("IsLocal", "true")) \cup Optional("session")
      name == Name("Name") \cup Lit({"all"}, "Name")
  IN  Made("VariableSetStmt",
        Of(Words(<<"set">>), scope,
           Of(Name("Name"), Words(<<"to">>) \cup Words(<<"eq">>),
              Listed(value) \cup Then(Words(<<"default">>), Is("IsReset", "true"))))
        \cup Of(Words(<<"set", "transaction">>), Is("Name", "transaction"), Modes)
        \cup Of(Words(<<"reset">>), Is("IsReset", "true"), name))
      \cup Made("ConstraintsSetStmt",
        Of(Words(<<"set", "constraints">>),
           Words(<<"all">>) \cup Listed(Name("Constraints")),
           Then(Words(<<"deferred">>), Is("Deferred", "true")) \cup Words(<<"immediate">>)))
      \cup Made("VariableShowStmt", Then(Words(<<"show">>), name))
NotifySyntax == Made("NotifyStmt",
  Of(Words(<<"notify">>), Name("Conditionname"),
     Maybe(Then(Words(<<"comma">>), Lit({"'s'"}, "Payload")))))
ChannelSyntax ==
  NotifySyntax
  \cup Made("ListenStmt", Then(Words(<<"listen">>), Name("Conditionname")))
  \cup Made("UnlistenStmt",
         Then(Words(<<"unlisten">>), Name("Conditionname"))
         \cup Then(Words(<<"unlisten", "star">>), Is("Conditionname", "")))

\* parse_cursor.go:60-62: FETCH or MOVE [direction] [FROM|IN] cursor_name
FetchSyntax ==
  LET is(dir, n) == Then(Is("Direction", dir), Is("HowMany", n))
      count == Of(Words(<<>>) \cup Words(<<"plus">>)
                    \cup Then(Words(<<"minus">>), Is("HowMany", "-")),
                  Lit({"1"}, "HowMany"), Words(<<>>))
      exact(w, dir) == Of(Words(w), Is("Direction", dir), count)
      ways(w, dir) == Then(Words(<<w>>), is(dir, "1")) \cup exact(<<w>>, dir)
                        \cup Then(Words(<<w, "all">>), is(dir, "0"))
      direction ==
        Then(Words(<<>>) \cup Words(<<"next">>), is("FORWARD", "1"))
        \cup Then(Words(<<"prior">>), is("BACKWARD", "1"))
        \cup Then(Words(<<"first">>), is("ABSOLUTE", "1"))
        \cup Of(Words(<<"last">>), Is("Direction", "ABSOLUTE"),
                Then(Is("HowMany", "-"), Is("HowMany", "1")))
        \cup Then(Words(<<"all">>), is("FORWARD", "0"))
        \cup exact(<<"absolute">>, "ABSOLUTE") \cup exact(<<"relative">>, "RELATIVE")
        \cup exact(<<>>, "FORWARD") \cup ways("forward", "FORWARD") \cup ways("backward", "BACKWARD")
  IN  Made("FetchStmt",
        Of(Words(<<"fetch">>) \cup Then(Words(<<"move">>), Is("IsMove", "true")), direction,
           Then(Optional("from") \cup Optional("in"), Name("Portalname"))))
      \cup Made("ClosePortalStmt",
        Then(Words(<<"close">>), Name("Portalname"))
        \cup Then(Words(<<"close", "all">>), Is("Portalname", "")))

\* parse_grant.go:3, 42 and 93
GrantSyntax ==
  LET columns == Maybe(Of(Words(<<"lparen">>), Name("PrivCols"), Words(<<"rparen">>)))
      privileges == Listed(Then(Name("Privileges"), columns))
        \cup Of(Words(<<"all">>), Optional("privileges"), Then(Is("Privileges", "ALL"), columns))
      granted == Is("IsGrant", "true")
      target(is) == Of(Is("Node", "GrantStmt"), Then(is, Words(<<"on">>)),
                   Then(Optional("table"), Is("TargetType", "table"))
                     \cup Then(Words(<<"schema">>), Is("TargetType", "schema")))
      option(w, field) == Maybe(Then(Words(<<"with", w, "option">>), Is(field, "true")))
      roles == Listed(Name("Grantees"))
      role == Is("Node", "GrantRoleStmt")
  IN  Of(Then(Words(<<"grant">>), privileges), Then(target(granted), Name("Objects")),
         Of(Words(<<"to">>), roles, option("grant", "GrantOption")))
      \cup Of(Then(Words(<<"grant">>), Name("Privileges")), Then(role, Words(<<"to">>)),
              Of(granted, roles, option("admin", "AdminOption")))
      \cup Of(Then(Words(<<"revoke">>), privileges), Then(target(Words(<<>>)), Name("Objects")),
              Of(Words(<<"from">>), roles, Optional("restrict")
                   \cup Then(Words(<<"cascade">>), Is("GrantOption", "true"))))
      \cup Of(Then(Words(<<"revoke">>), Name("Privileges")), Then(role, Words(<<"from">>)), roles)
      \cup Of(Then(Words(<<"revoke", "admin", "option", "for">>), Name("Privileges")),
              Then(role, Words(<<"from">>)), Then(roles, Is("AdminOption", "true")))

\* parse_txn.go:277, 326 and 413, parse_utility2.go:7 and 216, parse_ddl2.go:535
UtilitySyntax ==
  LET tables(field) == Listed(Name(field) \cup Of(Name(field), Words(<<"dot">>), Name(field)))
      flag(t) == Then(Words(<<t>>), Is("Defname", t))
      concurrently == Maybe(Then(Words(<<"concurrently">>), Is("Concurrent", "true")))
  IN  Made("VacuumStmt",
        Of(Words(<<"vacuum">>), Is("IsVacuum", "true"),
           Then(Maybe(flag("full")), Then(Maybe(flag("analyze")), Maybe(tables("Relations")))))
        \cup Of(Words(<<"analyze">>), Maybe(flag("verbose")), Maybe(tables("Relations"))))
      \cup Made("LockStmt",
        Of(Words(<<"lock">>), Then(Optional("table"), tables("Relations")),
           Then(Maybe(Of(Words(<<"in">>), Lit({"exclusive"}, "Mode"), Words(<<"mode">>))),
                Maybe(Then(Words(<<"nowait">>), Is("Nowait", "true"))))))
      \cup Made("DeallocateStmt",
        Of(Words(<<"deallocate">>), Optional("prepare"),
           Name("Name") \cup Then(Words(<<"all">>), Is("IsAll", "true"))))
      \cup Made("ReindexStmt",
        Of(Words(<<"reindex">>), Then(Words(<<"table">>), Is("Kind", "table")),
           Then(concurrently, Name("Relation")))
        \cup Of(Words(<<"reindex">>), Then(Words(<<"schema">>), Is("Kind", "schema")),
                Then(concurrently, Name("Name"))))
      \cup Made("CommentStmt",
        Of(Words(<<"comment", "on", "trigger">>), Is("ObjType", "trigger"),
           Then(Name("Object"), Then(Then(Words(<<"on">>), Name("Object")),
                Then(Words(<<"is">>), Lit({"'s'"}, "Comment")
                       \cup Then(Words(<<"null">>), Is("IsNull", "true")))))))
      \cup Made("ClusterStmt",
        Then(Words(<<"cluster">>),
             Maybe(Then(Name("Relation"), Maybe(Then(Words(<<"using">>), Name("IndexName")))))))
      \cup Made("CheckPointStmt", Words(<<"checkpoint">>))
      \cup Made("LoadStmt", Then(Words(<<"load">>), Lit({"'s'"}, "Filename")))

\* parse_utility.go:46
ExplainSyntax ==
  LET verbose == Then(Words(<<"verbose">>), Is("Defname", "verbose"))
      inner == Made("ListenStmt", Then(Words(<<"listen">>), Name("Conditionname")))
                 \cup Made("CheckPointStmt", Words(<<"checkpoint">>))
  IN  Made("ExplainStmt", Of(Words(<<"explain">>),
         Maybe(verbose \cup Of(Words(<<"analyze">>), Is("Defname", "analyze"), Maybe(verbose))
           \cup Of(Words(<<"lparen">>),
                   Listed(Then(Lit({"verbose"}, "Defname"), Maybe(Lit({"x", "1"}, "Arg")))),
                   Words(<<"rparen">>))),
         inner))

Documented == TransactionSyntax \cup SetSyntax \cup ChannelSyntax \cup FetchSyntax
  \cup GrantSyntax \cup UtilitySyntax \cup ExplainSyntax
-----------------------------------------------------------------------------
DocumentedTexts == {p.text : p \in Documented}

\* A text of documented statements is parsed without an error, each of its
\* statements into the node that is documented for it, whatever statements
\* stand before it (the routines of parse_txn.go, parse_cursor.go,
\* parse_utility*.go and parse_grant.go, and parseStmtList).
SyntaxIsParsed == ParsedAs(Documented, DocumentedTexts)
-----------------------------------------------------------------------------
\* README.md:58: without a handler Parse still returns the first error; the code
\* does not do it for an error of the scanner.
ErrorIsReturned == pc = "done" /\ log # <<>> => first # 0
=============================================================================
