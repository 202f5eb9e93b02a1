---------------------------- MODULE JsonXmlSyntax ----------------------------
(***************************************************************************)
(* The syntax of the JSON and XML expressions and tables, as the comments  *)
(* above the parse functions give it, with the nodes that it stands for.   *)
(***************************************************************************)
EXTENDS QuerySyntax

Text(field) == Into(Lit({"'s'"}, "A_Const"), field)
IntType == Into(Before(<<"int">>, Is("Names", "int4")), "TypeName")
Called(t, A, type, is) == As(Before(<<t>>, Wrapped(A)), type, is)
-----------------------------------------------------------------------------
\* parse_xmljson.go:3, 15, 67, 76, 107, 125, 163 and 195
XmlForms ==
  LET x(t, A, op) == Called(t, A, "XmlExpr", op)
      arg == Into(X, "Args")
      named == Before(<<"name">>, Name("Name"))
      attribute == Into(Then(X, Maybe(Before(<<"as">>, Name("Name")))), "NamedArgs")
      attributes == Before(<<"xmlattributes">>, Wrapped(Listed(attribute)))
      content == Listed(arg) \cup Then(attributes, Maybe(Before(<<"comma">>, Listed(arg))))
      option == Before(<<"document">>, Is("Xmloption", "DOCUMENT"))
                  \cup Before(<<"content">>, Is("Xmloption", "CONTENT"))
      byRef == Words(<<>>) \cup Words(<<"by", "ref">>)
      version == Words(<<"comma", "version", "no", "value">>)
                   \cup Before(<<"comma", "version">>, Into(Number, "Args"))
      standalone == Words(<<>>) \cup Words(<<"comma", "standalone", "yes">>)
                      \cup Words(<<"comma", "standalone", "no">>)
                      \cup Words(<<"comma", "standalone", "no", "value">>)
  IN  x("xmlconcat", Listed(arg), "CONCAT")
      \cup x("xmlelement", Then(named, Maybe(Before(<<"comma">>, content))), "ELEMENT")
      \cup x("xmlforest", Listed(attribute), "FOREST")
      \cup x("xmlparse", Of(option, arg, Maybe(Words(<<"preserve", "whitespace">>))), "PARSE")
      \cup x("xmlpi", Then(named, Maybe(Before(<<"comma">>, arg))), "PI")
      \cup x("xmlroot", Of(arg, version, standalone), "ROOT")
      \cup x("xmlserialize", Of(option, arg, Before(<<"as">>, IntType)), "SERIALIZE")
      \cup x("xmlexists", Then(arg, Maybe(Of(Before(<<"passing">>, byRef), arg, byRef))), "EXISTS")
-----------------------------------------------------------------------------
\* parse_xmljson.go:217, 285, 328, 379, 406 and 476, parse_json_table.go:18, 31, 57 and 104
Output == Maybe(Before(<<"returning">>, Into(IntType, "Output")))
NullClause == Maybe(Words(<<"null", "on", "null">>)
                    \cup Before(<<"absent", "on", "null">>, Is("AbsentOnNull", "true")))
KeysClause == Maybe(Words(<<"without", "unique", "keys">>)
                    \cup Before(<<"with", "unique", "keys">>, Is("UniqueKeys", "true")))
PassingClause ==
  Maybe(Before(<<"passing">>, Listed(Into(Of(X, Words(<<"as">>), Lit({"y"}, "Name")), "Passing"))))

\* What to do when nothing is found, or on an error, or both
Behaviors(words) ==
  LET way == UNION {Before(<<t>>, Is("JsonBehavior", t)) : t \in words}
               \cup As(Before(<<"default">>, Number), "JsonBehavior", "default")
      empty == Into(After(way, <<"on", "empty">>), "OnEmpty")
      error == Into(After(way, <<"on", "error">>), "OnError")
  IN  Words(<<>>) \cup empty \cup error \cup Then(empty, error)

JsonForms ==
  LET j(t, A, type) == Called(t, A, type, "")
      pair == Into(Of(Text("Key"), Words(<<"colon">>) \cup Words(<<"value">>), Into(X, "Value")),
                   "JsonKeyValue")
      element == Into(Sum, "Exprs")
      func(t, A, op) == Into(Before(<<t>>, Wrapped(As(Of(Into(X, "Expr"), Before(<<"comma">>, Text("PathSpec")),
                                Then(PassingClause, A)), "Op", op))), "JsonFuncExpr")
      wrapped == Maybe(Words(<<"without", "wrapper">>)
                       \cup Then(Is("Wrapper", "UNCONDITIONAL"), Words(<<"with", "wrapper">>)))
      behaviors == Behaviors({"null", "error"})
      format == Maybe(Words(<<"format", "json">>) \cup Words(<<"format", "json", "encoding", "x">>))
      sorted == Maybe(Before(<<"order", "by">>, Into(X, "SortBy")))
      object == Of(Listed(pair), NullClause, Then(KeysClause, Output)) \cup Then(NullClause, Output)
  IN  j("json_object", object, "JsonObjectConstructor")
      \cup j("json_array", Of(Maybe(Listed(element)), NullClause, Output), "JsonArrayConstructor")
      \cup j("json_scalar", Then(Into(X, "Expr"), Output), "JsonScalarExpr")
      \cup j("json_serialize", Of(Into(X, "Expr"), format, Output), "JsonSerializeExpr")
      \cup j("json_objectagg", Of(pair, NullClause, Then(KeysClause, Output)), "JsonObjectAgg")
      \cup j("json_arrayagg", Of(Into(X, "Arg"), sorted, Then(NullClause, Output)), "JsonArrayAgg")
      \cup func("json_query", Of(Output, wrapped, behaviors), "QUERY")
      \cup func("json_value", Then(Output, behaviors), "VALUE")
      \cup func("json_exists", Behaviors({"true", "false"}), "EXISTS")

IsJsonForms ==
  LET item == Is("ItemType", "ANY") \cup Before(<<"value">>, Is("ItemType", "ANY"))
                \cup Before(<<"array">>, Is("ItemType", "ARRAY"))
      is(w) == Into(Of(X, Words(w), Then(item, KeysClause)), "JsonIsPredicate")
  IN  is(<<"is", "json">>) \cup As(is(<<"is", "not", "json">>), "BoolExpr", "not")
-----------------------------------------------------------------------------
\* parse_json_table.go:148, 213-230, 306 and 375-409
JsonTables ==
  LET name == Lit({"y"}, "Name")
      path == Maybe(Before(<<"path">>, Text("PathSpec")))
      wrapper == Maybe(Words(<<"without", "wrapper">>)
        \cup Then(Words(<<"with", "conditional", "wrapper">>), Is("Wrapper", "CONDITIONAL"))
        \cup Then(Words(<<"with", "wrapper">>), Is("Wrapper", "UNCONDITIONAL")))
      behaviors == Behaviors({"null", "empty"})
      regular == Of(name, IntType, Of(path, wrapper, behaviors))
      column == As(Then(name, Words(<<"for", "ordinality">>)), "JsonTableColumn", "FOR_ORDINALITY")
        \cup As(regular, "JsonTableColumn", "REGULAR")
        \cup As(Of(name, IntType, Before(<<"exists">>, path)), "JsonTableColumn", "EXISTS")
      one == As(Then(name, IntType), "JsonTableColumn", "REGULAR")
      nested(A) == As(Of(Then(Words(<<"nested">>), Optional("path")), Text("PathSpec"),
                         Before(<<"columns">>, Wrapped(A))), "JsonTableColumn", "NESTED")
      columns == column \cup Listed(one) \cup nested(Listed(one)) \cup nested(nested(one))
      from(A, B) == Before(<<"json_table">>, Wrapped(
        Of(Into(X, "Expr"), Before(<<"comma">>, Text("PathSpec")),
           Of(PassingClause, Before(<<"columns">>, Wrapped(A)), B))))
  IN  As(from(columns, Words(<<>>)) \cup from(one, Behaviors({"null", "empty"})), "json_table", "")

XmlTables ==
  LET name == Lit({"y"}, "Name")
      path == Maybe(Before(<<"path">>, Text("PathExpr")))
      default == Into(Before(<<"default">>, Number), "DefExpr")
      null == Maybe(Words(<<"null">>))
      notNull == Then(Words(<<"not", "null">>), Is("IsNotNull", "true"))
      \* NOT NULL cannot follow a path, which takes NOT for an operator.
      clauses == Then(path, null) \cup notNull \cup Of(path, default, null \cup notNull)
      column == As(Then(name, Words(<<"for", "ordinality">>)), "XmlTableColumn", "FOR_ORDINALITY")
        \cup As(Of(name, IntType, clauses), "XmlTableColumn", "")
      one == As(Then(name, IntType), "XmlTableColumn", "")
      spaces == Maybe(Then(Before(<<"xmlnamespaces">>, Wrapped(Listed(Text("Namespaces")))),
                           Words(<<"comma">>)))
      way == Words(<<>>) \cup Words(<<"by", "ref">>) \cup Words(<<"by", "value">>)
      from(A, B) == Before(<<"xmltable">>, Wrapped(Of(spaces, Text("Xmlexpr"),
        Of(Before(<<"passing">>, A), Then(Into(X, "Docexpr"), A), Before(<<"columns">>, B)))))
  IN  As(from(way, one) \cup from(Words(<<>>), column \cup Listed(one)), "xmltable", "")

FunctionTables ==
  LET some == {CHOOSE p \in JsonTables : TRUE} \cup {CHOOSE p \in XmlTables : TRUE}
      named == Of(Simple(X), From(some), Then(Optional("as"), Lit({"y"}, "Aliasname")))
  IN  Then(Simple(X), From(JsonTables \cup XmlTables)) \cup named

JsonXmlStatements ==
  Made("SelectStmt", Simple(XmlForms \cup JsonForms \cup IsJsonForms) \cup FunctionTables)
JsonXmlTexts == {p.text : p \in JsonXmlStatements}

\* An expression or a table of JSON or XML is parsed into the parts it is made
\* of, whichever are left out: a word that may begin the next clause is not taken
\* for a key, an element or a column, and the clauses of a column stay with it
\* (parse_xmljson.go, parse_json_table.go).
JsonXmlIsParsed == ParsedAs(JsonXmlStatements, JsonXmlTexts)
=============================================================================
