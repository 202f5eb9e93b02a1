------------------------------- MODULE JsonXml -------------------------------
(***************************************************************************)
(* parser/parse_xmljson.go and parse_json_table.go as routines of          *)
(* Parser.tla.  A word that the code compares with an identifier although  *)
(* it is a keyword (CONDITIONAL and UNCONDITIONAL of JSON_QUERY, INDENT,   *)
(* OBJECT and SCALAR) is only found when it is quoted, and is left out.    *)
(***************************************************************************)
EXTENDS Expressions

\* The expression before this becomes no field of a node.
Drop == Set("Dropped", "")

\* p.colId(), whose name becomes no field
Unused == <<Ident("Unused"), Clear({"Unused"})>>
-----------------------------------------------------------------------------
\* expr [AS name], ...
XmlAttributeList == ListOf(<<Call("Prec0"), IfGot("as", <<ColLabel("Name")>>), Set("NamedArgs", "")>>)

XmlCall(op, is) == <<Want("lparen")>> \o is \o <<Want("rparen"), Set("XmlExpr", op)>>

\* The XML functions that make a value, after their names
XmlValue ==
  LET name == <<Want("name"), ColLabel("Name")>>
      content == <<While("comma" :> Expr("Args"))>>
  IN  "xmlconcat" :> XmlCall("CONCAT", ExprList("Args"))
      @@ "xmlelement" :> XmlCall("ELEMENT", name \o <<IfGot("comma",
           <<Got("xmlattributes" :> Parens(XmlAttributeList), Expr("Args"))>> \o content)>>)
      @@ "xmlforest" :> XmlCall("FOREST", XmlAttributeList)
      @@ "xmlpi" :> XmlCall("PI", name \o <<IfGot("comma", Expr("Args"))>>)

\* The XML functions of a document; white space and STANDALONE leave no trace.
XmlDocument ==
  LET option == <<Got("document" :> <<Set("Xmloption", "DOCUMENT")>>,
                      <<Want("content"), Set("Xmloption", "CONTENT")>>)>>
      byRef == <<Opt("by"), Opt("ref")>>
      space == [t \in {"strip", "preserve"} |-> <<Want("whitespace")>>]
      version == <<Got("no" :> <<Want("value")>>, Expr("Args"))>>
      standalone == <<Want("standalone"), Got("yes" :> <<>> @@ "no" :> <<Opt("value")>>, <<>>)>>
  IN  "xmlparse" :> XmlCall("PARSE", option \o Expr("Args") \o <<Got(space, <<>>)>>)
      @@ "xmlroot" :> XmlCall("ROOT", Expr("Args") \o <<Want("comma"), Want("version")>> \o version
           \o <<IfGot("comma", standalone)>>)
      @@ "xmlserialize" :> XmlCall("SERIALIZE",
           option \o Expr("Args") \o <<Want("as"), Call("TypeName")>>)
      @@ "xmlexists" :> XmlCall("EXISTS", Expr("Args")
           \o <<IfGot("passing", byRef \o Expr("Args") \o byRef)>>)
XmlFunction == XmlValue @@ XmlDocument
-----------------------------------------------------------------------------
JsonReturning == IfGot("returning", <<Call("TypeName"), Set("Output", "")>>)
JsonOnNull ==
  LET on == <<Want("on"), Want("null")>>
  IN  Got("null" :> on @@ "absent" :> on \o <<Set("AbsentOnNull", "true")>>, <<>>)
JsonUniqueKeys ==
  LET keys == <<Want("unique"), Want("keys")>>
  IN  Got("with" :> keys \o <<Set("UniqueKeys", "true")>> @@ "without" :> keys, <<>>)

\* key : value or key VALUE value; what becomes of a key alone
JsonKeyValue(alone) ==
  LET pair == <<Set("Key", "")>> \o Expr("Value") \o <<Set("JsonKeyValue", "")>>
  IN  <<Call("Prec0"), Got([t \in {"colon", "value"} |-> pair], alone)>>

\* Fault: RETURNING begins a key.
JsonPairsOfAll == <<At([t \in {"null", "absent"} |-> <<>>],
  JsonKeyValue(<<Drop>>) \o <<IfGot("comma", <<Call("JsonPairs")>>)>>)>>

JsonPairs == <<At([t \in {"returning", "null", "absent"} |-> <<>>],
  JsonKeyValue(<<Drop>>) \o <<IfGot("comma", <<Call("JsonPairs")>>)>>)>>
JsonElements == <<At([t \in {"returning", "null", "absent"} |-> <<>>],
  Expr("Exprs") \o <<IfGot("comma", <<Call("JsonElements")>>)>>)>>
-----------------------------------------------------------------------------
\* expr [AS name], ...
JsonPassingList == ListOf(<<Call("Prec0"), IfGot("as", <<Ident("Name")>>), Set("Passing", "")>>)

\* What to do when nothing is found, and on an error; the latter two words are
\* optional, and what they do not name is dropped.
JsonBehavior(words) ==
  LET on == <<Got("on" :> <<Got("empty" :> <<Set("OnEmpty", "")>> @@ "error" :> <<Set("OnError", "")>>,
                               <<Drop>>)>>, <<Drop>>)>>
  IN  [t \in words |-> <<Set("JsonBehavior", t)>> \o on]
      @@ "default" :> <<Call("Prec0"), Set("JsonBehavior", "default")>> \o on
JsonFuncBehavior == Got(JsonBehavior({"null", "error", "true", "false"}), <<>>)
JsonTableBehavior == JsonBehavior({"null", "error", "empty"})
JsonWrapper == Got("with" :> <<Set("Wrapper", "UNCONDITIONAL"), Want("wrapper")>>
                   @@ "without" :> <<Want("wrapper")>>, <<>>)

JsonCall(type, is) == <<Want("lparen")>> \o is \o <<Want("rparen"), Set(type, "")>>

\* The JSON functions that make a value of their arguments, after their names
JsonConstructor ==
  LET some(list) == At("rparen" :> <<>>, <<Call(list)>>)
  IN  "json_object" :> JsonCall("JsonObjectConstructor",
           <<some("JsonPairs"), JsonOnNull, JsonUniqueKeys, JsonReturning>>)
      @@ "json_array" :> JsonCall("JsonArrayConstructor",
           <<some("JsonElements"), JsonOnNull, JsonReturning>>)

JsonQuery ==
  LET func(op, is) == JsonCall("JsonFuncExpr", Expr("Expr") \o <<Want("comma")>> \o Expr("PathSpec")
        \o <<IfGot("passing", JsonPassingList)>> \o is
        \o <<JsonFuncBehavior, JsonFuncBehavior, Set("Op", op)>>)
  IN  "json_query" :> func("QUERY", <<JsonReturning, JsonWrapper>>)
      @@ "json_value" :> func("VALUE", <<JsonReturning>>)
      @@ "json_exists" :> func("EXISTS", <<>>)

\* A key of JSON_OBJECTAGG may stand alone.
JsonAggregate ==
  LET format == <<IfGot("format", <<Want("json"), IfGot("encoding", Unused)>>)>>
      keyAlone == <<Set("Key", ""), Set("JsonKeyValue", "")>>
      keys == Got("with" :> <<IfGot("unique", <<Opt("keys"), Set("UniqueKeys", "true")>>)>>
                  @@ "without" :> <<Opt("unique"), Opt("keys")>>, <<>>)
  IN  "json_scalar" :> JsonCall("JsonScalarExpr", Expr("Expr") \o <<JsonReturning>>)
      @@ "json_serialize" :> JsonCall("JsonSerializeExpr", Expr("Expr") \o format \o <<JsonReturning>>)
      @@ "json_objectagg" :> JsonCall("JsonObjectAgg", JsonKeyValue(keyAlone)
           \o <<JsonOnNull, keys, JsonReturning>>)
      @@ "json_arrayagg" :> JsonCall("JsonArrayAgg", Expr("Arg")
           \o <<Call("OrderBy"), JsonOnNull, JsonReturning>>)
JsonFunction == JsonConstructor @@ JsonQuery @@ JsonAggregate

\* After IS [NOT] JSON
IsJson == <<Got("value" :> <<Set("ItemType", "ANY")>> @@ "array" :> <<Set("ItemType", "ARRAY")>>,
                <<Set("ItemType", "ANY")>>),
            JsonUniqueKeys, Set("JsonIsPredicate", "")>>
-----------------------------------------------------------------------------
Ordinality(type) == <<Want("ordinality"), Set(type, "FOR_ORDINALITY")>>
JsonTableColumns == ListOf(<<Call("JsonTableColumn")>>)
JsonTableColumn ==
  LET ways == "conditional" :> <<Opt("wrapper"), Set("Wrapper", "CONDITIONAL")>>
        @@ "unconditional" :> <<Opt("wrapper"), Set("Wrapper", "UNCONDITIONAL")>>
      wrapper == Got("with" :> <<Got(ways, <<Opt("wrapper"), Set("Wrapper", "UNCONDITIONAL")>>)>>
                     @@ "without" :> <<Opt("wrapper")>>, <<>>)
      rest(type) == <<IfGot("path", Expr("PathSpec")), wrapper, Got(JsonTableBehavior, <<>>),
                      Got(JsonTableBehavior, <<>>), Set("JsonTableColumn", type)>>
  IN  <<Got("nested" :> <<Opt("path")>> \o Expr("PathSpec") \o <<Want("columns")>>
              \o Parens(<<Call("JsonTableColumns")>>) \o <<Set("JsonTableColumn", "NESTED")>>,
            <<Ident("Name"), Got("for" :> Ordinality("JsonTableColumn"),
                <<Call("TypeName"), Got("exists" :> rest("EXISTS"), rest("REGULAR"))>>)>>)>>

\* The default is an operand, so that NOT NULL may follow.
XmlTableColumn == <<Ident("Name"), Got("for" :> Ordinality("XmlTableColumn"),
  <<Call("TypeName"), IfGot("path", Expr("PathExpr")),
    IfGot("default", <<Call("Primary"), Set("DefExpr", "")>>),
    Got("not" :> <<Want("null"), Set("IsNotNull", "true")>>, <<Opt("null")>>),
    Set("XmlTableColumn", "")>>)>>
XmlNamespaces == <<At([t \in {"rparen", "EOF"} |-> <<>>],
  Expr("Namespaces") \o <<IfGot("comma", <<Call("XmlNamespaces")>>)>>)>>

\* The tables of FROM, after their names
JsonTable == Parens(Expr("Expr") \o <<Want("comma")>> \o Expr("PathSpec")
  \o <<IfGot("passing", JsonPassingList), Want("columns")>> \o Parens(<<Call("JsonTableColumns")>>)
  \o <<While(JsonTableBehavior)>>)
XmlTable ==
  LET byRef == IfGot("by", Unused)
      namespaces == Parens(<<Call("XmlNamespaces")>>) \o <<Want("comma")>>
  IN  Parens(<<IfGot("xmlnamespaces", namespaces)>> \o Expr("Xmlexpr")
        \o <<Want("passing"), byRef>> \o Expr("Docexpr") \o <<byRef, Want("columns")>>
        \o ListOf(<<Call("XmlTableColumn")>>))
TableFunction == "json_table" :> JsonTable @@ "xmltable" :> XmlTable

JsonXmlRoutines ==
  ByToken("Table", TableFunction) @@ "JsonPairs" :> JsonPairs
  @@ "JsonElements" :> JsonElements @@ "IsJson" :> IsJson
  @@ "JsonTableColumns" :> JsonTableColumns @@ "JsonTableColumn" :> JsonTableColumn
  @@ "XmlTableColumn" :> XmlTableColumn @@ "XmlNamespaces" :> XmlNamespaces
=============================================================================
