------------------------------ MODULE ShadowDoc ------------------------------
(***************************************************************************)
(* The JSON documents of the device shadow, lexeme by lexeme               *)
(* (shadow_client.c, shadow_client_json.c, shadow_client_manager.c).  A    *)
(* lexeme is a string, without its quotes; those that the code takes back  *)
(* again, by writing over the last character, are single characters.       *)
(*                                                                         *)
(* A document is built in a buffer of the application.  One that does not  *)
(* fit ends in an error of the call that builds it, wherever that happens. *)
(***************************************************************************)
EXTENDS Json, TLC

\* The properties of a document in order, and their values; "null" for none.
put_json_node(p, value) == <<p, ":", value, ",">>

Nodes(values, ps) ==
  FlattenSeq([i \in DOMAIN ps |-> put_json_node(ps[i], values[i])])

JSON_Init(overwrite) ==
  (IF overwrite THEN <<"{", "overwriteUpdate", ":", "true", ",">> ELSE <<"{">>)
  \o <<"state", ":", "{">>

\* The comma of the last property is written over.
Section(name, ps, values) ==
  Front(<<name, ":", "{">> \o Nodes(values, ps)) \o <<"}", ",">>

\* Mutant: the last comma or blank is not written over.
FinalizeKeepsLast(doc, client_token) ==
  doc \o <<"}", ",", "clientToken", ":", client_token, "}">>

\* The last comma or blank is written over.
JSON_Finalize(doc, client_token) ==
  Front(doc) \o <<"}", ",", "clientToken", ":", client_token, "}">>

ConstructReport(ps, values, client_token) ==
  JSON_Finalize(JSON_Init(FALSE) \o Section("reported", ps, values),
                client_token)

Construct_OverwriteReport(ps, values, client_token) ==
  JSON_Finalize(JSON_Init(TRUE) \o Section("reported", ps, values),
                client_token)

ConstructReportAndDesireAllNull(ps, values, client_token) ==
  JSON_Finalize(JSON_Init(FALSE) \o Section("reported", ps, values)
                \o <<"desired", ":", "null", " ">>, client_token)

ConstructDesireAllNull(client_token) ==
  JSON_Finalize(JSON_Init(FALSE) \o <<"desired", ":", "null", " ">>,
                client_token)

\* The properties keep the data the application gave them.
ConstructDesirePropNull(ps, values, client_token) ==
  JSON_Finalize(JSON_Init(FALSE) \o Section("desired", ps, values),
                client_token)

build_empty_json(client_token) == <<"{", "clientToken", ":", client_token, "}">>

\* _insert at the second character.
set_shadow_json_type(doc, method) ==
  <<"{", "type", ":", method, ",">> \o Tail(doc)

-----------------------------------------------------------------------------
\* A document is described by what builds it, "kind", its properties and their
\* values.  A report is of one property at least.
Method(d) == IF d.kind = "get" THEN "get" ELSE "update"

Built(d, client_token) ==
  CASE d.kind = "get"         -> build_empty_json(client_token)
    [] d.kind = "report"      -> ConstructReport(d.ps, d.values, client_token)
    [] d.kind = "overwrite"   -> Construct_OverwriteReport(d.ps, d.values, client_token)
    [] d.kind = "reportClear" ->
         ConstructReportAndDesireAllNull(d.ps, d.values, client_token)
    [] d.kind = "clear"       -> ConstructDesireAllNull(client_token)
    [] d.kind = "desire"      -> ConstructDesirePropNull(d.ps, d.values, client_token)

Document(d, client_token) == set_shadow_json_type(Built(d, client_token), Method(d))

\* What the application means by it, as the values at the end of paths.
Meant(d, client_token) ==
  LET at(name) == {[path |-> <<"state", name, d.ps[i]>>, value |-> d.values[i]] :
                     i \in DOMAIN d.ps}
      clear == [path |-> <<"state", "desired">>, value |-> "null"]
  IN  {[path |-> <<"type">>, value |-> Method(d)],
       [path |-> <<"clientToken">>, value |-> client_token]}
      \cup (IF d.kind \in {"report", "overwrite", "reportClear"}
            THEN at("reported") ELSE {})
      \cup (IF d.kind = "desire" THEN at("desired") ELSE {})
      \cup (IF d.kind \in {"clear", "reportClear"} THEN {clear} ELSE {})
      \cup (IF d.kind = "overwrite"
            THEN {[path |-> <<"overwriteUpdate">>, value |-> "true"]} ELSE {})

-----------------------------------------------------------------------------
\* What the device makes of a reply or a delta.
parse_client_token(doc) == LITE_json_value_of(<<"clientToken">>, doc)
parse_shadow_operation_type(doc) == LITE_json_value_of(<<"type">>, doc)

\* sscanf of a number.
parse_shadow_operation_result_code(doc) ==
  LITE_json_value_of(<<"result">>, doc) \in {<<"0">>, <<"1">>}

parse_shadow_operation_delta(doc) ==
  LITE_json_value_of(<<"payload", "state">>, doc)
parse_shadow_operation_get(doc) ==
  LITE_json_value_of(<<"payload", "state", "delta">>, doc)

\* A property that is null is none.
update_value_if_key_match(delta, p) ==
  delta # <<>> /\ LITE_json_value_of(<<p>>, delta) \notin {<<>>, <<"null">>}

\* What the cloud writes: a delta of the properties ps is pushed, or goes with
\* the reply to a get, after what was reported of all of them.
FromCloud(type, client_token, code, ps, Properties) ==
  LET object(qs) ==
        LET one(p) == <<p, ":", "1", ",">>
        IN  <<"{">> \o (IF qs = {} THEN <<>>
                        ELSE Front(FlattenSeq(SetToSeq({one(p) : p \in qs}))))
                    \o <<"}">>
      state == IF type = "delta" THEN object(ps)
               ELSE <<"{", "reported", ":">> \o object(Properties)
                    \o (IF ps = {} THEN <<>>
                        ELSE <<",", "delta", ":">> \o object(ps)) \o <<"}">>
      answer == IF type = "delta" THEN <<>>
                ELSE <<",", "result", ":", code, ",", "clientToken", ":", client_token>>
  IN  <<"{", "type", ":", type, ",", "payload", ":", "{", "state", ":">> \o state
      \o <<",", "version", ":", "2", "}">> \o answer \o <<"}">>
=============================================================================
