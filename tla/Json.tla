-------------------------------- MODULE Json --------------------------------
(***************************************************************************)
(* JSON documents, lexeme by lexeme: how anybody reads them, and how the   *)
(* SDK does (json_parser.c, json_token.c).  A lexeme is a string, without  *)
(* its quotes.                                                             *)
(***************************************************************************)
EXTENDS Integers, SequencesExt, FiniteSetsExt

\* The values at the ends of paths; nothing when a document is malformed.
Json(doc) ==
  LET punctuation == {"{", "}", ":", ",", " "}
      go(s, due, path) == [s EXCEPT !.due = due, !.path = path]
      step(s, l) ==
        CASE s.due = "value" /\ l = "{" -> go(s, "key", s.path)
          [] s.due = "key" /\ l \notin punctuation ->
               go(s, "colon", Append(s.path, l))
          [] s.due = "colon" /\ l = ":" -> go(s, "value", s.path)
          [] s.due = "value" /\ l \notin punctuation ->
               [go(s, "more", Front(s.path)) EXCEPT
                  !.found = @ \cup {[path |-> s.path, value |-> l]}]
          [] s.due = "more" /\ l = "," -> go(s, "key", s.path)
          [] s.due = "more" /\ l = "}" ->
               IF s.path = <<>> THEN go(s, "end", <<>>)
               ELSE go(s, "more", Front(s.path))
          [] OTHER -> go(s, "error", <<>>)
      read == FoldLeft(step, [due |-> "value", path |-> <<>>, found |-> {}], doc)
  IN  IF read.due = "end" THEN read.found ELSE {}

-----------------------------------------------------------------------------
(***************************************************************************)
(* How the device reads a document (json_parser.c, json_token.c).  A value *)
(* that is an object ends with its brace and is skipped as a whole; the    *)
(* search for a name goes on behind the object it began in.                *)
(***************************************************************************)
Depth(doc, v, j) ==
  Quantify(v .. j, LAMBDA i : doc[i] = "{") - Quantify(v .. j, LAMBDA i : doc[i] = "}")

ValueEnd(doc, v) == Min({j \in v .. Len(doc) : Depth(doc, v, j) = 0})

\* The names found from there on, where they stand.
json_object_for_each_kv(doc, from) ==
  {k \in from + 1 .. Len(doc) - 1 :
     /\ doc[k + 1] = ":"
     /\ \A j \in from + 1 .. k : doc[j] = "{" => ValueEnd(doc, j) < k}

\* Where the value of a name is, in the object that begins at from; or 0.
json_get_value_by_name(doc, from, name) ==
  LET found == {k \in json_object_for_each_kv(doc, from) : doc[k] = name}
  IN  IF doc[from] = "{" /\ found # {} THEN Min(found) + 2 ELSE 0

\* The value at the end of a path; nothing when there is none.
LITE_json_value_of(path, doc) ==
  LET into(v, name) == IF v = 0 THEN 0 ELSE json_get_value_by_name(doc, v, name)
      v == FoldLeft(into, 1, path)
  IN  IF v = 0 THEN <<>> ELSE SubSeq(doc, v, ValueEnd(doc, v))
=============================================================================
