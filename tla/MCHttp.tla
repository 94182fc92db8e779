------------------------------- MODULE MCHttp -------------------------------
EXTENDS Http

\* A URL with a fragment, and one without a path, of a secure server.
Urls_MC ==
  {[text |-> <<"http", "://", "host", "/", "file", "#", "part">>,
    host |-> <<"host">>, path |-> <<"/", "file">>],
   [text |-> <<"https", "://", "host">>, host |-> <<"host">>, path |-> <<"/">>]}

\* Request line, header fields and the empty line fit the send buffer.
Lengths_MC == <<1, 1>>

\* The header fields do not.
LengthsLong_MC == <<3, 1>>
=============================================================================
