------------------------------ MODULE MCShadow ------------------------------
EXTENDS Shadow

\* Documents of each kind.
Report(kind) == [kind |-> kind, ps |-> <<"p1", "p2">>, values |-> <<"1", "null">>]
Get == [kind |-> "get", ps |-> <<>>, values |-> <<>>]

\* Two requests, of every kind between them; three of them.
Documents_MC ==
  {<<Report("report"), Get>>,
   <<Report("reportClear"), Report("desire")>>,
   <<Report("overwrite"), [Get EXCEPT !.kind = "clear"]>>}
Documents_Two == {<<Report("report"), Get>>}
Documents_Three == {<<Report("report"), Get, Report("reportClear")>>}

ASSUME Hypotheses == ReadsAsMeant
=============================================================================
