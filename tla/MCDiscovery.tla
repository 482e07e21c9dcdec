---- MODULE MCDiscovery ----
EXTENDS Discovery

TheDevices == <<"d1", "d2">>
TheWords == [d \in {"d1", "d2"} |-> <<1, 2>>]
TheProperties ==
    [d \in {"d1", "d2"} |-> IF d = "d1" THEN <<"s1", "s2">> ELSE <<"s2">>]
\* The third group is the second again, told past the last, and so is the fourth.
TheGroups ==
    <<[name |-> "s2", ids |-> <<1, 300, 4, 2>>], [name |-> "s2", ids |-> <<3>>],
      [name |-> "s2", ids |-> <<3>>], [name |-> "s2", ids |-> <<3>>]>>
TheFields == <<1, 2, 3, 4>>
Number == [NAME |-> "s4", VIZ |-> "float", MAX |-> 9, UNIT |-> "s2", WRITEABLE |-> 0,
           EVENTABLE |-> 1]
\* Field 2 is a list; field 3 has no unit; field 4 is not there.
TheMeta ==
    <<Number, [Number EXCEPT !.VIZ = "list", !.MAX = 3], [Number EXCEPT !.UNIT = NA], Number>>
TheLabels == <<<<>>, <<"s1", "s4", "s2">>, <<>>, <<>>>>
TheOutputs == <<1, 3>>
TheText ==
    [s \in {"s1", "s2", "s3", "s4"} |-> IF s = "s1" THEN <<"a", "b">> ELSE <<s>>]
\* The first is of another firmware: it agrees in one string only. The second
\* agrees with the device unless all of s1 is read.
TheTables ==
    <<[spots |-> <<"s2", "s3">>, strings |-> [s \in {"s2", "s3"} |-> <<"s2">>]],
      [spots |-> <<"s1">>, strings |-> [s \in {"s1", "s2"} |-> IF s = "s1" THEN <<"a">> ELSE <<s>>]],
      [spots |-> <<"s2", "s3">>, strings |-> [s \in {"s2", "s3"} |-> <<s>>]]>>
\* Only field 3 can be an output; the first two leave their unit unanswered;
\* string s4, named thrice, is never told.
TheSilent ==
    {<<"prop", f, "EVENTABLE">> : f \in {1, 2}} \cup {<<"prop", f, "UNIT">> : f \in {1, 2}}
    \cup {<<"prop", 4, op>> : op \in DOMAIN Number} \cup {<<"str", "s4", 1>>}

\* FieldsAreListedOnce is about devices such as this one.
ASSUME RepeatsAtTheEnd == TellsLastAgain
====
