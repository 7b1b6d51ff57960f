--------------------------- MODULE MCCollection ----------------------------
(***************************************************************************)
(* A small instance of Collection for TLC: documents with a city and a     *)
(* name, which may be blank or missing; an index on each and one on both.  *)
(***************************************************************************)
EXTENDS Collection

CONSTANTS a, b, c, x, y, byCity, byCityName, byName

TwoKeys == <<a, b>>
ThreeKeys == <<a, b, c>>
NameFields == {"city", "name"}
Document(city, name) == [f \in NameFields |-> IF f = "city" THEN city ELSE name]
SomeDocuments ==
    {Document(x, x), Document(x, y), Document(y, x), Document(Blank, x), Document(y, Missing)}
PlainDocuments == {Document(x, x), Document(y, x)}
AllIndexes == <<byCity, byCityName, byName>>
CityIndex == <<byCity>>
SomeFields ==
    [i \in Indexes |-> CASE i = byCity -> {"city"}
                         [] i = byName -> {"name"}
                         [] OTHER -> NameFields]
=============================================================================
