--------------------------- MODULE MCTableObject ---------------------------
(* An instance of TableObject: a table with columns "id_extra" and "id",   *)
(* the name of the second a prefix of the first, with two rows; strings     *)
(* with a NUL byte, rows with and without one and with NULL.               *)
EXTENDS TableObject

TwoColumns == <<<<"id", "extra">>, <<"id">>>>
TextWithNul == {<<7, 0, 7>>}
TwoRows == <<<<DbNull, <<7>>>>, <<<<7>>, <<7, 0, 7>>>>>>
=============================================================================
