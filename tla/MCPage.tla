------------------------------- MODULE MCPage -------------------------------
(***************************************************************************)
(* Six complaints of three types, the menu holding the two most common: in *)
(* a district, in a borough but in a code that is no district's, and       *)
(* without either.  Three requests of two towns.                           *)
(***************************************************************************)
EXTENDS Page, Sequences

CONSTANTS null, bronx, queens, rye, dobbs, park, z1, z2, absent, malformed

Nyc(type, board, borough, zip, state) ==
    [type |-> type, board |-> board, borough |-> borough, town |-> null,
     zip |-> zip, state |-> state]
Town(type, town, state) ==
    [type |-> type, board |-> null, borough |-> null, town |-> town,
     zip |-> null, state |-> state]

City311 == <<
    Nyc(1, <<bronx, 1>>, bronx, z1, "done"),
    Nyc(2, <<bronx, 1>>, bronx, z2, "backwards"),
    Nyc(3, <<queens, 2>>, queens, z1, "open"),
    Nyc(2, <<bronx, park>>, bronx, null, "done"),
    Nyc(1, null, null, z2, "done"),
    Nyc(1, <<bronx, 2>>, bronx, z1, "done") >>

Scf == << Town(1, rye, "done"), Town(2, dobbs, "done"), Town(2, rye, "open") >>

MCRecords == [nyc |-> City311, westchester |-> Scf]
\* ... and one complaint whose type is missing.
MCUntyped == [MCRecords EXCEPT !.nyc =
                  Append(City311, Nyc(null, <<bronx, 1>>, bronx, z1, "done"))]

MCTypes == 1 .. 4
MCBoroughs == {bronx, queens}
MCDistricts == {bronx, queens} \X (1 .. 2)
MCZips == {z1, z2}
MCKeys == 1 .. 6 \cup {absent, malformed}
MCUntypedKeys == {1, 7}
=============================================================================
