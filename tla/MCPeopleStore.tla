--------------------------- MODULE MCPeopleStore ----------------------------
(***************************************************************************)
(* Four people, one of them in the store, a group and two goroutines, for  *)
(* model checking PeopleStore.                                             *)
(***************************************************************************)
EXTENDS PeopleStore

CONSTANTS p1, p2, p3, p4, g1, t1, t2

MCPeople   == {p1, p2, p3, p4}
MCContacts == {p1}
MCGroups   == {g1}
MCCallers  == {t1, t2}
=============================================================================
