---------------------------- MODULE MCDiscovery ----------------------------
(***************************************************************************)
(* Small instances of Discovery for TLC: this device, a phone, and a phone *)
(* that calls itself phone.local.                                          *)
(***************************************************************************)
EXTENDS Discovery, TLC

CONSTANTS me, phone, local

Names ==
  (me :> <<"my", " ", "mac">>) @@ (phone :> <<"phone">>) @@ (local :> <<"phone", ".", "local">>)

Words == {"my", "mac", "phone", "local"}

\* The ids of the two phones share a digit.
OwnIds == (me :> <<"1", "a">>) @@ (phone :> <<"2", "b">>) @@ (local :> <<"3", "b">>)

\* Words of one host name, of two, and of two ids.
Given == {<<"phone", ".", "local">>, <<"phone">>, <<"b">>}
===========================================================================
