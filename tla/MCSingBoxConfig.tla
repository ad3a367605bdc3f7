--------------------------- MODULE MCSingBoxConfig ---------------------------
(* SingBoxConfig over bounded inputs.                                      *)
EXTENDS SingBoxConfig

AllSchemes == AllProtocols \ {"tun", "mixed"}
\* None that is kept, and one that is kept behind another that is not.
SomeDnsLists == {<<"v6", "blank">>, <<"v6", "w4">>}
SomeBypass == {{"blank"}, {"cidr", "blank"}}
OneDnsList == {<<"v4">>}
NoBypass == {{}}
=============================================================================
