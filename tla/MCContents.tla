----------------------------- MODULE MCContents -----------------------------
EXTENDS Contents

Characters == {NUL, NL, "x", "y", "z"}
Lines == {<<"x", NL>>, <<"y", "z", NL>>, <<"x", "y", "z", "x", NL>>}
=============================================================================
