--------------------------- MODULE MCUpstreamAuth ---------------------------
EXTENDS UpstreamAuth

MCRepo == {<<"library", "a">>, <<"b">>}
MCPermitted == {<<"library", "a">>}
=============================================================================
