---------------------------- MODULE MCLifecycle ----------------------------
EXTENDS Lifecycle

MCPrograms == {<<"view">>, <<"update">>}
=============================================================================
