-------------------------- MODULE MCUploadSession --------------------------
EXTENDS UploadSession, TLC

CONSTANT a

MCBodies == {<< >>, <<a>>}
MCDeclared == {<<a>>, <<a, a>>}
Symm == Permutations(Req)
=============================================================================
