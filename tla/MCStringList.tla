---------------------------- MODULE MCStringList ----------------------------
EXTENDS StringList
MCWidth == [w \in Words |-> IF w = "" THEN 1 ELSE 4]
=============================================================================
