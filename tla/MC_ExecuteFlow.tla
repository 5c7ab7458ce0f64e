-------------------------- MODULE MC_ExecuteFlow --------------------------
(* Small instances of ExecuteFlow: two executes of one user, the second of  *)
(* a session that may write by hand; the user's plan of two statements and  *)
(* somebody else's; and a SELECT that changes data.                         *)
EXTENDS ExecuteFlow, TLC

CONSTANTS e1, e2, p1, p2, write, look, u1, u2, c1, c2, erp, test, svc, public, archive

MC_Symmetry == Permutations({erp, test})
MC_Length == [s \in Sql |-> IF s = p1 THEN 2 ELSE 1]
MC_By == [e \in Executes |-> u1]
MC_UserOf == [p \in Plans |-> IF p = p2 THEN u2 ELSE u1]
MC_Owner == [c \in Connections |-> IF c = c2 THEN u2 ELSE u1]
MC_Target(d, s) == [database |-> d, login |-> svc, schema |-> s]
\* Two databases; two schemas of one database.
MC_Databases == {MC_Target(erp, public), MC_Target(test, public)}
MC_Schemas == {MC_Target(erp, public), MC_Target(erp, archive)}
=============================================================================
