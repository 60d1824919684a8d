---------------------------- MODULE MCDataSource ----------------------------
(* Requests for model checking: one with ends of lines and a digit in it,  *)
(* one that is empty, and one whose length has two digits.                 *)
EXTENDS DataSource

MCBodies == << <<NL, 7, NL>>, << >>, <<1, 2, 3, 4, 5, 6, 7, 8, 9, 11>> >>

Decimal[n \in Nat] == IF n < 10 THEN <<n>> ELSE Append(Decimal[n \div 10], n % 10)
Text(body) == Decimal[Len(body)] \o <<NL>> \o body \o <<NL>>

MCFile == FlattenSeq([k \in DOMAIN MCBodies |-> Text(MCBodies[k])])

MCOffset == [k \in 1 .. Len(MCBodies) + 1 |->
               Len(FlattenSeq([j \in 1 .. k - 1 |-> Text(MCBodies[j])]))]
=============================================================================
