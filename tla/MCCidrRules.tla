---------------------------- MODULE MCCidrRules ----------------------------
(***************************************************************************)
(* Instances of CidrRules for TLC: a network, one inside it and one apart. *)
(***************************************************************************)
EXTENDS CidrRules

CONSTANTS r1, r2, wide, narrow, apart, http, dns

MCInside == {<<narrow, wide>>}

R(i, s, d, port) == [id |-> i, net |-> [src |-> s, dst |-> d], port |-> port]

\* A shared network, a move to another network, a nested network, both sides.
RaceAdds == {R(r1, wide, None, http), R(r2, wide, apart, http), R(r1, apart, None, http)}
SeqAdds  == RaceAdds \cup {R(r2, narrow, None, dns), R(r2, None, apart, http)}

RaceDels == {<<r1, r2>>}
SomeDels == {<<r1>>, <<r1, r2>>}
SomeSyncs == {<<>>, <<R(r1, narrow, None, http), R(r2, apart, wide, dns)>>,
              <<R(r2, apart, None, http), R(r1, apart, wide, Bad)>>,
              <<R(r1, apart, None, http), R(r2, apart, None, http)>>}
OneSync  == {<<R(r2, wide, None, http), R(r1, None, apart, http)>>}

=============================================================================
