----------------------------- MODULE MCMockStore -----------------------------
(***************************************************************************)
(* MockStore for TLC: a service with a database on two hosts, and a second *)
(* service's database on one of them.  Carol is the user of the first and  *)
(* the owner account of the second, Alice's.  Both make requests; what is  *)
(* shown is asked for everybody, as user, administrator and agent.         *)
(***************************************************************************)
EXTENDS MockStore, TLC

CONSTANTS h1, h2, s1, s2, db1, db2, u1, u2, u3, alice, carol, admin

MCHosts == {h1, h2}
MCServices == {s1, s2}
MCChildren == {db1, db2}
MCUnits == {u1, u2, u3}
MCUsers == {alice, carol, admin}
MCUserOf == (s1 :> carol) @@ (s2 :> alice)
MCOwnerOf == (s1 :> "none") @@ (s2 :> carol)
MCClients == {UserHeaders(alice), UserHeaders(carol)}
MCServiceOf == (db1 :> s1) @@ (db2 :> s2)
MCUnitsOf == (db1 :> <<u1, u2>>) @@ (db2 :> <<u3>>)
MCHostOf == (u1 :> h1) @@ (u2 :> h2) @@ (u3 :> h1)
MCSeedSize == [u \in MCUnits |-> [cpu |-> 1, data |-> 1, log |-> 1]]
MCSeedBackups == {u3}
MCCpu == [h \in MCHosts |-> 3]
MCDisk == [h \in MCHosts |-> 9]
MCOther == [h \in MCHosts |-> 0]
Ch(k, c, d, l) == [of |-> k, cpu |-> c, data |-> d, log |-> l]
MCChanges == {Ch(db1, 2, 0, 0), Ch(db2, 2, 0, 0), Ch(db1, 0, 2, 0), Ch(db2, 0, 0, 3)}

=============================================================================
