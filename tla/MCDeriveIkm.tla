---------------------------- MODULE MCDeriveIkm ----------------------------
(* Small hosts and devices for TLC. *)
EXTENDS DeriveIkm, TLC

CONSTANTS k1, k2, s1, s2, n1, n2, d1, d2, p1, p2

\* One PIN for every device, as a user with two clones has, or one each.
SamePin == [d \in Device |-> n1]
OwnPin == [d \in Device |-> IF d = d1 THEN n1 ELSE n2]

Full == [key |-> k1, cert |-> k1, slot2 |-> s1]
NoHmac == [Full EXCEPT !.slot2 = None]
NoCert == [Full EXCEPT !.cert = None]
NoKey == [Full EXCEPT !.key = None]
OtherCert == [Full EXCEPT !.cert = OtherKey]
Foreign == [key |-> k1, cert |-> k2, slot2 |-> s2]

AllContents == {Full, NoHmac, NoCert, NoKey, OtherCert, Foreign}
TwoContents == {Full, Foreign}

\* Two processes and one device, or one process and two devices: while a second process
\* runs, d2 stays out, and nothing tells it from a device that never was.
Few ==
  \/ Cardinality({p \in Proc : pc[p] # "idle"}) <= 1 /\ slot[d1] = Full
  \/ plugged \subseteq {d1} /\ tries[d2] = MaxTries /\ slot = [d \in Device |-> Full]

\* Processes differ in nothing but their names.
SameProcs == Permutations({p1, p2})
=============================================================================
