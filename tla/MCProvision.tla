---------------------------- MODULE MCProvision ----------------------------
(* Small hosts, devices and command lines for TLC. *)
EXTENDS Provision, TLC

CONSTANTS k1, k2, s1, s2, n1, n2, d1, d2

OnePin == [d \in Device |-> n1]

\* A factory-fresh device, one provisioned before, and one whose certificate is gone.
Fresh == [key |-> None, cert |-> None, slot2 |-> None]
Used == [key |-> k1, cert |-> k1, slot2 |-> s1]
NoCert == [key |-> k1, cert |-> None, slot2 |-> None]
SomeContents == {Fresh, Used, NoCert}
TwoContents == {Fresh, Used}

Protected == [d \in Device |-> "protected"]

\* One device in a port at a time, as the prompt of `clone` asks for.
OneInPort == Cardinality(plugged) <= 1

InitOptions == {o \in Option : o.cmd = "init" /\ ~o.show}
Clone == [cmd |-> "clone", exportable |-> FALSE, layered |-> TRUE, generated |-> FALSE,
          force |-> FALSE, show |-> TRUE, touch |-> FALSE, mgm |-> "auto"]
OnlyClone == {Clone}
CloneOptions ==
  {Clone, [Clone EXCEPT !.layered = FALSE, !.force = TRUE, !.touch = TRUE],
   [Clone EXCEPT !.layered = FALSE, !.mgm = "explicit"]}
InitAndClone == InitOptions \cup CloneOptions
=============================================================================
