-------------------------- MODULE MCSharedTopology --------------------------
(* A slice of one VM port, one switch port and one network that attaches   *)
(* the first, and what goroutines do to it.                                *)
EXTENDS SharedTopology, TLC

CONSTANTS t1, t2, t3

Symmetry == Permutations(Goroutines)

vmPort == <<"given", "vmport">>
swPort == <<"interface", <<"sw1", "ns">>, <<"p1">>>>
net1   == <<"service", <<"net1">>>>
net2   == <<"service", <<"net2">>>>

Generated == [NoLabels EXCEPT !["LocalName"] = "p1"]

\* The services that own the ports, and the components and nodes above them,
\* are left out: no call of the instance reads them.
Before ==
  LET r1 == NewNode(Ok(NewGraph), vmPort, Port(<<"nic1", "p1">>, "SharedPort", Generated))
      r2 == NewNode(r1, swPort, Port(<<"p1">>, "DedicatedPort", Generated))
      r3 == NewNode(r2, net1, Other("NetworkService", <<"net1">>, "L2Multisite"))
  IN  r3.graph

\* The ServicePort has been given a MAC since it was added.
Attach(G, s, i) ==
  LET sp == ServicePortID(G, s, i)  link == LinkID(G, s, i)
      r1 == NewNode(Ok(G), sp, Port(NameOf(G, i), "ServicePort", [NoLabels EXCEPT !["MAC"] = "02:01"]))
      r2 == NewNode(r1, link, Other("Link", NameOf(G, i), "Patch"))
      r3 == NewEdge(r2, "connects", s, sp)
      r4 == NewEdge(r3, "connects", i, link)
  IN  NewEdge(r4, "connects", sp, link).graph

Slice == Attach(Before, net1, vmPort)

VLAN(vlan) == [NoLabels EXCEPT !["VLAN"] = vlan]
MAC(mac)   == [NoLabels EXCEPT !["MAC"] = mac]

AllCalls ==
  {[op |-> "AddNode", name |-> <<"vm2">>],
   [op |-> "AddNode", name |-> <<"net2">>],
   [op |-> "AddNetworkService", name |-> <<"net1">>, interfaces |-> <<vmPort>>],
   [op |-> "AddNetworkService", name |-> <<"net2">>, interfaces |-> <<swPort, vmPort>>],
   [op |-> "ConnectInterface", service |-> net1, interface |-> vmPort],
   [op |-> "ConnectInterface", service |-> net2, interface |-> vmPort],
   [op |-> "DisconnectInterface", service |-> net1, interface |-> vmPort],
   [op |-> "DisconnectInterface", service |-> net2, interface |-> vmPort],
   [op |-> "RemoveNetworkService", name |-> <<"net1">>],
   [op |-> "SetLabels", interface |-> swPort, labels |-> VLAN("100")],
   [op |-> "SetLabels", interface |-> swPort, labels |-> MAC("02:00")],
   [op |-> "SetLabels", interface |-> ServicePortID(Slice, net1, vmPort), labels |-> VLAN("200")],
   [op |-> "AddChildInterface", interface |-> swPort, name |-> <<"sub1">>, vlan |-> "100"],
   [op |-> "AddChildInterface", interface |-> swPort, name |-> <<"sub2">>, vlan |-> "100"]}

=============================================================================
