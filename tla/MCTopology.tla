----------------------------- MODULE MCTopology -----------------------------
(* Small slices: what the callers of the instances of Topology pass.       *)
EXTENDS Topology

VM(name, site) ==
  [name |-> <<name>>, type |-> "VM", site |-> site, id |-> NoID, image |-> TRUE, mgmtIP |-> FALSE]

NIC(name, kind) ==
  [name |-> <<name>>, kind |-> kind, id |-> NoID, nsID |-> NoID, portID |-> [l \in {"p1", "p2"} |-> NoID]]

Service(name, type) ==
  [name |-> <<name>>, type |-> type, site |-> NoSite, id |-> NoID, mirror |-> NoName, badGateway |-> FALSE]

Facility(ports) ==
  [name |-> <<"cern">>, type |-> "VLAN", site |-> "CERN", id |-> NoID, nsID |-> NoID,
   ports |-> [k \in DOMAIN ports |-> [name |-> <<ports[k]>>, id |-> NoID]]]

Switch(nPorts) ==
  [name |-> <<"sw1">>, type |-> "P4", site |-> "RENC", id |-> NoID, nsID |-> NoID, nPorts |-> nPorts]

Mirror    == [name |-> <<"mirror">>, site |-> NoSite, id |-> NoID, from |-> <<"p1">>]
PlainLink == [name |-> <<"link1">>, type |-> "Patch", id |-> NoID]
Subs      == {[name |-> <<"sub", vlan>>, vlan |-> vlan, id |-> NoID] : vlan \in {"100", "200"}}

\* IDs the caller supplies, the same one for two ports.
Clashing ==
  {[NIC(name, "SharedNIC") EXCEPT !.portID = [l \in {"p1", "p2"} |-> <<"given", "port">>]] :
     name \in {"nic1", "nic2"}}

Nothing == [o \in Opts |-> IF o = "maxElements" THEN 12 ELSE {}]

\* Two VMs with shared NICs and two networks.
Networks ==
  [Nothing EXCEPT !.nodes = {VM("vm1", "RENC"), VM("vm2", "UKY")},
                  !.components = {NIC("nic1", "SharedNIC")},
                  !.services = {Service("net1", "L2Multisite"), Service("net2", "L2Bridge")},
                  !.maxElements = 13]

\* A switch with an extra port, sub-interfaces and a port mirror, and a network
\* with the name that the service of the switch gets.
SwitchPorts ==
  [Nothing EXCEPT !.services = {Service("net1", "L2Multisite"),
                                [Service("sw1", "L2Bridge") EXCEPT !.name = <<"sw1", "ns">>]},
                  !.switches = {Switch(1)},
                  !.mirrors = {Mirror}, !.children = Subs, !.vlans = {"200"},
                  !.ports = {[name |-> <<"p1">>, type |-> "DedicatedPort", id |-> NoID]},
                  !.maxElements = 9]

\* Names used twice, IDs used twice, a facility whose second port fails.
Failing ==
  [Nothing EXCEPT !.nodes = {VM("vm1", "RENC"), [VM("vm1", "RENC") EXCEPT !.id = <<"given", "node">>]},
                  !.components = Clashing, !.services = {Service("net1", "L2Multisite")},
                  !.nodeServices = {Service("net1", "L2Bridge"),
                                    [Service("net2", "L2Bridge") EXCEPT !.id = <<"given", "service">>]},
                  !.facilities = {Facility(<<"int", "int">>)},
                  !.liberties = {"stale", "attached"}, !.maxElements = 7]

\* Ports and sub-interfaces whose names or IDs are taken, on services and ports
\* that may be gone.
FailingPorts ==
  [Nothing EXCEPT !.services = {Service("net1", "L2Multisite")}, !.switches = {Switch(1)},
                  !.ports = {[name |-> <<"p1">>, type |-> "DedicatedPort", id |-> id] : id \in {NoID, <<"given", "port">>}},
                  !.children = {[name |-> <<"sub">>, vlan |-> vlan, id |-> NoID] : vlan \in {"100", "200"}},
                  !.liberties = {"stale"}, !.maxElements = 7]

\* Everything the API allows.
Free ==
  [Nothing EXCEPT !.services = {Service("net1", "L2Multisite")}, !.switches = {Switch(1)},
                  !.mirrors = {Mirror}, !.links = {PlainLink},
                  !.liberties = {"stale", "peer", "attached", "owned", "links"}, !.maxElements = 8]

Disciplined == [networks |-> Networks, ports |-> SwitchPorts]
AnyCallers  == [failing |-> Failing, failingPorts |-> FailingPorts, free |-> Free]

\* The callers of Slices are those of the theorems about disciplined callers.
ASSUME SlicesKeepDiscipline == \A c \in DOMAIN Disciplined : KeepsDiscipline(Disciplined[c])

=============================================================================
