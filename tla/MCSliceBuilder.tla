--------------------------- MODULE MCSliceBuilder ---------------------------
(* Specs of small slices.                                                  *)
EXTENDS SliceBuilder, SequencesExt

Ref(node, nic, port) ==
  [node |-> <<node>>, facility |-> NoName, component |-> <<nic>>, port |-> port, name |-> NoName,
   vlan |-> NoVLAN, subs |-> << >>]
FacilityRef(facility, port) ==
  [node |-> NoName, facility |-> <<facility>>, component |-> NoName, port |-> 0, name |-> <<port>>,
   vlan |-> "100", subs |-> << >>]

VM(name, site, nic, kind) ==
  [name |-> <<name>>, site |-> site, components |-> <<[name |-> <<nic>>, kind |-> kind]>>]
Facility(name) == [name |-> <<name>>, site |-> name, ports |-> << <<"port">> >>]
Network(name, type, interfaces) ==
  [name |-> <<name>>, type |-> type, interfaces |-> interfaces, from |-> NoName]

-----------------------------------------------------------------------------
(* A bridge, a VM, a facility and a switch that stay, and every choice of   *)
(* two VMs and a network of a type to be inferred.  A network attaches      *)
(* those of its members that are there, but for those left off; there may   *)
(* be a port mirror when both its ends are there.                           *)
VMs == <<VM("vm1", "RENC", "nic1", "SharedNIC"),
         VM("vm2", "RENC", "nic2", "SmartNIC"), VM("vm3", "UKY", "nic3", "SharedNIC")>>

Among(nodes, refs) == SelectSeq(refs, LAMBDA ref : \E n \in nodes : n.name = ref.node)

Net1(nodes) == Network("net1", "L2Bridge", Among(nodes, <<Ref("vm1", "nic1", 0), Ref("vm2", "nic2", 0)>>))
Net2(nodes) == Network("net2", "", Append(Among(nodes, <<Ref("vm2", "nic2", 1), Ref("vm3", "nic3", 0)>>),
                                          FacilityRef("cern", "port")))
Off(nodes, name) == {n \in nodes : n.name # name}
Mirror      == [Network("mirror", "PortMirror", <<Ref("vm2", "nic2", 1)>>) EXCEPT !.from = <<"nic1", "p1">>]

Subsets ==
  {[nodes      |-> SelectSeq(VMs, LAMBDA n : n \in choice.nodes),
    networks   |-> SelectSeq(<<Net1(choice.nodes), Net2(Off(choice.nodes, choice.off)), Mirror>>,
                             LAMBDA n : n.name \in choice.nets \cup {<<"net1">>}),
    facilities |-> <<Facility("cern")>>,
    switches   |-> <<[name |-> <<"sw">>, site |-> "STAR", nPorts |-> 1]>>] :
     choice \in {c \in [nodes : {N \in SUBSET Range(VMs) : VMs[3] \in N},
                       nets : SUBSET {<<"net2">>, <<"mirror">>}, off : {NoName, <<"vm2">>}] :
                  <<"mirror">> \in c.nets => {VMs[1], VMs[2]} \subseteq c.nodes}}

\* Two VMs whose NICs have the same name, and different VLANs.
SameNames ==
  LET vlan(ref, id) == [ref EXCEPT !.vlan = id]
  IN  {[NoSpec EXCEPT
         !.nodes    = <<VM("vm1", "RENC", "nic1", "SharedNIC"), VM("vm2", "RENC", "nic1", "SharedNIC")>>,
         !.networks = <<Network("net1", "L2Bridge",
                          <<vlan(Ref("vm1", "nic1", 0), "100"), vlan(Ref("vm2", "nic1", 0), "200")>>)>>]}

=============================================================================
