------------------------------ MODULE Resources ------------------------------
(***************************************************************************)
(* pkg/catalog: what a testbed has, decoded from either of the two graphs  *)
(* that describe it: the advertised topology and the model of the broker.  *)
(* Cores stand for cores, RAM and disk, which are all read the same way.   *)
(*                                                                         *)
(* A graph is the set of its nodes and the pairs of IDs of its edges,      *)
(* which all are of class "has".  Text that is not there is "".            *)
(***************************************************************************)
EXTENDS Integers, FiniteSetsExt

ServerTypes == {"Server", "Host", "Worker"}

Parents(G, n)  == {p \in G.nodes : <<p.id, n.id>> \in G.has}
Parent(G, n)   == CHOOSE p \in Parents(G, n) : TRUE
Children(G, n) == {c \in G.nodes : <<n.id, c.id>> \in G.has}

-----------------------------------------------------------------------------
(* What is read of one node.                                               *)

\* availability, componentAvailability
Availability(n) ==
  [capacity |-> n.capacity, allocated |-> n.allocated, available |-> n.capacity - n.allocated]

\* componentKey
ComponentKey(type, model) == <<type, model>>
KeyOf(c) == ComponentKey(c.type, c.model)

\* addComponentAvailability over some components: per key, the sum.
SumOf(components) ==
  [key \in {KeyOf(c) : c \in components} |->
     LET same == {c \in components : KeyOf(c) = key}
         sum(field) == MapThenSumSet(LAMBDA c : Availability(c)[field], same)
     IN  [field \in {"capacity", "allocated", "available"} |-> sum(field)]]

HostRecord(n, components) == [name |-> n.name, cores |-> Availability(n), components |-> SumOf(components)]

SiteRecord(n, hosts, components) ==
  [name |-> n.name, cores |-> Availability(n), hosts |-> hosts, components |-> SumOf(components)]

-----------------------------------------------------------------------------
(* DecodeAdvertised.                                                       *)

\* parentSite, siteNameForNode: the site of the nearest node above that is one
\* or states one.
ParentSite(G, node) ==
  LET site[n \in G.nodes] ==
        IF n.type = "Site" THEN n.name
        ELSE IF n.site # "" \/ Parents(G, n) = {} THEN n.site
        ELSE site[Parent(G, n)]
  IN  IF Parents(G, node) = {} THEN "" ELSE site[Parent(G, node)]

\* Faulty variant (see README, "Mutants").
HostSiteAsStated(G, host) == host.site

HostSite(G, host) == IF host.site # "" THEN host.site ELSE ParentSite(G, host)

\* decodeSitesAndHosts: of several hosts with one name only one stands, and
\* the components of all count for that one.
SiteNames(G) == {n.name : n \in {m \in G.nodes : m.type = "Site"}}
HostNames(G) == {n.name : n \in {m \in G.nodes : m.type \in ServerTypes}}
SiteNamed(G, name) == CHOOSE n \in G.nodes : n.type = "Site" /\ n.name = name
HostNamed(G, name) == CHOOSE n \in G.nodes : n.type \in ServerTypes /\ n.name = name

\* decodeComponents: a component counts for the host its parent is named like,
\* and the site of that host, or else for the site its parent is named like.
Counted(G) == {c \in G.nodes : c.class = "Component" /\ Parents(G, c) # {}}
ParentName(G, c) == Parent(G, c).name

ComponentsOfHost(G, name) == {c \in Counted(G) : ParentName(G, c) = name}

ComponentsOfSite(G, name) ==
  {c \in Counted(G) : IF ParentName(G, c) \in HostNames(G)
                      THEN HostSite(G, HostNamed(G, ParentName(G, c))) = name
                      ELSE ParentName(G, c) = name}

DecodeAdvertised(G) ==
  {SiteRecord(SiteNamed(G, name),
              {HostRecord(HostNamed(G, host), ComponentsOfHost(G, host)) :
                 host \in {h \in HostNames(G) : HostSite(G, HostNamed(G, h)) = name}},
              ComponentsOfSite(G, name)) : name \in SiteNames(G)}

\* decodeLinks and decodeFacilityPorts: the site of a port.
FacilityPorts(G) ==
  {[name |-> n.name, site |-> IF n.site # "" THEN n.site ELSE ParentSite(G, n)] :
     n \in {m \in G.nodes : m.type = "FacilityPort"}}

-----------------------------------------------------------------------------
(* DecodeBrokerModel.                                                      *)

DecodeBrokerModel(G) ==
  LET workers(n)    == {w \in Children(G, n) : w.class = "NetworkNode"}
      components(w) == {c \in Children(G, w) : c.class = "Component"}
      hosts(n)      == {HostRecord(w, components(w)) : w \in {v \in workers(n) : v.type # "Switch"}}
  IN  {SiteRecord(n, hosts(n), UNION {components(w) : w \in workers(n)}) :
         n \in {m \in G.nodes : m.class = "CompositeNode"}}

=============================================================================
