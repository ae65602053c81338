------------------------------ MODULE MCDrift ------------------------------
(* Two targets, two services.  Target t2's ssh user has a container of its  *)
(* own, and so has the operator.  Only t2's podman names ports so that the  *)
(* probe reads them.                                                        *)
EXTENDS DriftDetection

Ports(public) == [key \in {<<80, "tcp">>} |-> public]
NoPorts == [key \in {} |-> None]

Old == [image |-> "old", ports |-> NoPorts, managed_by |-> "quadlet"]
New == [image |-> "new", ports |-> Ports(8080), managed_by |-> "quadlet"]

Declared(t, config) ==
    [fields |-> [node |-> t, kind |-> "application", image |-> config.image,
                 managed_by |-> config.managed_by],
     ports |-> config.ports]
Host == [fields |-> [type |-> "host", provider |-> "local", public_ip |-> None,
                     tailscale_ip |-> None, host |-> None, cpu |-> None,
                     memory |-> None],
         ports |-> NoPorts]
Topology(services) == [node |-> [t \in TargetSet |-> Host],
                       service |-> services, link |-> << >>]

MCTargets == <<"t1", "t2">>
MCServices == {"web", "db"}
MCConfigs == {Old, New}
MCRootless == [t \in {"t1", "t2"} |->
                  [s \in MCServices |-> IF t = "t2" /\ s = "db" THEN Old ELSE None]]
MCOperators == {"absent", "empty", "busy"}
MCPublicKey == {"t2"}
MCLocal == [s \in MCServices |-> IF s = "web" THEN Old ELSE None]
MCSelections == {<<"podman", "port">>, <<"podman">>, <<"podman", "port", "podman">>}
MCTopologies ==
    {Topology([s \in {"web"} |-> Declared("t1", [New EXCEPT !.ports = NoPorts])]),
     Topology([s \in {"web"} |-> Declared("t2", [New EXCEPT !.ports = Ports(443)])]),
     Topology([s \in {"web"} |-> Declared("t2", New)]),
     Topology([s \in MCServices |-> IF s = "web" THEN Declared("t1", Old)
                                    ELSE Declared("t2", Old)])}
Rule(name, type, ids, category) ==
    [name |-> name, type |-> type, ids |-> ids, field |-> None, category |-> category]
MCRuleLists == {<< >>, <<Rule("nodes", "node", None, None),
                         Rule("db", "service", {"db"}, "missing")>>}
MCOverrides == << >>
===========================================================================
