----------------------------- MODULE MCAdmission -----------------------------
(* The testbed, catalog and specs of the instance of Admission. *)
EXTENDS Admission, TLC

TwoSites == [w1 |-> [site |-> "RENC", type |-> "Server", cores |-> 2, stated |-> TRUE],
             w2 |-> [site |-> "RENC", type |-> "Worker", cores |-> 1, stated |-> FALSE],
             sw |-> [site |-> "RENC", type |-> "Switch", cores |-> 0, stated |-> TRUE],
             w3 |-> [site |-> "UKY", type |-> "Host", cores |-> 2, stated |-> FALSE]]

TwoGPUs == [gpu1 |-> [worker |-> "w1", type |-> "GPU", model |-> "A30", units |-> 1],
            gpu2 |-> [worker |-> "w2", type |-> "GPU", model |-> "A30", units |-> 1]]

TwoPorts == [fp1 |-> [site |-> "RENC", stated |-> TRUE], fp2 |-> [site |-> "UKY", stated |-> FALSE]]

ModelNames == <<"GPU", "A30">> :> {"A30", "A30 PCIe"} @@ <<"SmartNIC", "ConnectX-5">> :> {"ConnectX-5"}
FABlibNames == "GPU_A30" :> <<"GPU", "A30">>
FourCores == "c4" :> 4

VM(site, cores, instance, components, storage) ==
  [site |-> site, cores |-> cores, instance |-> instance, components |-> components, storage |-> storage]
Own(type, model) == [fablib |-> "", type |-> type, model |-> model]
FABlib(name)     == [fablib |-> name, type |-> "", model |-> ""]

VMs == {VM("RENC", 0, "", << >>, FALSE), VM("RENC", 1, "", <<Own("GPU", "A30")>>, FALSE),
        VM("RENC", 3, "", <<FABlib("GPU_A30"), Own("GPU", "A30")>>, FALSE),
        VM("RENC", 2, "", <<Own("GPU", "A30 PCIe")>>, FALSE), VM("RENC", 0, "c4", << >>, FALSE),
        VM("UKY", 1, "", <<Own("SmartNIC", "ConnectX-5")>>, TRUE), VM("", 66, "", << >>, FALSE),
        VM("NCSA", 2, "huge", << >>, FALSE), VM("NCSA", 2, "", << >>, FALSE)}

=============================================================================
