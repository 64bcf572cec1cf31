SPECIFICATION Spec
CONSTANTS
  Sites = {"RENC", "UKY"}
  Workers <- TwoSites
  Devices <- TwoGPUs
  Ports <- TwoPorts
  NodeSpecs <- VMs
  Models <- ModelNames
  FABlibModels <- FABlibNames
  Flavors <- FourCores
  Step = 2
  MaxNodes = 2
INVARIANTS DecodersAgree FindingsAreRight TagsNamed
