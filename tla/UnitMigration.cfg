CONSTANT Configs <- MCConfigs
SPECIFICATION Spec
INVARIANT MigrationNeedsStoppedServices
