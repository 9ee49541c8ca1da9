SPECIFICATION FairSpec
CONSTANTS Configs <- MCConfigs
INVARIANTS TypeOK ActiveImpliesServiceable NeverRunningAndPaused
 
PROPERTIES NeverStuckWaiting
