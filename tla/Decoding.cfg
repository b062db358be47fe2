CONSTANTS
  s1 = s1
  s2 = s2
  word = word
  Seqs = {s1, s2}
  Eos = eos
  Token = {eos, word}
  Filler = filler
  PromptLen <- MCPromptLen
  PaddedLen = 2
  MaxNewTokens = 3
  D = 2
  Configs <- MCConfigs
  Models <- MCModels
  Nets <- MCNets
  InputTokens <- MCInputTokens
  Builds <- MCBuilds
SPECIFICATION MCSpec
INVARIANTS CachesInStep StopsInTime CachesHaveRoom WeightsLoaded ForwardExact OperatorsCompute
PROPERTIES GreedySpec EveryTextEnds
CHECK_DEADLOCK FALSE
