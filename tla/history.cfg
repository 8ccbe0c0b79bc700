SPECIFICATION Spec
CONSTANTS
  Histories = {"commits", "document", "turn"}
  Changes <- MCChanges
  Shas <- MCShas
  Epochs <- MCEpochs
  MaxCount = 2
  FirstDocs <- MCFirstDocs
  Words <- MCWords
  MaxEdits = 3
  Sentences <- MCSentences
  MaxBindGap = 2
  MaxFilesPerCommit = 2
  SeqGap = 10
INVARIANTS FilesComeFromTheirCommit LastPartGovernsItsCommit LastWordDecides NothingGovernsUnsaid TierFollowsTheSum
CHECK_DEADLOCK FALSE
