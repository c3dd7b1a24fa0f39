SPECIFICATION PipelineSpec
CONSTANTS
    Pipelines <- MCPipelines
    Payloads <- MCPayloads
    WordOrder <- MCWordOrder
    Answers <- MCAnswers
    Matches <- MCMatches
    Fields <- MCFields
    Numbers <- MCNumbers
    Finds <- MCFinds
    FloatText <- MCFloatText
    IntText <- MCIntText
    IntTexts <- MCIntTexts
    Bools <- MCBools
    TimeTexts <- MCTimeTexts
    RFC3339 <- MCRFC3339
    Rewritten <- MCRewritten
    Joined <- MCJoined
    Verdict <- Evaluate
INVARIANTS PipelineTypeOK MovesKeepValues UnflattenUndoesFlatten MarksStay EveryItemGetsItsEvent ConditionsDecide
CHECK_DEADLOCK FALSE
