\* Two documents of two chunks a version, one of them republished or archived
\* between the searches; the context holds fewer blocks than the searches list.
SPECIFICATION Spec
CONSTANTS
    None = None
    Foreign = Foreign
    Documents = {1, 2}
    MaxPublished = 2
    Parts = {1, 2}
    RankConstant = 60
    SearchLimit = 2
    FusedLimit = 4
    FinalLimit = 4
    Tokens <- MCTokens
    Within <- MCWithin
    MaxTokens = 5
    MaxBlocks = 3
    MaxBlocksPerDocument = 2
    Received <- MCReceived
    Classified <- MCClassified
    MaxChanges = 1
INVARIANTS TypeOK ShownIsApproved EvidenceIsRecent EscalationWins StagesAgree FusionRespectsAgreement ContextIsExplained
CHECK_DEADLOCK FALSE
