\* Every input whole and damaged in every place, in reads of every split; up to two
\* TLS connections in every configuration of MCPlans.
SPECIFICATION ProtocolsSpec
CONSTANTS
    Requests <- MCRequests
    Replies <- MCReplies
    Messages <- MCMessages
    Commands <- MCCommands
    Damages <- MCDamages
    Tails <- MCTails
    MaxTargets = 3
    Ids <- MCIds
    MAX_REGISTERED_FDS = 8
    Conns = {1, 2}
    Plans <- MCPlans
INVARIANTS ParsersFaithful TlsFaithful
CHECK_DEADLOCK FALSE
