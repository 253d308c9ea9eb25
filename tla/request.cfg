SPECIFICATION Spec
CONSTANTS
    none = none  fallback = fallback
    None = none
    FALLBACK_SIGNATURE = fallback
    Calls = {"c1", "c2", "c3", "c4"}
    Images = {"i1", "i2", "i3", "i4"}
    Sigs = {"s1", "s2", "s3", "s4"}
    MaxInt = 100000
    Sessions <- AllSessions
    Schema <- ToolSchema
    Sanitized <- ToolParameters
    Text <- NthText  Sig <- NthSig  CallId <- NthCall  Picture <- NthPicture
    Accounts = 2
    retry_max_attempts = 3
    retry_status_codes = {429, 500, 503}
    MODEL_CAPACITY_EXHAUSTED_MAX_RETRIES = 2
    MaxTurns = 3
    MaxParts = 4
    MaxFaults = 1
INVARIANTS TypeOK ThoughtsSignedByTheirs SignaturesComeBack ResponsesFollowCalls BudgetFits SchemaAccepted SchemaSettles RefusedTokenRests SendsBounded
CHECK_DEADLOCK FALSE
