\* Three tiers, three confidence levels: which tiers are asked and whose answer wins.
CONSTANTS
    Kinds = {"pii", "toxicity", "category", "jailbreak", "language", "satisfaction", "tokenizer", "embedding", "preference"}
    MaxTiers = 3
    Labels = {a, b}
    TopLevel = 2
    NaNs = FALSE
SPECIFICATION Spec
SYMMETRY Symmetry
INVARIANTS
    AsksWhatIsNeeded
    ReturnsBest
    ProvenanceTrue
    FailsOnlyWithAll
    MergesUnion
CHECK_DEADLOCK FALSE
