CONSTANTS
    Account = {1, 2, 3, 4}
    KnownAccounts = {1, 2, 3}
    KeptLinks <- MCKeptLinks
    LaterLinks <- MCLaterLinks
    ArtistLinks <- MCArtistLinks
    Decisions = {"confirmed", "rejected"}
    Watched <- MCWatched
    MaxDecisions = 4
    MaxLooks = 1
    NoView = NoView
    Post = {1, 2, 3}
    KnownPosts = {1, 2}
    PicturedPosts = {2}
    Scenarios <- MCScenarios
    Rulings = {"confirmed", "rejected"}
    Transitions = {"inferred"}
    MaxReviews = 2
    MaxRulings = 1
SPECIFICATION Spec
CHECK_DEADLOCK FALSE
INVARIANTS TypesOK IdentityIsDecided ConclusionsAreGrounded
PROPERTIES OnlyDecisionsMove
