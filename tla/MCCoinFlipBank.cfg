\* Two sessions of up to three tokens each over five tokens in all: stakes can
\* outrun the owner's cover, a stake of three doubles past MaxU256, the reserve
\* can be non-empty, and bet 2 is a felt that no outcome equals.
SPECIFICATION Spec
CONSTANTS
    owner = owner
    alice = alice
    bob = bob
    Users <- MCUsers
    Owner = owner
    Bank = Bank
    Nobody = Nobody
    NumSessions = 2
    MaxU256 = 5
    Amounts = {0, 1, 2, 3}
    Seeds = {0, 1}
    Bets = {0, 2}
    Funds <- MCFunds
    Outcome <- MCOutcome
INVARIANTS
    TypeOK
    BalanceIsHeldPlusReserve
    MatchedGamesPayable
PROPERTIES
    GamesAdvanceWithFixedTerms
    SeparatePots
