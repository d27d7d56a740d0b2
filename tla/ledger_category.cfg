SPECIFICATION Spec
CONSTANTS
    None = None
    Shop = Shop
    checking = checking
    savings = savings
    brokerage = brokerage
    b1 = b1
    b2 = b2
    Accounts <- MCAccounts
    OnBudget <- MCOnBudget
    Amounts <- MCAmounts
    Parts <- MCParts
    BankIds <- MCBankIds
    Books <- MCBooks
INVARIANT CategoryPlacement
CHECK_DEADLOCK FALSE
