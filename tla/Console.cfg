SPECIFICATION ConsoleSpec
CONSTANTS
    MaxMinted = 2
    MaxAttempt = 1
    MaxNotice = 1
    MaxMishap = 1
    Session = {1, 2}
    Incoming = {1, 3}
    Outgoing = {2}
    MaxStarted <- MCMaxStarted
INVARIANTS
    
    
    ConversationShowsItAll
    
CHECK_DEADLOCK FALSE
