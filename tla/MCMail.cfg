\* Letters with an item and zeny between two characters, one fault.
SPECIFICATION FairSpec
CONSTANTS
    Chars = {c1, c2}
    Writers = {c1}
    Nobody = nobody
    Names = {c2, nobody}
    First = c1
    Items = {sword}
    Coins = {zeny}
    Start <- MCStart
    MAIL_MAX_ITEM = 1
    MAIL_MAX_INBOX = 1
    mail_return_days = 1
    mail_delete_days = 1
    MailIds = {1, 2}
    MaxQueue = 1
    MaxFaults = 1
INVARIANTS
    TypeOK
    OneCustody
PROPERTIES
    CustodyKept
    LettersShown
