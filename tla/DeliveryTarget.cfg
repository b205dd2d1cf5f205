CONSTANTS
    telegram = telegram
    discord = discord
    webchat = webchat
    r1 = r1
    r2 = r2
    t1 = t1
    a1 = a1
    Channels = {telegram, discord}
    InternalChannels = {webchat}
    DefaultChatChannel = telegram
    Recipients = {r1, r2}
    Threads = {t1}
    Accounts = {a1}
    Bindings <- MCBindings
    Accepts <- MCAccepts
    MainKey = MainKey
    ThreadKey = ThreadKey
    Last = Last
    SelectionFails = SelectionFails
    None = None

INIT Init
NEXT Next

INVARIANTS
    TypeOK
    NoThreadLeak
    TargetProvenance
    ChannelPrecedence
    AccountBelongsToChannel
