CONSTANTS
    discord = discord
    feishu = feishu
    x = x
    kick = kick
    ping = ping
    s1 = s1
    Channels <- MCChannels
    Discord = discord
    Actions <- MCActions
    ModerationActions = {kick}
    Senders = {s1}
    Blank = Blank
    None = None
    NoCheck = NoCheck

INIT Init
NEXT Next

INVARIANTS
    TypeOK
    DispatchToFirstCapable
