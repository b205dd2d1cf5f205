------------------------- MODULE MC_ActionDispatch -------------------------
(* Three channels, one of them discord; one moderation action (kick) and  *)
(* one ordinary action (ping); one non-blank requester identity.          *)
EXTENDS ActionDispatch

CONSTANTS discord, feishu, x, kick, ping, s1

MCChannels == {discord, feishu, x}
MCActions == {kick, ping}
=============================================================================
