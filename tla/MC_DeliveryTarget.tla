------------------------- MODULE MC_DeliveryTarget -------------------------
(* Two deliverable channels (telegram, discord) and one internal channel  *)
(* (webchat); two recipients, telegram accepting both and discord only    *)
(* r1.  The recipient/thread configuration has one thread and no          *)
(* accounts; the account configuration has one account, bound to the     *)
(* agent on telegram only, and no threads.                                *)
EXTENDS DeliveryTarget, TLC

CONSTANTS telegram, discord, webchat, r1, r2, t1, a1

MCBindings == (telegram :> <<a1>>) @@ (discord :> <<>>)
MCNoBindings == (telegram :> <<>>) @@ (discord :> <<>>)
MCAccepts == (telegram :> {r1, r2}) @@ (discord :> {r1})
=============================================================================
