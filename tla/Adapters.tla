------------------------------- MODULE Adapters -------------------------------
(***************************************************************************)
(* The chat channels: one object of any of them, with the rules of its     *)
(* platform.  A behaviour is that of one channel; the properties are of    *)
(* all of them, and are stated in Adapter.                                 *)
(***************************************************************************)
EXTENDS Adapter

TG == INSTANCE Telegram
DC == INSTANCE Discord
MX == INSTANCE Matrix
FS == INSTANCE Feishu
SL == INSTANCE Slack
DT == INSTANCE DingTalk
WC == INSTANCE Wecom
QQ == INSTANCE Qq
WA == INSTANCE WhatsApp
EM == INSTANCE Email

Names == {"telegram", "discord", "matrix", "feishu", "slack", "dingtalk", "wecom", "qq",
          "whatsapp", "email"}

Steps ==
    \/ adapter = "telegram" /\ TG!Next
    \/ adapter = "discord" /\ DC!Next
    \/ adapter = "matrix" /\ MX!Next
    \/ adapter = "feishu" /\ FS!Next
    \/ adapter = "slack" /\ SL!Next
    \/ adapter = "dingtalk" /\ DT!Next
    \/ adapter = "wecom" /\ WC!Next
    \/ adapter = "qq" /\ QQ!Next
    \/ adapter = "whatsapp" /\ WA!Next
    \/ adapter = "email" /\ EM!Next

\* What a channel does on its own with a message it took.
Settling ==
    \/ adapter = "telegram" /\ TG!Handlers
    \/ adapter = "discord" /\ DC!Handlers
    \/ adapter = "matrix" /\ MX!Handlers
    \/ adapter = "feishu" /\ FS!Handlers
    \/ adapter = "slack" /\ SL!Handlers
    \/ adapter = "dingtalk" /\ DT!Handlers
    \/ adapter = "wecom" /\ WC!Handlers
    \/ adapter = "whatsapp" /\ WA!Handlers
    \/ adapter = "email" /\ EM!Handlers

AnyInit == adapter \in Names /\ Init

Spec == AnyInit /\ [][Steps]_vars

\* A download or a call ends, with or without a result, and a timer fires.
FairSpec == Spec /\ WF_vars(Settling)
=============================================================================
