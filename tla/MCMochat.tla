------------------------------ MODULE MCMochat ------------------------------
(* Instance of Mochat for TLC: a session the configuration names, one that *)
(* has to be discovered, a panel whose messages wait, are taken at once if *)
(* they mention the bot, or whatever they say, and no socket at all.       *)
EXTENDS Mochat

CONSTANTS s, p

Named(ss, ps, reply) ==
    [listed |-> ss, panels |-> ps, auto |-> FALSE, sio |-> TRUE, inbox |-> FALSE, reply |-> reply]

Discovers == [Named({}, {}, "all") EXCEPT !.auto = TRUE, !.inbox = TRUE]

MCSetups ==
    {Named({s}, {}, "all"), Named({}, {p}, "delay"), Named({}, {p}, "mention"),
     Named({}, {p}, "all"), [Named({s}, {p}, "delay") EXCEPT !.sio = FALSE], Discovers}

MCMaxFaults == [c \in MCSetups |-> IF c = Discovers THEN 0 ELSE 2]

=============================================================================
