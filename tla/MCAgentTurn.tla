---------------------------- MODULE MCAgentTurn ----------------------------
(***************************************************************************)
(* Two chats.  MCPosts and MCCalls, for two turns: the first chat gets     *)
(* everything that can come over the bus except a command, and direct      *)
(* calls; the second a message and a command, enough to interleave with    *)
(* the first and to be routed to its session.  MCQueue, for three turns:   *)
(* one runs, one waits for the lock behind it, and the third stops both or *)
(* is a message of the other chat.                                         *)
(***************************************************************************)
EXTENDS AgentTurn

CONSTANTS a, b

MCChats == {a, b}
MCPosts == {<<a, "ask">>, <<a, "stop">>, <<a, "note">>, <<b, "ask">>, <<b, "command">>}
MCCalls == {<<a, a>>}
MCQueue == {<<a, "ask">>, <<a, "stop">>, <<b, "ask">>}
=============================================================================
