----------------------------- MODULE MCChatView -----------------------------
(* A chat with room for three jobs and one background command.              *)
EXTENDS ChatView, TLC

Jobs == [turn |-> 3, command |-> 1]
=============================================================================
