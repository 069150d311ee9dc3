---------------------------- MODULE MCConversation ----------------------------
(* The instance of Conversation that MCConversation.cfg completes.          *)
EXTENDS Conversation

MCTabs == {"c1"}
MCTexts == {"plan", "fence"}
MCTyped == {"plan"}
MCParted == {"plan"}
MCNameless == {"fence"}
MCNames == {"n1"}
=============================================================================
