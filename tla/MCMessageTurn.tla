----------------------------- MODULE MCMessageTurn -----------------------------
(* Messages for TLC: one of each kind the engine tells apart.               *)
EXTENDS MessageTurn

Conversation ==
    {Plain,
     [Plain EXCEPT !.words = "restart"],
     [Plain EXCEPT !.words = "step"],
     [Plain EXCEPT !.words = "constraint", !.explicit = TRUE],
     [Plain EXCEPT !.document = TRUE],
     [Plain EXCEPT !.files = TRUE],
     [Plain EXCEPT !.reply = "confirm_overwrite"],
     [Plain EXCEPT !.reply = "cancel"],
     [Plain EXCEPT !.inquiry = "quick_answer"],
     [Plain EXCEPT !.inquiry = "research_flow"]}
=============================================================================
