--------------------------------- MODULE Screens ---------------------------------
(***************************************************************************)
(* What users look at: Listings and Conversation side by side.  They share no *)
(* state, and what is not being looked at changes nothing for the one who     *)
(* looks: a behaviour is about the lists and figures at each moment, about    *)
(* going through the pages of a list, or about a conversation.               *)
(***************************************************************************)
EXTENDS Listings, Conversation

VARIABLE watching       \* what the behaviour is about

screenVars == <<listVars, convVars, watching>>

ScreenInit == /\ ListInit /\ ConvInit /\ watching \in {"lists", "pages", "messages"}
              /\ watching # "lists" => row[1] \in Rows
ScreenNext == /\ UNCHANGED watching
              /\ \/ watching = "lists" /\ ListNext /\ pager' = pager /\ UNCHANGED convVars
                 \/ watching = "pages" /\ ListNext /\ UNCHANGED convVars
                 \/ watching = "messages" /\ ConvNext /\ UNCHANGED listVars
ScreenSpec == ScreenInit /\ [][ScreenNext]_screenVars
=============================================================================
