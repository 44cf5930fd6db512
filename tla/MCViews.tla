------------------------------- MODULE MCViews -------------------------------
(***************************************************************************)
(* Two knowledge bases and three conversations, in both builds.             *)
(***************************************************************************)
EXTENDS WebViews

CONSTANTS a, b

MCKBs == <<a, b>>

=============================================================================
