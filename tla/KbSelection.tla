----------------------------- MODULE KbSelection -----------------------------
(***************************************************************************)
(* The web client's choice of a knowledge base: KBProvider, which loads the *)
(* list when the user is authenticated and selects its first item, and      *)
(* KBSelector, the menu.  The provider outlives the pages.                  *)
(***************************************************************************)
EXTENDS Naturals, Sequences, FiniteSets, SequencesExt

CONSTANTS
    KBs,          \* the knowledge bases, in the order of the API's answer
    EffectRuns,   \* how often a build runs the effects of a mount: 1, or 2
                  \* in the development build (StrictMode)
    None

ASSUME SelectionAssumption ==
    /\ KBs \in Seq(Range(KBs)) \ {<<>>}
    /\ None \notin Range(KBs)
    /\ EffectRuns \subseteq {1, 2}

VARIABLES
    runs,       \* of the build that runs
    starting,   \* requests for the list that are under way
    loading,    \* isLoading: the menu is hidden
    listed,     \* the menu has its items
    selected,   \* selectedKB
    choice      \* history: what the user picked last

selectionVars == <<runs, starting, loading, listed, selected, choice>>

SelectionInit ==
    /\ runs \in EffectRuns
    /\ starting = runs
    /\ loading = TRUE
    /\ listed = FALSE
    /\ selected = None
    /\ choice = None

\* The answer looks at the selection of the render that asked: none, for the
\* first render and for both runs of its effect.
ListAnswered ==
    /\ starting > 0
    /\ starting' = starting - 1
    /\ loading' = FALSE
    /\ listed' = TRUE
    /\ selected' = Head(KBs)
    /\ UNCHANGED <<runs, choice>>

ListFails ==
    /\ starting > 0
    /\ starting' = starting - 1
    /\ loading' = FALSE
    /\ UNCHANGED <<runs, listed, selected, choice>>

\* The menu is hidden while the list is loading, and has no items before.
Pick(kb) ==
    /\ ~loading /\ listed
    /\ selected' = kb
    /\ choice' = kb
    /\ UNCHANGED <<runs, starting, loading, listed>>

\* Mutant: every page has a provider of its own.
KeepSelection_Remounted ==
    /\ starting' = runs
    /\ loading' = TRUE
    /\ listed' = FALSE
    /\ selected' = None
    /\ UNCHANGED <<runs, choice>>

\* Going to another page leaves the provider mounted.
KeepSelection == UNCHANGED selectionVars

=============================================================================
