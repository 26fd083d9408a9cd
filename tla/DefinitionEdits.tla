--------------------------- MODULE DefinitionEdits ---------------------------
(* The options a definition of a connection is made of, and what an edit    *)
(* makes of them: what `replace` and `reconcile` have to tell apart.        *)
CONSTANTS
    Omitted,       \* an option that is not given
    Others(_)      \* the edits of options that are looked at

VARIABLE options

Definitions == INSTANCE ConnectionDefinition WITH Undefined <- Omitted

-----------------------------------------------------------------------------
(* ConnectionDefinition: the auth provider is not overridden, principals do *)
(* not share a cache, capabilities are those that are served; definitions   *)
(* that differ in what they do differ in their fingerprints.                *)
WellDefined ==
    options # Omitted =>
        /\ Definitions!WellDefined(options)
        /\ \A other \in Others(options) : Definitions!SameShape(options, other)
=============================================================================
