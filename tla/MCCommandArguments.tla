------------------------- MODULE MCCommandArguments -------------------------
(***************************************************************************)
(* Every command line of a bounded length.                                 *)
(***************************************************************************)
EXTENDS CommandArguments

CONSTANTS
  MaxPolicyArguments, \* bound: the longest request, and two more words
  MaxLegacyArguments  \* bound: two pairs, so that an option can be repeated

MCPolicyLines == UNION {[1 .. n -> PolicyArgument] : n \in 0 .. MaxPolicyArguments}
MCLegacyLines == UNION {[1 .. n -> LegacyArgument] : n \in 0 .. MaxLegacyArguments}
=============================================================================
