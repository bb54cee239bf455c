------------------------------- MODULE MCWrap -------------------------------
(***************************************************************************)
(* All texts of at most MaxItems items with words that are shorter than a  *)
(* line, just as long as one, and longer.                                  *)
(***************************************************************************)
EXTENDS Wrap

CONSTANTS MaxItems, Lengths

Items == Lengths \cup {Blank, Newline}

ShortTexts ==
  {t \in UNION {[1 .. n -> Items] : n \in 0 .. MaxItems} :
     \A i \in 1 .. Len(t) - 1 : ~(IsWord(t[i]) /\ IsWord(t[i + 1]))}
=============================================================================
