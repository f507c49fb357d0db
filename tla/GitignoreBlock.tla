---------------------------- MODULE GitignoreBlock ----------------------------
(***************************************************************************)
(* The block of .gitignore that snadcat init manages.  A file is its       *)
(* sequence of lines (a final newline adds none), or missing.              *)
(***************************************************************************)
EXTENDS Lists

StartMarker == "# Snadcat"
EndMarker   == "# /Snadcat"
Block       == <<StartMarker, ".devcontainer/*", EndMarker>>

Text(lines)    == [lines |-> lines]
NoFile         == [file |-> "missing"]
LinesOf(file)  == IF file = NoFile THEN << >> ELSE file.lines

HasBlock(file) == Contains(LinesOf(file), StartMarker)

(* A block that is there is left alone, edited or not; a blank line sets   *)
(* a new one off from the rules of the user.                               *)
Update(file) ==
  LET lines == LinesOf(file)
  IN  IF HasBlock(file) THEN file
      ELSE Text((IF lines = << >> THEN << >> ELSE Append(lines, "")) \o Block)

(* Mutant: the blank line before a block stays.                            *)
StripKeepsBlank(acc, line) ==
  IF acc.inside THEN [acc EXCEPT !.inside = line # EndMarker]
  ELSE IF line # StartMarker THEN [acc EXCEPT !.out = Append(@, line)]
  ELSE [acc EXCEPT !.inside = TRUE]

(* Mutant: whatever line precedes a block goes with it.                    *)
StripTakesLine(acc, line) ==
  IF acc.inside THEN [acc EXCEPT !.inside = line # EndMarker]
  ELSE IF line # StartMarker THEN [acc EXCEPT !.out = Append(@, line)]
  ELSE [out |-> IF acc.out # << >> THEN Front(acc.out) ELSE acc.out, inside |-> TRUE]

(* What has been kept so far, and whether a block is being skipped.  Each  *)
(* start marker takes with it one blank line kept before it.               *)
Strip(acc, line) ==
  IF acc.inside THEN [acc EXCEPT !.inside = line # EndMarker]
  ELSE IF line # StartMarker THEN [acc EXCEPT !.out = Append(@, line)]
  ELSE [out    |-> IF acc.out # << >> /\ Last(acc.out) = "" THEN Front(acc.out) ELSE acc.out,
        inside |-> TRUE]

(* Every block goes, an unclosed one to the end of the file; a file that   *)
(* has nothing else is removed.                                            *)
RemoveBlock(file) ==
  LET lines == LinesOf(file)
      read[k \in 0..Len(lines)] ==
        IF k = 0 THEN [out |-> << >>, inside |-> FALSE] ELSE Strip(read[k - 1], lines[k])
      out == read[Len(lines)].out
  IN  IF ~HasBlock(file) THEN file
      ELSE IF out = << >> THEN NoFile ELSE Text(out)

(***************************************************************************)
(* For the properties                                                      *)
(***************************************************************************)

(* Line i belongs to a block: a start marker at or before it is not closed *)
(* before it.                                                              *)
InBlock(lines, i) ==
  \E s \in 1..i :
    lines[s] = StartMarker /\ \A k \in s..(i - 1) : lines[k] # EndMarker

(* The user's rules, in order; blank lines separate and do not matter.     *)
UserRules(file) ==
  LET lines == LinesOf(file)
  IN  Without([i \in DOMAIN lines |-> IF InBlock(lines, i) THEN "" ELSE lines[i]], {""})
=============================================================================
