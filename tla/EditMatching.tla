---------------------------- MODULE EditMatching ----------------------------
(***************************************************************************)
(* apply_edit (edits.py) and edit_file (tools.py): whether and where the   *)
(* anchor that the model sent matches the file, what the file becomes, and *)
(* what is said of an anchor that does not match.                          *)
(*                                                                         *)
(* A text is a sequence of symbols: "nl" is a line break, "sp" whitespace  *)
(* within a line, and every other symbol is a piece of code.  Of the error *)
(* messages the model keeps which one it is and the numbers in it; the     *)
(* lines of code they quote, stripped and cut off, are left out.           *)
(***************************************************************************)
EXTENDS Integers, Sequences, FiniteSets, FiniteSetsExt, SequencesExt

CONSTANTS
  Symbols,      \* what texts are made of
  Originals,    \* the files
  Anchors,      \* what the model sends as old_string
  News,         \* and as new_string, besides the anchor itself
  MaxReported   \* _MAX_REPORTED_LINES

(* They are all texts, but for the number.                                 *)
TextShape ==
  /\ {"nl", "sp"} \subseteq Symbols
  /\ MaxReported \in Nat
  /\ Originals \cup Anchors \cup News \subseteq Seq(Symbols)

ASSUME Texts == TextShape

VARIABLES
  content,  \* the file's text
  edit,     \* the latest edit_file call
  before,   \* the text that it was applied to
  outcome,  \* what apply_edit makes of it, in the preview
  told      \* what edit_file answers

editVars == <<content, edit, before, outcome, told>>

-----------------------------------------------------------------------------
(* str methods.                                                            *)

MatchAt(text, needle, i) ==
  /\ i + Len(needle) - 1 <= Len(text)
  /\ SubSeq(text, i, i + Len(needle) - 1) = needle

(* Every place at which the needle occurs, overlapping ones included.      *)
Occurrences(text, needle) == {i \in DOMAIN text : MatchAt(text, needle, i)}

(* str.count: the occurrences that a scan from the left meets, which goes  *)
(* on behind each one.                                                     *)
Scan(text, needle) ==
  LET scan[i \in 1..(Len(text) + 1)] ==
        LET ahead == {j \in Occurrences(text, needle) : j >= i}
        IN  IF ahead = {} THEN {} ELSE {Min(ahead)} \cup scan[Min(ahead) + Len(needle)]
  IN  scan[1]

(* Mutant: goes on inside the text that it has just replaced.              *)
Replace_Rescans(text, old, new, places) ==
  LET rest[i \in 1..(Len(text) + 1)] ==
        CASE i > Len(text) -> <<>>
          [] i \in places -> new \o rest[i + 1]
          [] OTHER -> <<text[i]>> \o rest[i + 1]
  IN  rest[1]

(* str.replace at the given, disjoint occurrences.                         *)
Replace(text, old, new, places) ==
  LET rest[i \in 1..(Len(text) + 1)] ==
        CASE i > Len(text) -> <<>>
          [] i \in places -> new \o rest[i + Len(old)]
          [] OTHER -> <<text[i]>> \o rest[i + 1]
  IN  rest[1]

(* The members of a set of numbers, by how many are smaller.               *)
Ascending(S) ==
  [k \in 1..Cardinality(S) |-> CHOOSE x \in S : Cardinality({y \in S : y < x}) = k - 1]

Lines(text) ==
  LET breaks == {i \in DOMAIN text : text[i] = "nl"}
      ends == Ascending({0, Len(text) + 1} \cup breaks)
  IN  [k \in 1..(Len(ends) - 1) |-> SubSeq(text, ends[k] + 1, ends[k + 1] - 1)]

Strip(text) ==
  LET solid == {i \in DOMAIN text : text[i] \notin {"sp", "nl"}}
  IN  IF solid = {} THEN <<>> ELSE SubSeq(text, Min(solid), Max(solid))

(* Every run of whitespace becomes one space.                              *)
squash(text) ==
  LET core == Strip(text)
      space(i) == core[i] \in {"sp", "nl"}
      kept == Ascending({i \in DOMAIN core : ~space(i) \/ ~space(i - 1)})
  IN  [k \in DOMAIN kept |-> IF space(kept[k]) THEN "sp" ELSE core[kept[k]]]

-----------------------------------------------------------------------------
(* The hints.  Each is a set: of one hint, or of none.                     *)

(* The first line of the anchor that is not blank, or 0.                   *)
Offset(wanted) == Max({0} \cup {k \in DOMAIN wanted :
                                  /\ Strip(wanted[k]) # <<>>
                                  /\ \A j \in 1..(k - 1) : Strip(wanted[j]) = <<>>})

_line_numbers_of(text, needle) ==
  LET at == Ascending(Occurrences(text, needle))
  IN  [k \in DOMAIN at |-> Cardinality({i \in 1..(at[k] - 1) : text[i] = "nl"}) + 1]

(* The file's lines that the anchor's first line could be: exactly, or     *)
(* else but for its indentation.                                           *)
Starts(lines, anchor) ==
  LET exact == {k \in DOMAIN lines : lines[k] = anchor}
  IN  IF exact # {} THEN exact ELSE {k \in DOMAIN lines : Strip(lines[k]) = Strip(anchor)}

(* How many lines from start on are those of the anchor.                   *)
MatchedFrom(lines, wanted, offset, start) ==
  Max({m \in 0..Len(wanted) :
         /\ offset + m - 1 <= Len(wanted) /\ start + m - 1 <= Len(lines)
         /\ \A j \in 0..(m - 1) : lines[start + j] = wanted[offset + j]})

(* The first of the alignments that match the most lines.                  *)
BestStart(lines, wanted, offset, starts) ==
  Min({s \in starts : \A t \in starts :
         MatchedFrom(lines, wanted, offset, t) <= MatchedFrom(lines, wanted, offset, s)})

(* The lines on both sides at which an alignment differs, unless the       *)
(* anchor ends before.                                                     *)
DivergenceAt(lines, wanted, offset, start, matched) ==
  LET sent == offset + matched
      line == start + matched
  IN  IF sent > Len(wanted) THEN {}
      ELSE {[name |-> "divergence", start |-> start, matched |-> matched,
             sent |-> sent, line |-> line, at_end |-> line > Len(lines),
             indentation |-> line <= Len(lines) /\ Strip(wanted[sent]) = Strip(lines[line])]}

DivergenceFrom(lines, wanted, offset, start) ==
  DivergenceAt(lines, wanted, offset, start, MatchedFrom(lines, wanted, offset, start))

DivergenceAmong(lines, wanted, offset, starts) ==
  IF starts = {} THEN {}
  ELSE DivergenceFrom(lines, wanted, offset, BestStart(lines, wanted, offset, starts))

_divergence_hint(lines, wanted, offset) ==
  IF offset = 0 THEN {}
  ELSE DivergenceAmong(lines, wanted, offset, Starts(lines, wanted[offset]))

_whitespace_insensitive_hint(text, old) ==
  IF squash(old) # <<>> /\ Occurrences(squash(text), squash(old)) # {}
  THEN {[name |-> "whitespace"]}
  ELSE {}

_absent_anchor_hint(lines, wanted, offset) ==
  IF offset # 0 /\ \A k \in DOMAIN lines : Strip(lines[k]) # Strip(wanted[offset])
  THEN {[name |-> "absent"]}
  ELSE {}

(* Python's or.                                                            *)
FirstOf(hints) == hints[Min({k \in DOMAIN hints : hints[k] # {}})]

(* Mutant: the vaguest hint first.                                         *)
Hints_AbsentFirst(text, old, lines, wanted, offset) ==
  FirstOf(<<_absent_anchor_hint(lines, wanted, offset),
            _divergence_hint(lines, wanted, offset),
            {[name |-> "reread"]}>>)

(* The most specific hint that there is.                                   *)
Hints(text, old, lines, wanted, offset) ==
  FirstOf(<<_divergence_hint(lines, wanted, offset),
            _whitespace_insensitive_hint(text, old),
            _absent_anchor_hint(lines, wanted, offset),
            {[name |-> "reread"]}>>)

Hint(text, old) == Hints(text, old, Lines(text), Lines(old), Offset(Lines(old)))

-----------------------------------------------------------------------------
(* What apply_edit returns or raises.                                      *)

Applied(text) == [kind |-> "applied", text |-> text, lines |-> <<>>, hint |-> {}]

Raised(kind, lines, hint) == [kind |-> kind, text |-> <<>>, lines |-> lines, hint |-> hint]

(* The message shows how often the anchor was counted, and the lines of    *)
(* its first occurrences.                                                  *)
Ambiguous(text, old) ==
  LET all == _line_numbers_of(text, old)
  IN  [kind |-> "ambiguous", text |-> <<>>, hint |-> {},
       count |-> Cardinality(Scan(text, old)),
       lines |-> IF Len(all) <= MaxReported THEN all ELSE SubSeq(all, 1, MaxReported),
       more |-> Len(all) > MaxReported]

apply_edit(text, old, new, replace_all) ==
  LET places == Scan(text, old)
  IN  CASE old = <<>> -> Raised("empty", <<>>, {})
        [] old # <<>> /\ old = new ->
             Raised(IF places # {} THEN "already_there" ELSE "identical", <<>>, {})
        [] old \notin {<<>>, new} /\ places = {} -> Raised("missing", <<>>, Hint(text, old))
        [] old \notin {<<>>, new} /\ Cardinality(places) > 1 /\ ~replace_all -> Ambiguous(text, old)
        [] OTHER -> Applied(Replace(text, old, new, IF replace_all THEN places ELSE {Min(places)}))

(* edit_file looks for the anchor itself before it calls apply_edit, so    *)
(* that what apply_edit says of a missing one is not said to the model.    *)
_edit_file(text, old, new, replace_all) ==
  CASE old = <<>> -> Raised("required", <<>>, {})
    [] old # <<>> /\ Occurrences(text, old) = {} -> Raised("not_found", <<>>, {})
    [] OTHER -> apply_edit(text, old, new, replace_all)

NoEdit == [old |-> <<>>, new |-> <<>>, replace_all |-> FALSE]

EditInit ==
  /\ content \in Originals
  /\ before = content
  /\ edit = NoEdit
  /\ outcome = Raised("none", <<>>, {})
  /\ told = outcome

(* One edit_file call on a file that was read: the preview for the user,   *)
(* who approves, and the call.  Nobody else writes the file.               *)
Edit(old, new, replace_all) ==
  /\ edit' = [old |-> old, new |-> new, replace_all |-> replace_all]
  /\ before' = content
  /\ outcome' = apply_edit(content, old, new, replace_all)
  /\ told' = _edit_file(content, old, new, replace_all)
  /\ content' = IF told'.kind = "applied" THEN told'.text ELSE content

(* The bound is one call for every file.                                   *)
EditNext ==
  /\ outcome.kind = "none"
  /\ \E old \in Anchors, replace_all \in BOOLEAN :
       \E new \in News \cup {old} : Edit(old, new, replace_all)

EditSpec == EditInit /\ [][EditNext]_editVars

-----------------------------------------------------------------------------
Places == Occurrences(before, edit.old)

(* A text without its whitespace.                                          *)
Solid(text) ==
  LET kept == Ascending({i \in DOMAIN text : text[i] \notin {"sp", "nl"}})
  IN  [k \in DOMAIN kept |-> text[kept[k]]]

(* The reference for an edit that is applied: the file is its old self     *)
(* with the anchor replaced at places that do not overlap, of which there  *)
(* is one without replace_all, and the first.  No occurrence is left that  *)
(* does not overlap one of them: without replace_all the anchor is unique, *)
(* as edits.py has it, but for occurrences that begin inside the first     *)
(* one, which str.count does not see.  An edit lands exactly when it has a *)
(* preview, and as that showed; any other leaves the file alone.           *)
ReplacesTheAnchor ==
  LET k == Len(edit.old)
      pieces(P) == [i \in DOMAIN before |->
                      CASE i \in P -> edit.new
                        [] i \notin P /\ (\E p \in P : p < i /\ i < p + k) -> <<>>
                        [] OTHER -> <<before[i]>>]
  IN  IF "applied" \in {told.kind, outcome.kind}
      THEN /\ told = outcome
           /\ \E P \in SUBSET Places :
                /\ P # {} /\ \A p, q \in P : p < q => p + k <= q
                /\ content = FlattenSeq(pieces(P))
                /\ edit.replace_all \/ P = {Min(Places)}
                /\ \A i \in Places : \E p \in P : p <= i /\ i < p + k
      ELSE content = before

(* What is said of an edit is so.  An anchor that is in the file is never  *)
(* called missing.  An ambiguous one occurs as often as is said, or more   *)
(* often if it overlaps itself; every line that is named is one on which   *)
(* it begins, and the list breaks off only at its limit, with dots.  A     *)
(* miss comes with one hint.  A divergence names the first line at which   *)
(* the best alignment of the anchor differs, and says "only in             *)
(* indentation" of such lines only; a block is said to be absent only when *)
(* it is not there reflowed either; whitespace is blamed only for texts    *)
(* that are equal without it.                                              *)
HintsAreHonest ==
  /\ "missing" = outcome.kind \/ "not_found" = told.kind => Places = {}
  /\ outcome.kind = "ambiguous" =>
       /\ outcome.count > 1 /\ outcome.count <= Cardinality(Places)
       /\ outcome.more <=> Cardinality(Places) > MaxReported
       /\ Len(outcome.lines) = (IF outcome.more THEN MaxReported ELSE Cardinality(Places))
       /\ \A line \in ToSet(outcome.lines) :
            \E i \in Places : line = Len(Lines(SubSeq(before, 1, i - 1)))
  /\ Cardinality(outcome.hint) = (IF outcome.kind = "missing" THEN 1 ELSE 0)
  /\ \A h \in outcome.hint :
       LET lines == Lines(before)
           wanted == Lines(edit.old)
       IN  CASE h.name = "divergence" ->
                  /\ \A j \in 0..(h.matched - 1) : lines[h.start + j] = wanted[h.sent - h.matched + j]
                  /\ h.at_end \/ lines[h.line] # wanted[h.sent]
                  /\ h.indentation => Solid(lines[h.line]) = Solid(wanted[h.sent])
                  /\ h.matched = 0 => h.indentation
             [] h.name = "whitespace" -> Occurrences(Solid(before), Solid(edit.old)) # {}
             [] h.name = "absent" -> Occurrences(squash(before), squash(edit.old)) = {}
             [] OTHER -> TRUE
=============================================================================
