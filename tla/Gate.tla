---------------------------------- MODULE Gate ----------------------------------
(***************************************************************************)
(* What happens to a chart's values and to the diff a model wrote for      *)
(* them: the sanitizer that prepares the text the model sees, the patch,   *)
(* and the stages of the gate that judge the patched text.  The model sees *)
(* the sanitised text; its diff is applied to the original.                *)
(*                                                                         *)
(* A chart is a sequence of lines.  A line is the head of a workload's     *)
(* section, a label, a resource quantity, an apiVersion or kind (empty     *)
(* when val is 0), some other setting, an empty line, or no YAML at all;   *)
(* note says that a comment follows on it.  A setting is short (0), longer *)
(* than the sanitizer lets through (1), or cut by it (2).  A template      *)
(* comment ends on the line it began on: the lines that a longer one takes *)
(* out of the text, and the line numbers that move with them, are left     *)
(* out.                                                                    *)
(***************************************************************************)
EXTENDS Integers, Sequences, SequencesExt

-----------------------------------------------------------------------------
stripComments(l) == [l EXCEPT !.note = FALSE]

truncateLongFields(l) == IF l.kind = "other" /\ l.val = 1 THEN [l EXCEPT !.val = 2] ELSE l

(* The line that opens and closes text with an injection marker in it.       *)
wrapUserData == [kind |-> "mark", name |-> "", val |-> 0, note |-> FALSE]

Lines == [kind : STRING, name : STRING, val : Int, note : BOOLEAN] \cup {wrapUserData}

(* The text that the model is shown.                                         *)
Sanitize(c) ==
  LET text == [i \in DOMAIN c.lines |-> truncateLongFields(stripComments(c.lines[i]))]
  IN  IF c.suspicious THEN <<wrapUserData>> \o text \o <<wrapUserData>> ELSE text

-----------------------------------------------------------------------------
(* A hunk is the old line number of its header and its lines, each kept (k), *)
(* removed (r) or added (a).  The length in the header is not used.          *)
Block(h, ops) ==
  LET kept == SelectSeq(h.ops, LAMBDA o : o.op \in ops)
  IN  [i \in DOMAIN kept |-> kept[i].line]
OldBlock(h) == Block(h, {"k", "r"})
NewBlock(h) == Block(h, {"k", "a"})

(* tryAt, offsets counting from 0.                                           *)
tryAt(src, want, i) ==
  /\ i >= 0 /\ i + Len(want) <= Len(src)
  /\ \A k \in 1..Len(want) : src[i + k] = want[k]

(* Mutant: the line number of the header is taken for an offset.             *)
findBlockAtNumber(src, want, cursor, hint) ==
  LET at == {i \in cursor..Len(src) : tryAt(src, want, i)}
  IN  IF tryAt(src, want, hint + 1) THEN hint + 1
      ELSE IF at = {} THEN -1 ELSE CHOOSE i \in at : \A j \in at : i <= j

(* Where a hunk goes: at its line if its old lines are there, else at the    *)
(* first place from the end of the last hunk on; -1 is errContextMiss.  A    *)
(* hunk without old lines goes to its line, if there is one.                 *)
findBlock(src, want, cursor, hint) ==
  LET at == {i \in cursor..Len(src) : tryAt(src, want, i)}
  IN  IF want = <<>> THEN (IF hint \in 0..Len(src) THEN hint ELSE cursor)
      ELSE IF tryAt(src, want, hint) THEN hint
      ELSE IF at = {} THEN -1 ELSE CHOOSE i \in at : \A j \in at : i <= j

(* lines with the hunk h in place of its old lines, which begin at i.        *)
Splice(lines, i, h) ==
  SubSeq(lines, 1, i) \o NewBlock(h) \o SubSeq(lines, i + Len(OldBlock(h)) + 1, Len(lines))

(* One hunk; acc is the text so far and the end of the last hunk.            *)
ApplyHunk(acc, h) ==
  LET idx == findBlock(acc.lines, OldBlock(h), acc.cursor, h.start - 1)
  IN  IF ~acc.ok \/ idx < 0 THEN [acc EXCEPT !.ok = FALSE]
      ELSE [ok |-> TRUE, cursor |-> idx + Len(NewBlock(h)), lines |-> Splice(acc.lines, idx, h)]

(* acc after each hunk.  A header that does not parse, or a diff without     *)
(* hunks, is an error before the first.                                      *)
Applied(lines, diff) ==
  LET acc[n \in 0..Len(diff)] ==
        IF n = 0 THEN [ok |-> diff # <<>> /\ \A i \in DOMAIN diff : diff[i].header,
                       cursor |-> 0, lines |-> lines]
        ELSE ApplyHunk(acc[n - 1], diff[n])
  IN  acc

applyUnifiedDiff(lines, diff) == Applied(lines, diff)[Len(diff)]

-----------------------------------------------------------------------------
(* The section a line belongs to: the last head at or before it.             *)
Section(lines, i) ==
  LET heads == {j \in 1..i : lines[j].kind = "head"}
  IN  IF heads = {} THEN "" ELSE lines[CHOOSE j \in heads : \A k \in heads : k <= j].name

(* Text that yaml.Unmarshal takes: a key is there once in its mapping.       *)
decodeYAML(lines) ==
  /\ \A i \in DOMAIN lines : lines[i].kind \notin {"junk", "mark"}
  /\ \A i, j \in DOMAIN lines :
       i # j /\ lines[i].kind # "blank" /\ lines[i].kind = lines[j].kind
         /\ lines[i].name = lines[j].name
         => lines[i].kind # "head" /\ Section(lines, i) # Section(lines, j)

(* Keys at any depth, in any section.                                        *)
hasKey(lines, key) == \E i \in DOMAIN lines : lines[i].name = key
checkAPIVersionKindShape(lines) ==
  \A i \in DOMAIN lines : lines[i].kind = "shape" => lines[i].val # 0

(* The names of all labels, in whatever section.                             *)
walkLabels(lines) == {lines[i].name : i \in {j \in DOMAIN lines : lines[j].kind = "label"}}
checkLabelsPreserved(before, after) == walkLabels(before) \subseteq walkLabels(after)

(* path -> quantity, for the quantities above zero.                          *)
collectResources(lines) ==
  {[path |-> <<Section(lines, i), lines[i].name>>, q |-> lines[i].val] :
     i \in {j \in DOMAIN lines : lines[j].kind = "res" /\ lines[j].val > 0}}

(* Mutant: a quantity that is gone after the diff is not compared.           *)
boundsOfTheKept(before, after) ==
  \A b \in collectResources(before), a \in collectResources(after) :
    a.path = b.path => 2 * a.q >= b.q

(* No quantity is removed or cut by more than half.                          *)
checkResourceBounds(before, after) ==
  \A b \in collectResources(before) :
    \E a \in collectResources(after) : a.path = b.path /\ 2 * a.q >= b.q

-----------------------------------------------------------------------------
(* The three stages that look at the text.                                   *)
Patches(lines, diff) ==
  LET p == applyUnifiedDiff(lines, diff)
  IN  diff # <<>> /\ lines # <<>> /\ p.ok /\ decodeYAML(p.lines)

RenderValidator(lines, diff) == Patches(lines, diff)

ConformValidator(lines, diff, required) ==
  LET after == applyUnifiedDiff(lines, diff).lines
  IN  /\ Patches(lines, diff)
      /\ \A key \in required : hasKey(after, key)
      /\ checkAPIVersionKindShape(after)

PostValidator(lines, diff) ==
  LET after == applyUnifiedDiff(lines, diff).lines
  IN  /\ decodeYAML(lines) /\ Patches(lines, diff)
      /\ checkLabelsPreserved(lines, after)
      /\ checkResourceBounds(lines, after)
=============================================================================
