---------------------------- MODULE SourceEdits -----------------------------
(***************************************************************************)
(* What the scripts that patch upstream sources are made of.  A text is a  *)
(* bag of fragments: the passages a script searches for, and the ones it   *)
(* inserts.  An edit is one text.replace() or re.sub() with the tests      *)
(* around it; a step is one read, edit and write of one file.              *)
(***************************************************************************)
EXTENDS Bags, FiniteSets, Sequences, SequencesExt

\* A name that no scope binds: evaluating it raises NameError.
Unbound == "<NameError>"

Edit(old, new) ==
  [old |-> old, new |-> new, unless |-> {}, must |-> FALSE, every |-> FALSE]

Must(e) == [e EXCEPT !.must = TRUE]          \* fail() when old is missing
Every(e) == [e EXCEPT !.every = TRUE]        \* no count: all occurrences
Unless(marker, e) == [e EXCEPT !.unless = {marker}]
Insert(marker, at) == Unless(marker, Edit({at}, {at, marker}))
Erase(old) == Every(Edit({old}, {}))
AtEnd(new) == Edit({}, {new})

HasAll(text, fragments) == \A x \in fragments : BagIn(x, text)
Skips(marks, text) == \E m \in marks : BagIn(m, text)

Applies(e, text) == HasAll(text, e.old) /\ ~Skips(e.unless, text)
Fails(e, text) == e.must /\ ~HasAll(text, e.old) /\ ~Skips(e.unless, text)

Copies(fragments, n) == [x \in fragments |-> n]

Replace(e, text) ==
  LET n == IF e.every THEN text[CHOOSE x \in e.old : TRUE] ELSE 1
  IN  (text (-) Copies(e.old \ e.new, n)) (+) Copies(e.new \ e.old, n)

Try(result, e) ==
  IF ~result.ok \/ Fails(e, result.text) THEN [result EXCEPT !.ok = FALSE]
  ELSE IF Applies(e, result.text) THEN [result EXCEPT !.text = Replace(e, @)]
  ELSE result

(***************************************************************************)
(* unless: a marker that makes the function return the text as it is.      *)
(* restore: the text is taken from the archive, not from the tree.         *)
(* always: written back even when the text did not change.                 *)
(* chained: reached only if the function changed the file it began with.   *)
(***************************************************************************)
Step(file, marks, edits) ==
  [file |-> file, unless |-> marks, edits |-> edits,
   restore |-> FALSE, always |-> FALSE, chained |-> FALSE]

Rewrite(file, edits) == [Step(file, {}, edits) EXCEPT !.always = TRUE]
Restore(file) == [Rewrite(file, << >>) EXCEPT !.restore = TRUE]
FromArchive(step) == [step EXCEPT !.restore = TRUE]
Chained(step) == [step EXCEPT !.chained = TRUE]

Outcome(step, text) ==
  IF Skips(step.unless, text) THEN [ok |-> TRUE, text |-> text]
  ELSE FoldLeft(Try, [ok |-> TRUE, text |-> text], step.edits)

-----------------------------------------------------------------------------
\* The steps of a script, its functions called one after the other.
Script(functions) == FlattenSeq(functions)

FilesOf(steps) == {steps[k].file : k \in 1 .. Len(steps)}

EditsOf(steps, f) ==
  UNION {ToSet(steps[k].edits) : k \in {j \in 1 .. Len(steps) : steps[j].file = f}}

\* The file as upstream ships it: what the script looks for there and does
\* not itself put in.  forms: passages only an older script left behind; an
\* edit that finds nothing else puts upstream's own text back in their place.
Upstream(steps, forms, f) ==
  LET inserting == {e \in EditsOf(steps, f) : ~(e.old \subseteq forms)}
  IN  SetToBag(UNION {e.old : e \in EditsOf(steps, f)}
               \ (UNION {e.new \ e.old : e \in inserting} \cup forms \cup {Unbound}))

\* The file as an older script left it: forms[x] stood where x stands.
Aged(steps, forms, f) ==
  LET text == Upstream(steps, DOMAIN forms, f)
      left == {x \in DOMAIN forms : \E e \in EditsOf(steps, f) : x \in e.old}
  IN  (text (-) SetToBag(UNION {forms[x] : x \in left})) (+) SetToBag(left)
=============================================================================
