---------------------------- MODULE RequestCopy -----------------------------
(* What the detail panel computes from a log file that is JSON: the path that *)
(* sticks to the top of its text as the reader scrolls, and the compressed    *)
(* copy of a request, in which long tool results and images give way to       *)
(* placeholders that name the lines to read.                                  *)
(*                                                                            *)
(* A file is the set of its JSON values: [path, value, start, end], where     *)
(* value is "object", "array" or the text of a string (a number is like the   *)
(* empty one), and start and end are the lines of its text, from 0, that the  *)
(* value takes.                                                               *)
EXTENDS Integers, Sequences, FiniteSets, FiniteSetsExt, SequencesExt

isContainer(v) == v.value \in {"object", "array"}

\* What JSON.parse makes: one value at each path, in an object or an array.
IsTree(file) ==
  /\ IsFiniteSet(file)
  /\ \A v \in file :
       /\ v.path \in Seq(Range(v.path))
       /\ \A w \in file : w.path = v.path => w = v
       /\ v.path # <<>> =>
            \E w \in file : w.path = Front(v.path) /\ isContainer(w)

\* The path shown while v is at the top: its own, or that of what holds it.
stickySegments(v) == IF isContainer(v) THEN v.path ELSE Front(v.path)

\* The order of the entries: lines up, deeper values first on one line.  Which of
\* two values on one line and level comes first is left open.
Before(v, w) == v.start < w.start \/ (v.start = w.start /\ Len(v.path) > Len(w.path))
FirstOf(s) == CHOOSE v \in s : \A w \in s : ~Before(w, v)
LastOf(s) == CHOOSE v \in s : \A w \in s : ~Before(v, w)

\* That of the first entry around the line, unless it is none (the root's); else
\* that of the last one that starts no later.  A bug: no later than a line before.
StickyPathFrom(file, line, latest) ==
  LET around == {v \in file : v.start <= line /\ line <= v.end}
      above == {v \in file : v.start <= latest}
      first == IF around = {} THEN <<>> ELSE stickySegments(FirstOf(around))
  IN  IF first # <<>> THEN first
      ELSE IF above = {} THEN <<>> ELSE stickySegments(LastOf(above))
StickyPathEarly(file, line) == StickyPathFrom(file, line, line - 1)
StickyPath(file, line) == StickyPathFrom(file, line, line)
-----------------------------------------------------------------------------
\* A copy is the set of its values; a placeholder names lines instead.
Copied(file) == {[path |-> v.path, value |-> v.value, lines |-> <<>>] : v \in file}

Has(copy, path, value) == \E v \in copy : v.path = path /\ v.value = value

\* Objects of type "image" with data, a string, in their source.
IsImage(copy, path) ==
  /\ Has(copy, path, "object") /\ Has(copy, Append(path, "type"), "image")
  /\ Has(copy, Append(path, "source"), "object")
  /\ \E v \in copy : /\ v.path = path \o <<"source", "data">>
                     /\ ~isContainer(v) /\ v.value # ""

\* The data of every image is replaced, but nothing else within an image.
replaceImageBlocks(copy) ==
  LET images == {v.path : v \in {w \in copy : IsImage(copy, w.path)}}
      outer == {p \in images : ~\E q \in images : IsStrictPrefix(q, p)}
      data == {p \o <<"source", "data">> : p \in outer}
  IN  {IF v.path \in data THEN [v EXCEPT !.value = "[image]"] ELSE v : v \in copy}

\* A value takes the place of all there is at its path, if the parent is an
\* object or an array.
setJsonValueByPointer(copy, new) ==
  IF new.path # <<>> /\ \E v \in copy : v.path = Front(new.path) /\ isContainer(v)
  THEN {v \in copy : ~IsPrefix(new.path, v.path)} \cup {new}
  ELSE copy

\* Placeholders count lines from 1; a bug: from 0 as the parser does.
PlaceholderFromZero(v) == [path |-> v.path, value |-> "[compressed]", lines |-> <<v.start, v.end>>]
Placeholder(v) == [path |-> v.path, value |-> "[compressed]", lines |-> <<v.start + 1, v.end + 1>>]

\* The copy of a request file, given the values the server found too long.  A
\* bug: placeholders are put into the request as it was before its images went.
WithPlaceholders(copy, items) ==
  FoldSet(LAMBDA v, acc : setJsonValueByPointer(acc, Placeholder(v)), copy, items)
CompressedWithImages(file, items) ==
  IF items = {} THEN replaceImageBlocks(Copied(file))
  ELSE WithPlaceholders(Copied(file), items)
CompressedRequest(file, items) == WithPlaceholders(replaceImageBlocks(Copied(file)), items)
-----------------------------------------------------------------------------
\* What a compressed copy promises: every value of the request, but for the data
\* of the outermost images and for what is within a long tool result, which
\* names its lines counted from 1.
OuterImage(file, v) ==
  /\ IsImage(file, v.path)
  /\ ~\E w \in file : IsStrictPrefix(w.path, v.path) /\ IsImage(file, w.path)
IsData(file, v) == \E w \in file : OuterImage(file, w) /\ v.path = w.path \o <<"source", "data">>
Within(path, items) == \E i \in items : IsPrefix(i.path, path)
Outermost(items) == {i \in items : ~\E j \in items : IsStrictPrefix(j.path, i.path)}

FaithfulCopy(file, items) ==
  {[path |-> v.path, value |-> IF IsData(file, v) THEN "[image]" ELSE v.value, lines |-> <<>>] :
     v \in {w \in file : ~Within(w.path, items)}}
  \cup {[path |-> i.path, value |-> "[compressed]", lines |-> <<i.start + 1, i.end + 1>>] :
          i \in Outermost(items)}
=============================================================================
