-------------------------- MODULE LogFileViewProofs --------------------------
(***************************************************************************)
(* The viewer of log files shows one file: the text, its path, the tree    *)
(* editor and the entries of the raw view are of the same one, for any     *)
(* files, any number of clicks, and reads and imports that end in any      *)
(* order.                                                                  *)
(*                                                                         *)
(* And the compressed copy of a request is what it says it is, for any     *)
(* JSON.  The placeholders are put in one after the other: any order gives *)
(* the same copy, in which the outermost ones are left.                    *)
(*                                                                         *)
(* The invariant says of each import under way what viewer it is for: that *)
(* of the effects that ran last.  While these lag behind what is rendered, *)
(* the handlers of an import look at the latest contents or at none.       *)
(***************************************************************************)
EXTENDS LogFileView, SequenceTheorems, FiniteSetTheorems, WellFoundedInduction, TLAPS

Viewer == {"none", "raw", "tree"}
Mount == [view : Viewer, content : DOMAIN Json \cup {NoFile}]
Import == [for : Mount, live : BOOLEAN]

Types ==
    /\ mounted \in Mount /\ imports \subseteq Import
    /\ mounted.view # "none" => mounted.content \in DOMAIN Json
    /\ \A i \in imports : i.for.view = mounted.view /\ i.for.view # "none"
                          /\ i.for.content \in DOMAIN Json

(* The tree waits for one module and has no editor, or has one. *)
TreeSound ==
    /\ editor # NoFile => mounted.view = "tree"
    /\ \A i \in imports : i.for.view = "tree" => editor = NoFile
    /\ \A i, j \in imports : i.for.view = "tree" => i = j
    /\ EffectsRan /\ editor # NoFile => editor = mounted.content
    /\ OneEditor

(* The raw view waits for the entries of its contents, or has them, or has *)
(* none.  One that was taken off the screen lost what came meanwhile.      *)
RawSound ==
    /\ entries \in DOMAIN Json \cup {NoFile}
    /\ \A i \in imports : i.live /\ i.for.view = "raw" => i.for = mounted
    /\ mounted.view = "raw" /\ View = "raw" =>
          (\E i \in imports : i.live) \/ entries \in {mounted.content, NoFile}

ViewersSound == Types /\ TreeSound /\ RawSound

IInv == PathMatchesContent /\ ViewersSound

-----------------------------------------------------------------------------
(* What is rendered, now and after a step. *)

LEMMA RenderedIs ==
    /\ Rendered \in Mount /\ Rendered.view = View /\ View \in Viewer
    /\ View # "none" => content \in DOMAIN Json /\ Rendered.content = content
<1>1. View \in Viewer /\ (View # "none" => content \in DOMAIN Json)
  BY DEF View, Viewer
<1>2. Rendered = [view |-> View, content |-> IF View = "none" THEN NoFile ELSE content]
  BY DEF Rendered
<1>3. QED
  BY <1>1, <1>2 DEF Mount

LEMMA RenderedNext ==
    /\ Rendered' \in Mount /\ Rendered'.view = View' /\ View' \in Viewer
    /\ View' # "none" => content' \in DOMAIN Json /\ Rendered'.content = content'
<1>1. View' \in Viewer /\ (View' # "none" => content' \in DOMAIN Json)
  BY DEF View, Viewer
<1>2. Rendered' = [view |-> View', content |-> IF View' = "none" THEN NoFile ELSE content']
  BY DEF Rendered
<1>3. QED
  BY <1>1, <1>2 DEF Mount

(* The modal says what is rendered. *)
LEMMA RenderedStays ==
    ASSUME UNCHANGED modalVars
    PROVE  Rendered' = Rendered /\ View' = View
BY DEF modalVars, Rendered, View

(* A step of the modal between renders leaves the viewers as they were. *)
LEMMA ViewersStay ==
    ASSUME ViewersSound, EffectsRan, UNCHANGED viewerVars
    PROVE  ViewersSound'
<1>1. /\ mounted' = mounted /\ imports' = imports /\ editor' = editor /\ editors' = editors
      /\ entries' = entries
  BY DEF viewerVars
<1>2. mounted = Rendered /\ Rendered.view = View
  BY RenderedIs DEF EffectsRan
<1>3. Types'
  BY <1>1 DEF ViewersSound, Types
<1>4. TreeSound'
  BY <1>1 DEF ViewersSound, TreeSound, OneEditor
<1>5. RawSound'
  BY <1>1, <1>2 DEF ViewersSound, RawSound
<1>6. QED
  BY <1>3, <1>4, <1>5 DEF ViewersSound

(* The effects of what is rendered now.  An import goes on for the viewer  *)
(* that stays, but a raw view drops the one for its earlier contents.      *)
LEMMA EffectsSound ==
    ASSUME ViewersSound, RunEffectsOf(Rendered')
    PROVE  ViewersSound'
<1> DEFINE m == Rendered'
<1>1. /\ m \in Mount /\ m.view \in Viewer /\ m.view = View'
      /\ m.view # "none" => m.content \in DOMAIN Json /\ m.content # NoFile
  BY RenderedNext, FilesAssumption
<1> HIDE DEF m
<1> DEFINE new == [for |-> m, live |-> TRUE]
<1>2. /\ mounted' = m /\ TreeEffects(m) /\ RawEffects(m)
      /\ imports' = Kept(m) \cup (IF Wanted(m) THEN {new} ELSE {})
  BY DEF RunEffectsOf, m
<1>3. Types /\ TreeSound /\ RawSound
  BY DEF ViewersSound
<1>4. new \in Import /\ new.for = m /\ new.live = TRUE
  BY <1>1 DEF Import
<1>5. \A i \in Import : LET d == [i EXCEPT !.live = FALSE]
                        IN  d \in Import /\ d.for = i.for /\ d.live = FALSE
  BY DEF Import
<1> HIDE DEF new
<1>6. CASE m.view # mounted.view
  <2>1. Kept(m) = {} /\ (Wanted(m) <=> m.view # "none")
    BY <1>1, <1>6 DEF Kept, Wanted
  <2>2. /\ \A i \in imports' : i = new
        /\ m.view # "none" => new \in imports'
        /\ m.view = "none" => imports' = {}
    BY <1>2, <2>1
  <2>3. Types'
    BY <1>1, <1>2, <1>4, <2>2 DEF Types
  <2>4. editor' = NoFile /\ OneEditor'
    <3>1. CASE m.view = "tree"
      <4>1. mounted.view # "tree" /\ editor = NoFile
        BY <1>3, <1>6, <3>1 DEF TreeSound
      <4>2. QED
        BY <1>2, <1>3, <3>1, <4>1 DEF TreeEffects, TreeSound, OneEditor
    <3>2. CASE m.view # "tree"
      BY <1>2, <1>3, <3>2 DEF TreeEffects, TreeSound, OneEditor
    <3>3. QED
      BY <3>1, <3>2
  <2>5. TreeSound'
    BY <2>2, <2>4 DEF TreeSound
  <2>6. entries' \in DOMAIN Json \cup {NoFile}
    BY <1>2, <1>3 DEF RawEffects, RawSound
  <2>7. RawSound'
    BY <1>1, <1>2, <1>4, <2>2, <2>6 DEF RawSound
  <2>8. QED
    BY <2>3, <2>5, <2>7 DEF ViewersSound
<1>7. CASE m.view = mounted.view /\ m.view = "tree"
  <2>1. Kept(m) = imports /\ ~Wanted(m)
    BY <1>7 DEF Kept, Wanted
  <2>2. imports' = imports
    BY <1>2, <2>1
  <2>3. Types'
    BY <1>1, <1>2, <1>3, <1>7, <2>2 DEF Types
  <2>4. editors' = editors /\ editor' = IF editor = NoFile THEN NoFile ELSE m.content
    BY <1>2, <1>7 DEF TreeEffects
  <2>5. TreeSound'
    BY <1>1, <1>2, <1>3, <1>7, <2>2, <2>4 DEF TreeSound, OneEditor
  <2>6. RawSound'
    <3>1. \A i \in imports' : i.for.view # "raw"
      BY <1>3, <1>7, <2>2 DEF Types
    <3>2. entries' \in DOMAIN Json \cup {NoFile}
      BY <1>2, <1>3 DEF RawEffects, RawSound
    <3>3. QED
      BY <1>2, <1>7, <3>1, <3>2 DEF RawSound
  <2>7. QED
    BY <2>3, <2>5, <2>6 DEF ViewersSound
<1>8. CASE m.view = mounted.view /\ m.view = "raw"
  <2>1. /\ Kept(m) = {[i EXCEPT !.live = FALSE] : i \in imports} /\ Wanted(m)
    BY <1>8 DEF Kept, Wanted
  <2>2. /\ new \in imports'
        /\ \A i \in imports' : i = new \/ (i \in Import /\ i.live = FALSE /\
              \E j \in imports : i.for = j.for)
    <3>1. new \in imports' /\ \A i \in imports' : i = new \/ i \in Kept(m)
      BY <1>2, <2>1
    <3>2. \A i \in Kept(m) : \E j \in imports : i = [j EXCEPT !.live = FALSE]
      BY <2>1
    <3>3. \A j \in imports : j \in Import
      BY <1>3 DEF Types
    <3>4. \A i \in Kept(m) : i \in Import /\ i.live = FALSE /\ \E j \in imports : i.for = j.for
      BY <1>5, <3>2, <3>3
    <3>5. QED
      BY <3>1, <3>4
  <2>3. Types'
    <3>1. \A i \in imports' : /\ i \in Import /\ i.for.view = m.view
                              /\ i.for.content \in DOMAIN Json
      BY <1>1, <1>3, <1>4, <1>8, <2>2 DEF Types
    <3>2. QED
      BY <1>1, <1>2, <1>8, <3>1 DEF Types
  <2>4. editor = NoFile /\ editor' = NoFile /\ editors' = editors
    BY <1>2, <1>3, <1>8 DEF TreeEffects, TreeSound
  <2>5. \A i \in imports' : i.for.view # "tree"
    BY <1>2, <1>8, <2>3 DEF Types
  <2>6. TreeSound'
    BY <1>3, <2>4, <2>5 DEF TreeSound, OneEditor
  <2>7. RawSound'
    BY <1>2, <1>3, <1>4, <1>8, <2>2 DEF RawSound, RawEffects
  <2>8. QED
    BY <2>3, <2>6, <2>7 DEF ViewersSound
<1>9. CASE m.view = mounted.view /\ m.view = "none"
  <2>1. imports = {}
    BY <1>3, <1>9 DEF Types
  <2>2. Kept(m) = {} /\ ~Wanted(m)
    BY <1>9, <2>1 DEF Kept, Wanted
  <2>3. imports' = {}
    BY <1>2, <2>2
  <2>4. editor = NoFile /\ editor' = NoFile /\ editors' = editors
    BY <1>2, <1>3, <1>9 DEF TreeEffects, TreeSound
  <2>5. Types' /\ TreeSound'
    BY <1>1, <1>2, <1>3, <1>9, <2>3, <2>4 DEF Types, TreeSound, OneEditor
  <2>6. RawSound'
    BY <1>2, <1>3, <1>9, <2>3 DEF RawSound, RawEffects
  <2>7. QED
    BY <2>5, <2>6 DEF ViewersSound
<1>10. QED
  BY <1>1, <1>6, <1>7, <1>8, <1>9 DEF Viewer

LEMMA ClickSound ==
    ASSUME ViewersSound, EffectsRan, Clicked
    PROVE  ViewersSound'
<1>1. CASE Rendered' = mounted
  BY <1>1, ViewersStay DEF Clicked
<1>2. CASE Rendered' # mounted
  BY <1>2, EffectsSound DEF Clicked
<1>3. QED
  BY <1>1, <1>2

-----------------------------------------------------------------------------
(* Every action keeps the invariant. *)

LEMMA InitHolds == Init => IInv
<1> SUFFICES ASSUME Init PROVE IInv
  OBVIOUS
<1>1. /\ content = NoFile /\ loading = FALSE /\ imports = {} /\ editor = NoFile /\ editors = 0
      /\ entries = NoFile /\ mounted = [view |-> "none", content |-> NoFile]
  BY DEF Init
<1>2. mounted \in Mount /\ mounted.view = "none"
  BY <1>1 DEF Mount, Viewer
<1>3. QED
  BY <1>1, <1>2
  DEF IInv, PathMatchesContent, ViewersSound, Types, TreeSound, OneEditor, RawSound

LEMMA OpenHolds ==
    ASSUME IInv, NEW f \in File, onViewSourceFile(f)
    PROVE  IInv'
<1>1. EffectsRan /\ Clicked /\ content' = NoFile
      /\ reads' = reads \cup {[n |-> commands', file |-> f]}
  BY DEF onViewSourceFile, Command, Opens
<1>2. PathMatchesContent'
  BY <1>1 DEF PathMatchesContent
<1>3. QED
  BY <1>1, <1>2, ClickSound DEF IInv

LEMMA CloseHolds ==
    ASSUME IInv, Close \/ \E m \in {"raw", "rendered"} : SetMode(m)
    PROVE  IInv'
<1>1. EffectsRan /\ Clicked /\ content' = content /\ path' = path /\ loading' = loading
      /\ reads' = reads
  BY DEF Close, SetMode, Command
<1>2. QED
  BY <1>1, ClickSound DEF IInv, PathMatchesContent

LEMMA RunEffectsHolds ==
    ASSUME IInv, RunEffects
    PROVE  IInv'
<1>1. RunEffectsOf(Rendered) /\ UNCHANGED modalVars /\ reads' = reads
  BY DEF RunEffects
<1>2. Rendered' = Rendered
  BY <1>1, RenderedStays
<1>3. QED
  BY <1>1, <1>2, EffectsSound DEF IInv, PathMatchesContent, modalVars

LEMMA ReadHolds ==
    ASSUME IInv, NEW r \in reads, ReadAnswered(r) \/ ReadFails(r)
    PROVE  IInv'
<1>1. EffectsRan /\ UNCHANGED viewerVars /\ loading' = FALSE
      /\ (content' = NoFile \/ content' = path')
  BY DEF ReadAnswered, ReadFails, Answered, Failed
<1>2. QED
  BY <1>1, ViewersStay DEF IInv, PathMatchesContent

(* The module of the tree or of the raw view is there: it is the only one  *)
(* of the tree, and the latest of the raw view.                            *)
LEMMA ImportDoneHolds ==
    ASSUME IInv, NEW i \in imports, ImportDone(i)
    PROVE  IInv'
<1>1. /\ imports' = imports \ {i} /\ mounted' = mounted /\ UNCHANGED modalVars /\ reads' = reads
  BY DEF ImportDone
<1>2. View' = View /\ Rendered' = Rendered
  BY <1>1, RenderedStays
<1>3. Types /\ TreeSound /\ RawSound /\ PathMatchesContent
  BY DEF IInv, ViewersSound
<1>4. Types' /\ PathMatchesContent'
  BY <1>1, <1>3 DEF Types, PathMatchesContent, modalVars
<1>5. /\ Rendered.view = View
      /\ View # "none" => content \in DOMAIN Json /\ Rendered.content = content /\ content # NoFile
  BY RenderedIs, FilesAssumption
<1>6. i.for.view = mounted.view /\ i.for.content \in DOMAIN Json /\ i.for.view # "none"
  BY <1>3 DEF Types
<1>7. CASE ~i.live \/ i.for.view # View
  <2>1. editor' = editor /\ editors' = editors /\ entries' = entries
    BY <1>7 DEF ImportDone
  <2>2. TreeSound'
    BY <1>1, <1>2, <1>3, <2>1 DEF TreeSound, OneEditor, EffectsRan
  <2>3. RawSound'
    <3>1. mounted.view = "raw" /\ View = "raw" => i.for.view = View /\ ~i.live
      BY <1>6, <1>7
    <3>2. QED
      BY <1>1, <1>2, <1>3, <2>1, <3>1 DEF RawSound
  <2>4. QED
    BY <1>4, <2>2, <2>3 DEF IInv, ViewersSound
<1>8. CASE i.live /\ i.for.view = View /\ i.for.view = "tree"
  <2>1. editor' = content /\ editors' = editors + 1 /\ entries' = entries
    BY <1>8 DEF ImportDone, LatestContents
  <2>2. \A j \in imports : j = i
    BY <1>3, <1>6, <1>8 DEF TreeSound, Types
  <2>3. imports' = {}
    BY <1>1, <2>2
  <2>4. editor = NoFile /\ editors = 0 /\ content # NoFile
    BY <1>3, <1>5, <1>8 DEF TreeSound, OneEditor
  <2>5. EffectsRan' => mounted'.content = content
    BY <1>1, <1>2, <1>5, <1>8 DEF EffectsRan
  <2>6. TreeSound'
    BY <1>1, <1>6, <1>8, <2>1, <2>3, <2>4, <2>5 DEF TreeSound, OneEditor
  <2>7. RawSound'
    BY <1>1, <1>3, <1>6, <1>8, <2>1, <2>3 DEF RawSound
  <2>8. QED
    BY <1>4, <2>6, <2>7 DEF IInv, ViewersSound
<1>9. CASE i.live /\ i.for.view = View /\ i.for.view = "raw"
  <2>1. editor' = editor /\ editors' = editors /\ entries' = i.for.content
    BY <1>9 DEF ImportDone
  <2>2. i.for.content = mounted.content
    BY <1>3, <1>9 DEF RawSound
  <2>3. TreeSound'
    BY <1>1, <1>2, <1>3, <2>1 DEF TreeSound, OneEditor, EffectsRan
  <2>4. RawSound'
    BY <1>1, <1>3, <1>6, <2>1, <2>2 DEF RawSound
  <2>5. QED
    BY <1>4, <2>3, <2>4 DEF IInv, ViewersSound
<1>10. QED
  BY <1>3, <1>6, <1>7, <1>8, <1>9 DEF Types, Mount, Viewer

LEMMA ImportFailsHolds ==
    ASSUME IInv, NEW i \in imports, ImportFails(i)
    PROVE  IInv'
<1>1. /\ imports' = imports \ {i} /\ mounted' = mounted /\ UNCHANGED modalVars /\ reads' = reads
      /\ editor' = editor /\ editors' = editors
      /\ entries' = IF i.for.view = "raw" THEN NoFile ELSE entries
  BY DEF ImportFails
<1>2. View' = View /\ Rendered' = Rendered
  BY <1>1, RenderedStays
<1>3. Types /\ TreeSound /\ RawSound /\ PathMatchesContent
  BY DEF IInv, ViewersSound
<1>4. Types' /\ PathMatchesContent'
  BY <1>1, <1>3 DEF Types, PathMatchesContent, modalVars
<1>5. TreeSound'
  BY <1>1, <1>2, <1>3 DEF TreeSound, OneEditor, EffectsRan
<1>6. i.for.view = mounted.view
  BY <1>3 DEF Types
<1>7. RawSound'
  BY <1>1, <1>2, <1>3, <1>6 DEF RawSound
<1>8. QED
  BY <1>4, <1>5, <1>7 DEF IInv, ViewersSound

(* A copy has nothing to do with the viewers. *)
LEMMA OthersHold ==
    ASSUME IInv, UNCHANGED <<modalVars, reads, viewerVars>>
    PROVE  IInv'
<1>1. Rendered' = Rendered /\ View' = View
  BY RenderedStays
<1>2. QED
  BY <1>1 DEF IInv, PathMatchesContent, modalVars, viewerVars, ViewersSound, Types, TreeSound,
              OneEditor, RawSound, EffectsRan

LEMMA StepHolds == IInv /\ [Next]_vars => IInv'
<1> SUFFICES ASSUME IInv, [Next]_vars PROVE IInv'
  OBVIOUS
<1>1. ASSUME NEW f \in File, onViewSourceFile(f) PROVE IInv'
  BY <1>1, OpenHolds
<1>2. ASSUME Close \/ \E m \in {"raw", "rendered"} : SetMode(m) PROVE IInv'
  BY <1>2, CloseHolds
<1>3. ASSUME NEW f \in DOMAIN Json, CopyCompressedRequest(f) PROVE IInv'
  BY <1>3, OthersHold DEF CopyCompressedRequest
<1>4. ASSUME RunEffects PROVE IInv'
  BY <1>4, RunEffectsHolds
<1>5. ASSUME ReadStep PROVE IInv'
  BY <1>5, ReadHolds DEF ReadStep
<1>6. ASSUME ImportStep PROVE IInv'
  BY <1>6, ImportDoneHolds, ImportFailsHolds DEF ImportStep
<1>7. CASE UNCHANGED vars
  BY <1>7, OthersHold DEF vars, modalVars, viewerVars
<1>8. QED
  BY <1>1, <1>2, <1>3, <1>4, <1>5, <1>6, <1>7 DEF Next

-----------------------------------------------------------------------------
(* The path at the top of the raw view. *)

(* The first entry around a line is the root's, which names no path; the   *)
(* last one above it is the value that starts there.                       *)
LEMMA StickyIs ==
    ASSUME NEW f \in DOMAIN Json, NEW v \in Json[f],
           \A w \in Json[f] : w.start = v.start => w = v
    PROVE  StickyPath(Json[f], v.start) = stickySegments(v)
<1> DEFINE file == Json[f]
           around == {w \in file : w.start <= v.start /\ v.start <= w.end}
           above == {w \in file : w.start <= v.start}
<1>1. PICK root \in file :
        /\ root.path = <<>> /\ isContainer(root) /\ root.start \in Nat
        /\ \A w \in file : /\ w.start \in Nat /\ w.end \in Nat
                           /\ root.start <= w.start /\ w.start <= w.end /\ w.end <= root.end
        /\ \/ \A w \in file : w.start = root.start
           \/ \A w \in file \ {root} : root.start < w.start
  BY LaidOutAssumption
<1>2. root \in around /\ v \in above
  BY <1>1
<1>3. \A w \in file : w # root => root.start < w.start
  BY <1>1
<1>4. FirstOf(around) = root
  <2>1. \A w \in around : ~Before(w, root)
    BY <1>1, <1>3 DEF Before
  <2>2. \A x \in around : (\A w \in around : ~Before(w, x)) => x = root
    BY <1>1, <1>2, <1>3 DEF Before
  <2>3. QED
    BY <1>2, <2>1, <2>2 DEF FirstOf
<1>5. LastOf(above) = v
  <2>1. \A w \in above : ~Before(v, w)
    BY <1>1 DEF Before
  <2>2. \A x \in above : (\A w \in above : ~Before(x, w)) => x = v
    BY <1>1, <1>2 DEF Before
  <2>3. QED
    BY <1>2, <2>1, <2>2 DEF LastOf
<1>6. stickySegments(root) = <<>>
  BY <1>1 DEF stickySegments
<1>7. QED
  BY <1>2, <1>4, <1>5, <1>6 DEF StickyPath, StickyPathFrom

-----------------------------------------------------------------------------
(* Prefixes of paths. *)

LEMMA PrefixIs ==
    ASSUME NEW S, NEW s \in Seq(S), NEW t \in Seq(S)
    PROVE  IsPrefix(s, t) <=> Len(s) <= Len(t) /\ \A k \in 1..Len(s) : s[k] = t[k]
<1>1. /\ Len(s) \in Nat /\ Len(t) \in Nat
      /\ \A k \in 1..Len(s) : s[k] \in S
      /\ \A k \in 1..Len(t) : t[k] \in S
  BY LenProperties, ElementOfSeq
<1> DEFINE n == Len(s)
           a == SubSeq(s, 1, n)
           b == SubSeq(t, 1, n)
<1>2. /\ a \in Seq(S) /\ Len(a) = n /\ \A k \in 1..n : a[k] = s[k]
  <2>1. /\ a \in Seq(S) /\ Len(a) = (IF 1 <= n THEN n - 1 + 1 ELSE 0)
        /\ \A k \in 1..n - 1 + 1 : a[k] = s[1 + k - 1]
    BY <1>1, SubSeqProperties
  <2> HIDE DEF a
  <2>2. QED
    BY <1>1, <2>1
<1>3. ASSUME n <= Len(t)
      PROVE  b \in Seq(S) /\ Len(b) = n /\ \A k \in 1..n : b[k] = t[k]
  <2>1. \A k \in 1..n : t[k] \in S
    BY <1>1, <1>3
  <2>2. /\ b \in Seq(S) /\ Len(b) = (IF 1 <= n THEN n - 1 + 1 ELSE 0)
        /\ \A k \in 1..n - 1 + 1 : b[k] = t[1 + k - 1]
    BY <1>1, <2>1, SubSeqProperties
  <2> HIDE DEF b
  <2>3. QED
    BY <1>1, <2>2
<1> HIDE DEF a, b
<1>4. ASSUME n <= Len(t)
      PROVE  a = b <=> \A k \in 1..n : s[k] = t[k]
  <2>1. b \in Seq(S) /\ Len(b) = n /\ \A k \in 1..n : b[k] = t[k]
    BY <1>3, <1>4
  <2>2. (\A k \in 1..n : s[k] = t[k]) => \A k \in 1..Len(a) : a[k] = b[k]
    BY <1>2, <2>1
  <2>3. (\A k \in 1..Len(a) : a[k] = b[k]) => a = b
    BY <1>2, <2>1, SeqEqual
  <2>4. QED
    BY <1>2, <2>1, <2>2, <2>3
<1>5. IsPrefix(s, t) <=> n <= Len(t) /\ a = b
  BY DEF IsPrefix, a, b
<1>6. QED
  BY <1>4, <1>5

LEMMA PrefixOrder ==
    ASSUME NEW S, NEW s \in Seq(S), NEW t \in Seq(S), NEW u \in Seq(S)
    PROVE  /\ Len(s) \in Nat
           /\ IsPrefix(s, s)
           /\ IsPrefix(s, t) /\ IsPrefix(t, u) => IsPrefix(s, u)
           /\ IsPrefix(s, t) /\ IsPrefix(t, s) => s = t
           /\ IsPrefix(s, u) /\ IsPrefix(t, u) => IsPrefix(s, t) \/ IsPrefix(t, s)
<1>1. Len(s) \in Nat /\ Len(t) \in Nat /\ Len(u) \in Nat
  BY LenProperties
<1>2. /\ IsPrefix(s, s) <=> Len(s) <= Len(s) /\ \A k \in 1..Len(s) : s[k] = s[k]
      /\ IsPrefix(s, t) <=> Len(s) <= Len(t) /\ \A k \in 1..Len(s) : s[k] = t[k]
      /\ IsPrefix(t, s) <=> Len(t) <= Len(s) /\ \A k \in 1..Len(t) : t[k] = s[k]
      /\ IsPrefix(t, u) <=> Len(t) <= Len(u) /\ \A k \in 1..Len(t) : t[k] = u[k]
      /\ IsPrefix(s, u) <=> Len(s) <= Len(u) /\ \A k \in 1..Len(s) : s[k] = u[k]
  BY PrefixIs
<1>3. IsPrefix(s, t) /\ IsPrefix(t, u) => IsPrefix(s, u)
  BY <1>1, <1>2
<1>4. IsPrefix(s, t) /\ IsPrefix(t, s) => s = t
  <2>1. SUFFICES ASSUME IsPrefix(s, t), IsPrefix(t, s) PROVE s = t
    OBVIOUS
  <2>2. Len(s) = Len(t) /\ \A k \in 1..Len(s) : s[k] = t[k]
    BY <1>1, <1>2, <2>1
  <2>3. QED
    BY <2>2, SeqEqual
<1>5. IsPrefix(s, u) /\ IsPrefix(t, u) => IsPrefix(s, t) \/ IsPrefix(t, s)
  BY <1>1, <1>2
<1>6. QED
  BY <1>1, <1>2, <1>3, <1>4, <1>5

(* What is above a path: its parent, and what is above that. *)
LEMMA FrontIs ==
    ASSUME NEW S, NEW s \in Seq(S), NEW t \in Seq(S), t # <<>>
    PROVE  /\ Front(t) \in Seq(S) /\ IsPrefix(Front(t), t) /\ ~IsPrefix(t, Front(t))
           /\ IsPrefix(s, t) => s = t \/ IsPrefix(s, Front(t))
<1>1. /\ Len(s) \in Nat /\ Len(t) \in Nat \ {0}
      /\ \A k \in 1..Len(t) : t[k] \in S
  BY LenProperties, ElementOfSeq, EmptySeq
<1> DEFINE n == Len(t) - 1
           f == SubSeq(t, 1, n)
<1>2. n \in Nat /\ Len(t) = n + 1
  BY <1>1
<1> HIDE DEF n
<1>3. f \in Seq(S) /\ Len(f) = n /\ \A k \in 1..n : f[k] = t[k]
  <2>1. \A k \in 1..n : t[k] \in S
    BY <1>1, <1>2
  <2>2. /\ f \in Seq(S) /\ Len(f) = (IF 1 <= n THEN n - 1 + 1 ELSE 0)
        /\ \A k \in 1..n - 1 + 1 : f[k] = t[1 + k - 1]
    BY <1>2, <2>1, SubSeqProperties
  <2> HIDE DEF f
  <2>3. QED
    BY <1>2, <2>2
<1>4. Front(t) = f
  BY DEF Front, n
<1> HIDE DEF f
<1>5. /\ IsPrefix(f, t) <=> Len(f) <= Len(t) /\ \A k \in 1..Len(f) : f[k] = t[k]
      /\ IsPrefix(t, f) <=> Len(t) <= Len(f) /\ \A k \in 1..Len(t) : t[k] = f[k]
  BY <1>3, PrefixIs
<1>6. /\ IsPrefix(s, t) <=> Len(s) <= Len(t) /\ \A k \in 1..Len(s) : s[k] = t[k]
      /\ IsPrefix(s, f) <=> Len(s) <= Len(f) /\ \A k \in 1..Len(s) : s[k] = f[k]
  BY <1>3, PrefixIs
<1>7. IsPrefix(s, t) => s = t \/ IsPrefix(s, f)
  <2>1. SUFFICES ASSUME IsPrefix(s, t), s # t PROVE IsPrefix(s, f)
    OBVIOUS
  <2>2. Len(s) # Len(t)
    BY <1>6, <2>1, SeqEqual
  <2>3. QED
    BY <1>1, <1>2, <1>3, <1>6, <2>1, <2>2
<1>8. QED
  BY <1>1, <1>2, <1>3, <1>4, <1>5, <1>7

-----------------------------------------------------------------------------
(* The copy of a request file whose images are gone. *)

Keys(file) == UNION {Range(v.path) : v \in file}

(* The value v in the copy, and the placeholder for it. *)
Entry(file, v) ==
    [path |-> v.path, value |-> IF IsData(file, v) THEN "[image]" ELSE v.value, lines |-> <<>>]
Mark(i) == [path |-> i.path, value |-> "[compressed]", lines |-> <<i.start + 1, i.end + 1>>]

LEMMA TreeIs ==
    ASSUME NEW file, IsTree(file)
    PROVE  /\ \A v \in file : v.path \in Seq(Keys(file))
           /\ \A v, w \in file : v.path = w.path => v = w
           /\ \A v \in file : v.path # <<>> =>
                \E w \in file : w.path = Front(v.path) /\ isContainer(w)
           /\ \A v \in file : IsData(file, v) => ~isContainer(v)
<1>1. ASSUME NEW v \in file PROVE v.path \in Seq(Keys(file))
  <2>1. v.path \in Seq(Range(v.path)) /\ Range(v.path) \subseteq Keys(file)
    BY DEF IsTree, Keys
  <2>2. QED
    BY <2>1, SeqMonotonic
<1>2. \A v, w \in file : v.path = w.path => v = w
  BY DEF IsTree
<1>3. ASSUME NEW v \in file, IsData(file, v) PROVE ~isContainer(v)
  <2>1. PICK w \in file : OuterImage(file, w) /\ v.path = w.path \o <<"source", "data">>
    BY <1>3 DEF IsData
  <2>2. PICK u \in file : u.path = w.path \o <<"source", "data">> /\ ~isContainer(u)
    BY <2>1 DEF OuterImage, IsImage
  <2>3. u = v
    BY <1>2, <2>1, <2>2
  <2>4. QED
    BY <2>2, <2>3
<1>4. QED
  BY <1>1, <1>2, <1>3 DEF IsTree

(* replaceImageBlocks on the copy of a file. *)
LEMMA ImagesReplaced ==
    ASSUME NEW file
    PROVE  replaceImageBlocks(Copied(file)) = {Entry(file, v) : v \in file}
<1> DEFINE copy == Copied(file)
           Plain(v) == [path |-> v.path, value |-> v.value, lines |-> <<>>]
           images == {v.path : v \in {w \in copy : IsImage(copy, w.path)}}
           outer == {p \in images : ~\E q \in images : IsStrictPrefix(q, p)}
           data == {p \o <<"source", "data">> : p \in outer}
           Out(v) == IF v.path \in data THEN [v EXCEPT !.value = "[image]"] ELSE v
<1>1. copy = {Plain(v) : v \in file}
  BY DEF Copied
<1>2. /\ \A e \in copy : \E v \in file : e.path = v.path /\ e.value = v.value
      /\ \A v \in file : \E e \in copy : e.path = v.path /\ e.value = v.value
  <2>1. \A v : Plain(v).path = v.path /\ Plain(v).value = v.value
    OBVIOUS
  <2> HIDE DEF Plain, copy
  <2>2. QED
    BY <1>1, <2>1
<1>3. \A p : IsImage(copy, p) <=> IsImage(file, p)
  <2> HIDE DEF copy
  <2>0. \A p, x : Has(copy, p, x) <=> Has(file, p, x)
    BY <1>2 DEF Has
  <2>1. ASSUME NEW p PROVE
          (\E v \in copy : v.path = p /\ ~isContainer(v) /\ v.value # "")
          <=> (\E v \in file : v.path = p /\ ~isContainer(v) /\ v.value # "")
    BY <1>2 DEF isContainer
  <2>2. QED
    BY <2>0, <2>1 DEF IsImage
<1>4. \A p : p \in images <=> \E w \in file : w.path = p /\ IsImage(file, p)
  <2>1. \A p : p \in images <=> \E w \in copy : w.path = p /\ IsImage(copy, p)
    OBVIOUS
  <2> HIDE DEF copy, images
  <2>2. QED
    BY <1>2, <1>3, <2>1
<1>5. \A w \in file : w.path \in outer <=> OuterImage(file, w)
  <2> HIDE DEF copy, images
  <2>1. QED
    BY <1>4 DEF OuterImage
<1>6. \A v \in file : v.path \in data <=> IsData(file, v)
  <2>1. \A p \in outer : \E w \in file : w.path = p
    <3> HIDE DEF copy, images
    <3>1. QED
      BY <1>4
  <2>2. \A v : v.path \in data <=> \E p \in outer : v.path = p \o <<"source", "data">>
    OBVIOUS
  <2> HIDE DEF outer, data
  <2>3. QED
    BY <1>5, <2>1, <2>2 DEF IsData
<1>7. \A v \in file : Out(Plain(v)) = Entry(file, v)
  <2> HIDE DEF data
  <2>1. QED
    BY <1>6 DEF Entry
<1>8. replaceImageBlocks(copy) = {Out(v) : v \in copy}
  BY DEF replaceImageBlocks
<1> HIDE DEF copy, Plain, Out
<1>9. replaceImageBlocks(copy) = {Entry(file, v) : v \in file}
  BY <1>1, <1>7, <1>8
<1>10. QED
  BY <1>9 DEF copy

LEMMA FaithfulIs ==
    ASSUME NEW file, NEW items
    PROVE  \A e : e \in FaithfulCopy(file, items) <=>
                    \/ \E v \in file : ~Within(v.path, items) /\ e = Entry(file, v)
                    \/ \E i \in Outermost(items) : e = Mark(i)
BY DEF FaithfulCopy, Entry, Mark

LEMMA EntryIs ==
    ASSUME NEW file, NEW v
    PROVE  /\ Entry(file, v).path = v.path /\ Entry(file, v).value \in {v.value, "[image]"}
           /\ ~IsData(file, v) => Entry(file, v).value = v.value
           /\ Mark(v).path = v.path /\ ~isContainer(Mark(v))
BY DEF Entry, Mark, isContainer

(* Within one long tool result more: setJsonValueByPointer does nothing    *)
(* below another one, and takes away what it is above of.                  *)
LEMMA MarkAdded ==
    ASSUME NEW file, IsTree(file), NEW s \in SUBSET file, \A v \in s : v.path # <<>>,
           NEW x \in s
    PROVE  setJsonValueByPointer(FaithfulCopy(file, s \ {x}), Placeholder(x)) = FaithfulCopy(file, s)
<1> DEFINE r == s \ {x}
           old == FaithfulCopy(file, r)
           new == Mark(x)
           parent == Front(x.path)
           K == Keys(file)
<1>1. /\ \A v \in file : v.path \in Seq(K)
      /\ \A v, w \in file : v.path = w.path => v = w
      /\ \A v \in file : IsData(file, v) => ~isContainer(v)
  BY TreeIs
<1>2. PICK w \in file : w.path = parent /\ isContainer(w)
  BY TreeIs
<1>3. Placeholder(x) = new /\ new.path = x.path /\ x.path \in Seq(K) /\ parent \in Seq(K)
  BY <1>1, <1>2, EntryIs DEF Placeholder, Mark
<1>4. /\ \A p, q, t \in Seq(K) : IsPrefix(p, q) /\ IsPrefix(q, t) => IsPrefix(p, t)
      /\ \A p, q \in Seq(K) : IsPrefix(p, p) /\ (IsPrefix(p, q) /\ IsPrefix(q, p) => p = q)
  BY PrefixOrder
<1>5. /\ IsPrefix(parent, x.path) /\ ~IsPrefix(x.path, parent)
      /\ \A p \in Seq(K) : IsPrefix(p, x.path) => p = x.path \/ IsPrefix(p, parent)
  BY <1>3, FrontIs
<1>6. /\ \A e : e \in old <=> \/ \E v \in file : ~Within(v.path, r) /\ e = Entry(file, v)
                              \/ \E i \in Outermost(r) : e = Mark(i)
      /\ \A e : e \in FaithfulCopy(file, s) <=>
                   \/ \E v \in file : ~Within(v.path, s) /\ e = Entry(file, v)
                   \/ \E i \in Outermost(s) : e = Mark(i)
  <2> HIDE DEF r
  <2>1. \A e : e \in old <=> \/ \E v \in file : ~Within(v.path, r) /\ e = Entry(file, v)
                           \/ \E i \in Outermost(r) : e = Mark(i)
    BY FaithfulIs
  <2>2. QED
    BY <2>1, FaithfulIs
<1>7. Outermost(r) \subseteq r /\ r \subseteq file /\ x \notin r
  BY DEF Outermost
<1>8. \A v : Within(v.path, s) <=> Within(v.path, r) \/ IsPrefix(x.path, v.path)
  BY DEF Within
<1> DEFINE hasParent == \E e \in old : e.path = parent /\ isContainer(e)
<1>9. setJsonValueByPointer(old, new) =
        IF hasParent THEN {e \in old : ~IsPrefix(x.path, e.path)} \cup {new} ELSE old
  <2> HIDE DEF new, old
  <2>1. QED
    BY <1>3 DEF setJsonValueByPointer
<1> HIDE DEF old, new, parent, K, r
<1>10. CASE \E y \in r : IsPrefix(y.path, x.path)
  <2>1. PICK y \in r : IsPrefix(y.path, x.path)
    BY <1>10
  <2>2. y \in file /\ y.path \in Seq(K) /\ y.path # x.path /\ IsPrefix(y.path, parent)
    BY <1>1, <1>3, <1>5, <1>7, <2>1
  <2>3. ~hasParent
    <3>1. SUFFICES ASSUME NEW e \in old, e.path = parent PROVE ~isContainer(e)
      OBVIOUS
    <3>2. ASSUME NEW v \in file, ~Within(v.path, r), e = Entry(file, v) PROVE FALSE
      <4>1. v.path = parent
        BY <3>1, <3>2, EntryIs
      <4>2. QED
        BY <2>1, <2>2, <3>2, <4>1 DEF Within
    <3>3. QED
      BY <1>6, <3>2, EntryIs
  <2>4. \A v \in file : Within(v.path, s) <=> Within(v.path, r)
    <3>1. ASSUME NEW v \in file, IsPrefix(x.path, v.path) PROVE Within(v.path, r)
      <4>1. IsPrefix(y.path, v.path)
        BY <1>1, <1>3, <1>4, <2>1, <2>2, <3>1
      <4>2. QED
        BY <4>1 DEF Within
    <3>2. QED
      BY <1>8, <3>1
  <2>5. Outermost(s) = Outermost(r)
    <3>1. x \notin Outermost(s)
      BY <2>1, <2>2 DEF Outermost, IsStrictPrefix, r
    <3>2. ASSUME NEW i \in r, IsStrictPrefix(x.path, i.path) PROVE IsStrictPrefix(y.path, i.path)
      <4>1. i.path \in Seq(K) /\ IsPrefix(x.path, i.path)
        BY <1>1, <1>7, <3>2 DEF IsStrictPrefix
      <4>2. IsPrefix(y.path, i.path)
        BY <1>3, <1>4, <2>1, <2>2, <4>1
      <4>3. y.path # i.path
        BY <1>3, <1>4, <2>1, <2>2, <4>1
      <4>4. QED
        BY <4>2, <4>3 DEF IsStrictPrefix
    <3>3. s = r \cup {x}
      BY DEF r
    <3> HIDE DEF r
    <3>4. \A i \in r : i \in Outermost(s) <=> i \in Outermost(r)
      BY <3>2, <3>3 DEF Outermost
    <3>5. QED
      BY <1>7, <3>1, <3>3, <3>4 DEF Outermost
  <2>6. FaithfulCopy(file, s) = old
    BY <1>6, <2>4, <2>5
  <2>7. QED
    BY <1>3, <1>9, <2>3, <2>6 DEF old, r
<1>11. CASE ~\E y \in r : IsPrefix(y.path, x.path)
  <2>1. ~Within(parent, r)
    BY <1>1, <1>3, <1>4, <1>5, <1>7, <1>11 DEF Within
  <2>2. hasParent
    <3>1. Entry(file, w) \in old
      BY <1>2, <1>6, <2>1
    <3>2. Entry(file, w).path = parent /\ Entry(file, w).value = w.value
      BY <1>1, <1>2, EntryIs
    <3>3. QED
      BY <1>2, <3>1, <3>2 DEF isContainer
  <2>3. \A i \in r : i \in Outermost(s) <=> i \in Outermost(r) /\ ~IsPrefix(x.path, i.path)
    <3>1. \A i \in r : IsPrefix(x.path, i.path) <=> IsStrictPrefix(x.path, i.path)
      BY <1>1, <1>7 DEF IsStrictPrefix
    <3>2. s = r \cup {x}
      BY DEF r
    <3>3. QED
      BY <3>1, <3>2 DEF Outermost
  <2>4. x \in Outermost(s)
    BY <1>11 DEF Outermost, IsStrictPrefix, r
  <2>5. Outermost(s) = {i \in Outermost(r) : ~IsPrefix(x.path, i.path)} \cup {x}
    BY <1>7, <2>3, <2>4 DEF Outermost, r
  <2>6. \A e : e \in FaithfulCopy(file, s) <=> (e \in old /\ ~IsPrefix(x.path, e.path)) \/ e = new
    <3>1. ASSUME NEW e PROVE
            (\E i \in Outermost(s) : e = Mark(i))
            <=> e = new \/ (~IsPrefix(x.path, e.path) /\ \E i \in Outermost(r) : e = Mark(i))
      BY <2>5, EntryIs DEF new
    <3>2. ASSUME NEW e PROVE
            (\E v \in file : ~Within(v.path, s) /\ e = Entry(file, v))
            <=> ~IsPrefix(x.path, e.path) /\ \E v \in file : ~Within(v.path, r) /\ e = Entry(file, v)
      BY <1>8, EntryIs
    <3>3. QED
      BY <1>6, <3>1, <3>2
  <2>7. QED
    BY <1>3, <1>9, <2>2, <2>6 DEF old, r
<1>12. QED
  BY <1>10, <1>11

LessThan == {p \in Nat \X Nat : p[1] < p[2]}

LEMMA LeastExists ==
    ASSUME NEW S, S \subseteq Nat, S # {}
    PROVE  \E n \in S : n \in Nat /\ \A m \in S : n <= m
<1>1. LessThan = OpToRel(<, Nat)
  BY DEF OpToRel, LessThan
<1>2. IsWellFoundedOn(LessThan, Nat)
  BY <1>1, NatLessThanWellFounded
<1>3. PICK n \in S : \A m \in S : ~(<<m, n>> \in LessThan)
  BY <1>2, WFMin
<1>4. n \in Nat /\ \A m \in S : m \in Nat /\ ~(m < n)
  BY <1>3 DEF LessThan
<1>5. \A m \in S : n <= m
  BY <1>4
<1>6. QED
  BY <1>4, <1>5

(* G goes from each set of items to the one with one more, whichever. *)
Folds(G, copy, items) ==
    /\ G[{}] = copy
    /\ \A s \in SUBSET items : \A x \in s :
          G[s] = setJsonValueByPointer(G[s \ {x}], Placeholder(x))

(* The fold that puts the placeholders in is the only such function: else  *)
(* take a least set on which they differ.                                  *)
LEMMA FoldIs ==
    ASSUME NEW copy, NEW items, IsFiniteSet(items), NEW G, Folds(G, copy, items)
    PROVE  WithPlaceholders(copy, items) = G[items]
<1> DEFINE first(s) == CHOOSE x \in s : TRUE
           Iter(f) == f = [s \in SUBSET items |->
                             IF s = {} THEN copy
                             ELSE setJsonValueByPointer(f[s \ {first(s)}], Placeholder(first(s)))]
           iter == CHOOSE f : Iter(f)
<1>1. WithPlaceholders(copy, items) = iter[items]
  BY DEF WithPlaceholders, FoldSet, MapThenFoldSet
<1>2. \A s : s # {} => first(s) \in s
  OBVIOUS
<1> HIDE DEF first
<1>3. \E f : Iter(f)
  <2> DEFINE g == [s \in SUBSET items |-> G[s]]
  <2>1. ASSUME NEW s \in SUBSET items
        PROVE  g[s] = IF s = {} THEN copy
                      ELSE setJsonValueByPointer(g[s \ {first(s)}], Placeholder(first(s)))
    <3>1. s # {} => s \ {first(s)} \in SUBSET items /\ g[s \ {first(s)}] = G[s \ {first(s)}]
      OBVIOUS
    <3>2. s # {} => G[s] = setJsonValueByPointer(G[s \ {first(s)}], Placeholder(first(s)))
      BY <1>2 DEF Folds
    <3>3. QED
      BY <3>1, <3>2 DEF Folds
  <2>2. g = [s \in SUBSET items |-> g[s]]
    OBVIOUS
  <2> HIDE DEF g
  <2>3. Iter(g)
    BY <2>1, <2>2
  <2>4. QED
    BY <2>3
<1>4. Iter(iter)
  <2> HIDE DEF Iter
  <2>1. QED
    BY <1>3
<1> HIDE DEF iter
<1>5. \A s \in SUBSET items :
        iter[s] = IF s = {} THEN copy
                  ELSE setJsonValueByPointer(iter[s \ {first(s)}], Placeholder(first(s)))
  BY <1>4
<1> DEFINE wrong == {s \in SUBSET items : iter[s] # G[s]}
           sizes == {Cardinality(s) : s \in wrong}
<1>6. \A s \in SUBSET items : IsFiniteSet(s) /\ Cardinality(s) \in Nat
  BY FS_Subset, FS_CardinalityType
<1>7. wrong = {}
  <2>1. SUFFICES ASSUME wrong # {} PROVE FALSE
    OBVIOUS
  <2>2. sizes \subseteq Nat /\ sizes # {}
    BY <1>6, <2>1
  <2>3. PICK n \in sizes : \A m \in sizes : n <= m
    BY <2>2, LeastExists
  <2>4. PICK s \in wrong : Cardinality(s) = n
    BY <2>3
  <2>5. s # {}
    BY <1>5, <2>4 DEF Folds
  <2> DEFINE x == first(s)
             t == s \ {x}
  <2>6. x \in s /\ t \in SUBSET items /\ Cardinality(t) = Cardinality(s) - 1
    BY <1>2, <1>6, <2>4, <2>5, FS_RemoveElement
  <2>7. t \notin wrong
    BY <1>6, <2>2, <2>3, <2>4, <2>6
  <2>8. iter[t] = G[t] /\ G[s] = setJsonValueByPointer(G[t], Placeholder(x))
    BY <2>4, <2>6, <2>7 DEF Folds
  <2>9. QED
    BY <1>5, <2>4, <2>5, <2>8
<1>8. QED
  BY <1>1, <1>7

LEMMA CompressedIs ==
    ASSUME NEW file, IsTree(file), NEW items \in SUBSET file, \A v \in items : v.path # <<>>
    PROVE  CompressedRequest(file, items) = FaithfulCopy(file, items)
<1> DEFINE G == [s \in SUBSET items |-> FaithfulCopy(file, s)]
           copy == replaceImageBlocks(Copied(file))
<1>1. FaithfulCopy(file, {}) = copy
  <2>1. copy = {Entry(file, v) : v \in file}
    BY ImagesReplaced
  <2>2. (\A p : ~Within(p, {})) /\ Outermost({}) = {}
    BY DEF Within, Outermost
  <2>3. \A e : e \in FaithfulCopy(file, {}) <=> \E v \in file : e = Entry(file, v)
    BY <2>2, FaithfulIs
  <2> HIDE DEF copy
  <2>4. QED
    BY <2>1, <2>3
<1>2. ASSUME NEW s \in SUBSET items, NEW x \in s
      PROVE  G[s] = setJsonValueByPointer(G[s \ {x}], Placeholder(x))
  <2>1. s \ {x} \in SUBSET items /\ s \in SUBSET file /\ \A v \in s : v.path # <<>>
    OBVIOUS
  <2>2. G[s] = FaithfulCopy(file, s) /\ G[s \ {x}] = FaithfulCopy(file, s \ {x})
    BY <2>1
  <2> HIDE DEF G
  <2>3. QED
    BY <2>1, <2>2, MarkAdded
<1>3. G[{}] = copy /\ G[items] = FaithfulCopy(file, items)
  BY <1>1
<1> HIDE DEF G, copy
<1>4. Folds(G, copy, items)
  BY <1>2, <1>3 DEF Folds
<1>5. IsFiniteSet(items)
  BY FS_Subset DEF IsTree
<1>6. WithPlaceholders(copy, items) = G[items]
  BY <1>4, <1>5, FoldIs
<1>7. QED
  BY <1>3, <1>6 DEF CompressedRequest, copy

-----------------------------------------------------------------------------
THEOREM Invariant == Spec => []IInv
<1>1. Init => IInv
  BY InitHolds
<1>2. IInv /\ [Next]_vars => IInv'
  BY StepHolds
<1>3. QED
  BY <1>1, <1>2, PTL DEF Spec

(* The text shown is of the file whose path is above it, whenever the      *)
(* answers to openSourceFile come and whichever of them is the last.       *)
THEOREM PathIsContents == Spec => []PathMatchesContent
<1>1. IInv => PathMatchesContent
  BY DEF IInv
<1>2. QED
  BY <1>1, Invariant, PTL

(* JsonTreeViewer has at most one editor and it has the contents rendered  *)
(* last; RawJsonViewer looks for paths among their values, and finds the   *)
(* one that a line belongs to.                                             *)
THEOREM ViewersAreFaithful == Spec => []ViewersShowContent
<1>1. IInv => ViewersShowContent
  <2> SUFFICES ASSUME IInv PROVE ViewersShowContent
    OBVIOUS
  <2>1. TreeSound /\ RawSound /\ Types
    BY DEF IInv, ViewersSound
  <2>2. EffectsRan => mounted.view = View /\ (View # "none" => mounted.content = content)
    BY RenderedIs DEF EffectsRan
  <2>3. EditorShowsContent /\ OneEditor
    BY <2>1, <2>2 DEF EditorShowsContent, TreeSound
  <2>4. EntriesOfContent
    BY <2>1, <2>2 DEF EntriesOfContent, RawSound
  <2>5. StickyOfLine
    BY <2>1, StickyIs DEF StickyOfLine, RawSound
  <2>6. QED
    BY <2>3, <2>4, <2>5 DEF ViewersShowContent
<1>2. QED
  BY <1>1, Invariant, PTL

(* buildCompressedRequestCopyText: whatever request is copied and whichever *)
(* tool results are too long, one within another among them, the copy lacks *)
(* nothing but these and the data of images, and names the lines they take. *)
THEOREM CopiesAreFaithful == Spec => []CopyFaithful
<1>1. Init => CopyFaithful
  BY DEF Init, NoCopy, CopyFaithful
<1>2. CopyFaithful /\ [Next]_vars => CopyFaithful'
  <2> SUFFICES ASSUME CopyFaithful, [Next]_vars PROVE CopyFaithful'
    OBVIOUS
  <2>1. ASSUME NEW f \in DOMAIN Json, CopyCompressedRequest(f) PROVE CopyFaithful'
    <3>1. PICK items \in SUBSET {v \in Json[f] : v.path # <<>> /\ Last(v.path) \in {"content", "output"}} :
            copied' = [of |-> f, items |-> items, text |-> CompressedRequest(Json[f], items)]
      BY <2>1 DEF CopyCompressedRequest
    <3>2. items \in SUBSET Json[f] /\ \A v \in items : v.path # <<>>
      OBVIOUS
    <3>3. CompressedRequest(Json[f], items) = FaithfulCopy(Json[f], items)
      BY <3>2, CompressedIs, TreeAssumption
    <3>4. QED
      BY <3>1, <3>3 DEF CopyFaithful
  <2>2. ASSUME copied' = copied PROVE CopyFaithful'
    BY <2>2 DEF CopyFaithful
  <2>3. CASE Next
    <3>1. ASSUME NEW f \in File, onViewSourceFile(f) PROVE copied' = copied
      BY <3>1 DEF onViewSourceFile
    <3>2. ASSUME Close \/ \E m \in {"raw", "rendered"} : SetMode(m) PROVE copied' = copied
      BY <3>2 DEF Close, SetMode
    <3>3. ASSUME RunEffects \/ ReadStep \/ ImportStep PROVE copied' = copied
      BY <3>3 DEF RunEffects, ReadStep, ReadAnswered, ReadFails, ImportStep, ImportDone, ImportFails
    <3>4. QED
      BY <2>1, <2>2, <2>3, <3>1, <3>2, <3>3 DEF Next
  <2>4. QED
    BY <2>2, <2>3 DEF vars
<1>3. QED
  BY <1>1, <1>2, PTL DEF Spec
=============================================================================
