----------------------------- MODULE LogFileView -----------------------------
(* The viewer of log files in the detail panel (DetailPanel.tsx): a modal that *)
(* reads a file and shows it as text, as text with the path of what is at the  *)
(* top (RawJsonViewer), or in a tree editor (JsonTreeViewer).  The editor and  *)
(* the parser that knows the lines are modules imported on demand.             *)
(*                                                                             *)
(* The modal covers the page: a file is opened when it is closed.  A read goes *)
(* on after that, and its answer is shown whenever it comes.                   *)
(* A click's effects run with it, those of an answer in a later task, yet      *)
(* before the next answer is rendered.                                         *)
(* Bound: MaxCommands, of the reader's clicks.                                 *)
EXTENDS RequestCopy

CONSTANTS
  File,           \* paths of log files
  Json,           \* of those, the ones that parse, with their values
  NoFile, MaxCommands

ASSUME FilesAssumption == NoFile \notin File /\ DOMAIN Json \subseteq File

ASSUME TreeAssumption == \A f \in DOMAIN Json : IsTree(Json[f])

\* JSON is an object or an array that is written with an indent, so that nothing
\* else starts on its first line, or all on one line.
ASSUME LaidOutAssumption ==
  \A f \in DOMAIN Json : \E root \in Json[f] :
    /\ root.path = <<>> /\ isContainer(root) /\ root.start \in Nat
    /\ \A v \in Json[f] : /\ v.start \in Nat /\ v.end \in Nat
                          /\ root.start <= v.start /\ v.start <= v.end /\ v.end <= root.end
    /\ \/ \A v \in Json[f] : v.start = root.start
       \/ \A v \in Json[f] \ {root} : root.start < v.start

VARIABLES
  open, mode, loading,
  path, content,  \* viewerPath, and the file whose text is in viewerContent
  error,          \* viewerError: the file that could not be read
  reads,          \* reads in flight
  mounted,        \* the viewer, and its contents, whose effects ran last
  imports,        \* modules on their way, for the viewer that wants them
  editor,         \* what the tree editor was given last
  editors,        \* number of tree editors that exist
  noEditor,       \* loadError of the tree
  entries,        \* pathEntriesRef of the raw view: the file they are of
  copied,         \* history: the request copied last, and the text
  commands

vars == <<open, mode, loading, path, content, error, reads, mounted, imports,
          editor, editors, noEditor, entries, copied, commands>>
modalVars == <<open, mode, loading, path, content, error>>
viewerVars == <<mounted, imports, editor, editors, noEditor, entries>>

NoCopy == [of |-> NoFile, items |-> {}, text |-> {}]

Init ==
  /\ open = FALSE /\ mode = "rendered" /\ loading = FALSE
  /\ path = NoFile /\ content = NoFile /\ error = NoFile /\ reads = {}
  /\ mounted = [view |-> "none", content |-> NoFile]
  /\ imports = {} /\ editor = NoFile /\ editors = 0 /\ noEditor = FALSE
  /\ entries = NoFile
  /\ copied = NoCopy
  /\ commands = 0

\* Which viewer is rendered; the text view has no effects.
View ==
  CASE ~open \/ loading \/ error # NoFile -> "none"
    [] OTHER -> IF content \notin DOMAIN Json THEN "none"
                ELSE IF mode = "raw" THEN "raw" ELSE "tree"
Rendered == [view |-> View, content |-> IF View = "none" THEN NoFile ELSE content]
-----------------------------------------------------------------------------
\* Effects of the tree: its editor is made once it is mounted, gets the contents
\* that change, and is destroyed with it.  A bug: it is left behind.
TreeEffectsLeaving(m) ==
  /\ editor' = IF m.view # "tree" THEN NoFile ELSE IF editor = NoFile THEN NoFile ELSE m.content
  /\ UNCHANGED editors
  /\ noEditor' = (noEditor /\ m.view = "tree")
TreeEffects(m) ==
  /\ editor' = IF m.view # "tree" THEN NoFile ELSE IF editor = NoFile THEN NoFile ELSE m.content
  /\ editors' = IF m.view # "tree" /\ editor # NoFile THEN editors - 1 ELSE editors
  /\ noEditor' = (noEditor /\ m.view = "tree")

\* Effects of the raw view: it forgets its entries when it is unmounted, and
\* otherwise keeps them until those of new contents come.
RawEffects(m) == entries' = IF m.view # "raw" THEN NoFile ELSE entries

\* The module wanted by the viewer m: by the tree when it is mounted, by the raw
\* view for all contents.  A bug: by the raw view only when it is mounted.
WantedOnMount(m) == m.view \notin {"none", mounted.view}
Wanted(m) == m.view \notin {"none", mounted.view} \/ m.view = "raw"

\* Imports of a viewer that is gone have no effect, so that they are left out;
\* the raw view cancels one for contents that it no longer shows.
Kept(m) ==
  IF m.view # mounted.view THEN {}
  ELSE IF m.view = "tree" THEN imports
  ELSE {[i EXCEPT !.live = FALSE] : i \in imports}

\* React runs the effects of what is rendered now.
RunEffectsOf(m) ==
  /\ mounted' = m
  /\ TreeEffects(m)
  /\ RawEffects(m)
  /\ imports' = Kept(m) \cup (IF Wanted(m) THEN {[for |-> m, live |-> TRUE]} ELSE {})

EffectsRan == mounted = Rendered

\* Whatever a click does to the modal, its effects run with it.
Clicked ==
  IF Rendered' = mounted THEN UNCHANGED viewerVars ELSE RunEffectsOf(Rendered')

RunEffects ==
  /\ ~EffectsRan
  /\ RunEffectsOf(Rendered)
  /\ UNCHANGED <<modalVars, reads, copied, commands>>

Command == EffectsRan /\ commands < MaxCommands /\ commands' = commands + 1
-----------------------------------------------------------------------------
\* A bug: the last file's contents stay until those of the new one come.
OpensKeeping(f) == path' = f /\ UNCHANGED content
Opens(f) == path' = f /\ content' = NoFile

onViewSourceFile(f) ==
  /\ Command
  /\ ~open
  /\ open' = TRUE /\ loading' = TRUE /\ error' = NoFile
  /\ Opens(f)
  /\ reads' = reads \cup {[n |-> commands', file |-> f]}
  /\ UNCHANGED <<mode, copied>>
  /\ Clicked

Close ==
  /\ Command
  /\ open
  /\ open' = FALSE
  /\ UNCHANGED <<mode, loading, path, content, error, reads, copied>>
  /\ Clicked

SetMode(m) ==
  /\ Command
  /\ open
  /\ mode' = m
  /\ UNCHANGED <<open, loading, path, content, error, reads, copied>>
  /\ Clicked

\* The answer of a read, whichever file was asked for last.  The error of a read
\* that failed stays.  A bug: the path is not taken from the answer.
AnsweredWithoutPath(f) == content' = f /\ UNCHANGED path
Answered(f) == path' = f /\ content' = f

ReadAnswered(r) ==
  /\ EffectsRan
  /\ reads' = reads \ {r}
  /\ loading' = FALSE
  /\ Answered(r.file)
  /\ UNCHANGED <<open, mode, error, viewerVars, copied, commands>>

\* A bug: only an answer ends "loading".
FailedStillLoading(f) == error' = f /\ content' = NoFile /\ UNCHANGED loading
Failed(f) == error' = f /\ content' = NoFile /\ loading' = FALSE

ReadFails(r) ==
  /\ EffectsRan
  /\ reads' = reads \ {r}
  /\ Failed(r.file)
  /\ UNCHANGED <<open, mode, path, viewerVars, copied, commands>>

\* The tree shows the contents last rendered; a bug: those it was mounted with.
MountedContents(i) == i.for.content
LatestContents(i) == content

\* A module is there.  What a cancelled import brings is not used, and the tree
\* has lost its container when another view was rendered.
ImportDone(i) ==
  /\ imports' = imports \ {i}
  /\ IF ~i.live \/ i.for.view # View THEN UNCHANGED <<editor, editors, noEditor, entries>>
     ELSE IF i.for.view = "tree"
     THEN /\ editor' = LatestContents(i) /\ editors' = editors + 1 /\ noEditor' = FALSE
          /\ UNCHANGED entries
     ELSE entries' = i.for.content /\ UNCHANGED <<editor, editors, noEditor>>
  /\ UNCHANGED <<modalVars, reads, mounted, copied, commands>>

\* A failure empties the entries even when the import was cancelled.
ImportFails(i) ==
  /\ imports' = imports \ {i}
  /\ noEditor' = (noEditor \/ (i.live /\ i.for.view = "tree"))
  /\ entries' = IF i.for.view = "raw" THEN NoFile ELSE entries
  /\ UNCHANGED <<modalVars, reads, mounted, editor, editors, copied, commands>>

\* A request is copied; the server found some tool results too long.
CopyCompressedRequest(f) ==
  /\ Command
  /\ ~open
  /\ \E items \in SUBSET {v \in Json[f] : v.path # <<>> /\ Last(v.path) \in {"content", "output"}} :
       copied' = [of |-> f, items |-> items, text |-> CompressedRequest(Json[f], items)]
  /\ UNCHANGED <<modalVars, reads, viewerVars>>

ReadStep == \E r \in reads : ReadAnswered(r) \/ ReadFails(r)
ImportStep == \E i \in imports : ImportDone(i) \/ ImportFails(i)

Next ==
  \/ \E f \in File : onViewSourceFile(f)
  \/ Close
  \/ \E m \in {"raw", "rendered"} : SetMode(m)
  \/ \E f \in DOMAIN Json : CopyCompressedRequest(f)
  \/ RunEffects
  \/ ReadStep
  \/ ImportStep

Spec == Init /\ [][Next]_vars
-----------------------------------------------------------------------------
\* The text in the viewer is that of the file whose path is above it, although
\* answers come late, and after the reader has opened another file; and it says
\* that it is loading only while a read is on its way.
PathMatchesContent ==
  /\ content # NoFile => path = content
  /\ loading => reads # {}

\* The tree editor shows the contents rendered last, whether they came before or
\* after its module did.
EditorShowsContent == EffectsRan /\ editor # NoFile => View = "tree" /\ editor = content

\* No editor is left behind when its viewer goes, or made for a viewer gone.
OneEditor == editors = IF editor = NoFile THEN 0 ELSE 1

\* Once the parser came, the raw view looks for paths among the values of the
\* contents it shows.
EntriesOfContent ==
  EffectsRan /\ View = "raw" /\ imports = {} => entries \in {content, NoFile}

\* On a line where one value starts, the path at the top is the one of that
\* value, or of the container it is directly in.
StickyOfLine ==
  entries # NoFile =>
    \A v \in Json[entries] :
      (\A w \in Json[entries] : w.start = v.start => w = v)
      => StickyPath(Json[entries], v.start) = stickySegments(v)

\* The four: whichever viewer is open shows the contents rendered last, whenever
\* its module and the contents came.
ViewersShowContent == EditorShowsContent /\ OneEditor /\ EntriesOfContent /\ StickyOfLine

\* The compressed copy has every value of the request, but for what is within a
\* long tool result, which names the lines it takes in the file, and the data of
\* images: nothing of them is left and nothing else is lost.
CopyFaithful ==
  copied.of # NoFile => copied.text = FaithfulCopy(Json[copied.of], copied.items)
=============================================================================
