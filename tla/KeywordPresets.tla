--------------------------- MODULE KeywordPresets ---------------------------
(* The keyword presets of the inspector on top of its page: the stored file  *)
(* (keyword_presets.py), the page's copy of it, and the commands that use    *)
(* and change it.  Every change sends the WHOLE list, computed from the      *)
(* page's copy; the answer replaces the copy.  The buttons stay enabled      *)
(* while a save is in flight.                                                *)
EXTENDS Inspector, SequencesExt

CONSTANTS
  PresetId,       \* ids of presets; a created one gets an unused id
  NoPreset,       \* null, and '' for the chosen preset
  Files           \* what the file may hold when the page is opened

VARIABLES
  presets,        \* keywordPresetState: the page's copy
  chosen,         \* selectedKeywordPresetId
  stored,         \* the file's contents
  calls,          \* requests about presets that the page has not handled yet
  steady          \* history: no call failed, and no two were in flight at once

presetVars == <<presets, chosen, stored, calls, steady>>
allVars == <<vars, presetVars>>

Preset == [id : PresetId, words : Words]
File == [default : PresetId \cup {NoPreset}, items : Seq(Preset)]

ASSUME FilesAssumption == Files \subseteq File /\ NoPreset \notin PresetId

NoPresets == [default |-> NoPreset, items |-> <<>>]
Ids(p) == {p.items[i].id : i \in DOMAIN p.items}

\* A default that is not in the list is dropped.
Normalized(p) ==
  [p EXCEPT !.default = IF @ \in Ids(p) THEN @ ELSE NoPreset]

\* The preset of an id, if there is one.
Named(p, id) == {p.items[i] : i \in {j \in DOMAIN p.items : p.items[j].id = id}}

ApplyWords(words) == SetFilters(ui, [ui.filters EXCEPT !.words = words])

StartsWith(file) ==
  /\ Init
  /\ presets = NoPresets
  /\ chosen = NoPreset
  /\ stored = file
  /\ calls = {[id |-> 0, kind |-> "load", at |-> "sent", payload |-> NoPresets, pick |-> NoPreset]}
  /\ steady = TRUE

InitPresets == \E file \in Files : StartsWith(file)
-----------------------------------------------------------------------------
\* The server handles a call: it reads or replaces the file, and answers with
\* its contents in order.
ServerHandles(c) ==
  /\ c.at = "sent"
  /\ stored' = IF c.kind = "load" THEN stored ELSE Normalized(c.payload)
  /\ calls' = (calls \ {c}) \cup {[c EXCEPT !.at = "handled", !.payload = Normalized(stored')]}
  /\ UNCHANGED <<vars, presets, chosen, steady>>

\* A call fails, before or after the server handled it.  A failed load clears
\* the page's copy; a failed save changes nothing.
CallFails(c) ==
  /\ calls' = calls \ {c}
  /\ steady' = FALSE
  /\ IF c.kind = "load"
     THEN presets' = NoPresets /\ chosen' = NoPreset
     ELSE UNCHANGED <<presets, chosen>>
  /\ UNCHANGED <<vars, stored>>

\* The preset picked once a call is answered: by a load the default one or else
\* the first, by a creation the new one, by a deletion the new default.
\* A bug: only a load picks, so that a deletion leaves the deleted one chosen.
PickedByLoad(c) == IF c.kind = "load" THEN c.payload.default ELSE chosen
PickedBy(c) ==
  IF c.kind # "load" THEN c.pick
  ELSE IF c.payload.default \in Ids(c.payload) THEN c.payload.default
  ELSE IF c.payload.items # <<>> THEN Head(c.payload.items).id
  ELSE NoPreset

\* A load or a deletion puts the words of its pick into the filters, and a
\* deletion that leaves none clears them.
Applied(c) ==
  {preset.words : preset \in IF c.kind \in {"load", "delete"}
                             THEN Named(c.payload, PickedBy(c)) ELSE {}}
  \cup (IF c.kind = "delete" /\ c.pick = NoPreset THEN {""} ELSE {})

CallAnswered(c) ==
  /\ c.at = "handled"
  /\ calls' = calls \ {c}
  /\ presets' = c.payload
  /\ chosen' = IF c.kind = "update" THEN chosen ELSE PickedBy(c)
  /\ IF Applied(c) = {} THEN UNCHANGED <<ui, due>>
     ELSE \E words \in Applied(c) : ui' = ApplyWords(words) /\ due' = due \cup {"load"}
  /\ UNCHANGED <<timer, searchVars, loadVars, commands, stored, steady>>
-----------------------------------------------------------------------------
SelectPreset(id) ==
  /\ id \in Ids(presets) \cup {NoPreset}
  /\ chosen' = id
  /\ IF id \in Ids(presets)
     THEN \E preset \in Named(presets, id) : Command(ApplyWords(preset.words), {"load"})
     ELSE Command(ui, {})
  /\ UNCHANGED <<presets, stored, calls, steady>>

\* A save is sent; pick is what the page chooses when it is answered.
Save(kind, payload, pick) ==
  /\ Command(ui, {})
  /\ calls' = calls \cup {[id |-> commands', kind |-> kind, at |-> "sent",
                           payload |-> payload, pick |-> pick]}
  /\ steady' = (steady /\ calls = {})
  /\ UNCHANGED <<presets, chosen, stored>>

Fresh(id) ==
  /\ id \notin Ids(presets) \cup Ids(stored)
  /\ \A c \in calls : id # c.pick /\ id \notin Ids(c.payload)

CreatePreset(id) ==
  /\ Fresh(id)
  /\ Save("create",
          [default |-> id,
           items |-> Append(presets.items, [id |-> id, words |-> ui.filters.words])], id)

UpdatePreset ==
  /\ chosen \in Ids(presets)
  /\ Save("update",
          [default |-> IF presets.default = NoPreset THEN chosen ELSE presets.default,
           items |-> [i \in DOMAIN presets.items |->
                        IF presets.items[i].id = chosen
                        THEN [presets.items[i] EXCEPT !.words = ui.filters.words]
                        ELSE presets.items[i]]],
          chosen)

\* The presets without the chosen one, whose id no other has.
Remain ==
  IF chosen \in Ids(presets)
  THEN RemoveAt(presets.items, CHOOSE i \in DOMAIN presets.items : presets.items[i].id = chosen)
  ELSE presets.items

DeletePreset ==
  /\ chosen # NoPreset
  /\ LET next == IF Remain = <<>> THEN NoPreset ELSE Head(Remain).id
     IN  Save("delete", [default |-> next, items |-> Remain], next)

PresetStep ==
  \/ \E id \in PresetId \cup {NoPreset} : SelectPreset(id)
  \/ \E id \in PresetId : CreatePreset(id)
  \/ UpdatePreset
  \/ DeletePreset

CallStep ==
  \E c \in calls : ServerHandles(c) \/ CallAnswered(c) \/ CallFails(c)

NextPresets ==
  \/ Next /\ UNCHANGED presetVars
  \/ PresetStep
  \/ CallStep

\* The page's tasks run and every request ends: with an answer or a failure.
Fairness ==
  /\ WF_allVars(RunEffects /\ UNCHANGED presetVars)
  /\ WF_allVars(TimerFires /\ UNCHANGED presetVars)
  /\ WF_allVars((\E r \in searches : SessionsAnswered(r)) /\ UNCHANGED presetVars)
  /\ WF_allVars((\E r \in loads : TimelineAnswered(r)) /\ UNCHANGED presetVars)
  /\ WF_allVars(CallStep)

Spec == InitPresets /\ [][NextPresets]_allVars /\ Fairness
-----------------------------------------------------------------------------
\* The stored file and the page's copy keep their types under every command, as
\* does the page beneath them: the chosen preset is an id or none.
PresetsTypeOK ==
  /\ TypeOK
  /\ presets \in File /\ stored \in File
  /\ chosen \in PresetId \cup {NoPreset}
  /\ calls \subseteq [id : Nat, kind : {"load", "create", "update", "delete"},
                      at : {"sent", "handled"}, payload : File,
                      pick : PresetId \cup {NoPreset}]
  /\ steady \in BOOLEAN

\* When the page's calls were answered one at a time and none failed, the page
\* shows the presets the file holds and the chosen one is among them: the
\* lists that the three saves compute from the page's copy lose nothing.
PresetsSettled ==
  steady /\ calls = {}
  => presets = Normalized(stored) /\ chosen \in Ids(presets) \cup {NoPreset}

\* After the reader's last command the page comes to rest: no effect starts a
\* load whose answer starts another one (the answer's page number is written
\* back into the state that the search effect depends on).
AtRest ==
  /\ due = {} /\ timer = Nothing /\ calls = {}
  /\ ~ui.sessionsLoading /\ ~ui.timelineLoading

Settles == <>[]AtRest
=============================================================================
