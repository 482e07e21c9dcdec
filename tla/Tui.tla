-------------------------------- MODULE Tui --------------------------------
(***************************************************************************)
(* The terminal interface with its mapping editor (bin/masterbus-tui,      *)
(* app.rs and main.rs): one thread that handles keys and polls, a thread   *)
(* that learns who the devices are, and a worker for each tab that is      *)
(* discovered.  What is drawn where, and the text a key types, is left     *)
(* out; every device has the same tabs.                                    *)
(*                                                                         *)
(* Values, rows, edits and entries carry the device they are of, which the *)
(* program does not record but means.                                      *)
(***************************************************************************)
EXTENDS Integers, FiniteSets, Sequences, Functions

CONSTANTS Browsed,     \* the devices
          Heard,       \* those on the bus at start
          TabOrder,    \* TABS
          Tabs,        \* what each tab lists: its fields, by their kind
          Paths,       \* kinds of Signal K path one can type
          Loaded,      \* the mapping file as it was at start
          Mapped,      \* bound on the mapping: the rows anyone maps,
          MaxEntries,  \* and how many entries
          NoTui        \* where there is nothing

Kinds == {"read only", "switch", "number", "choice", "text", "other"}

\* In the file as it was, every entry is filed under the serial of its device.
ASSUME TuiAssumption ==
  /\ \A t \in Range(TabOrder) \ {"summary"} : Tabs[t] \in Seq(Kinds)
  /\ Heard \in Seq(Browsed) /\ NoTui \notin Browsed
  /\ \A e \in Loaded : e.serial = e.of

VARIABLES
  listed,     \* App.device_ids
  app,        \* the rest of App
  mapSession,    \* MappingSession: the mapping, and whether it is to be saved
  behind,     \* history: the file lacks a change of the mapping
  unheard,    \* history: a device was opened that did not say who it is
  astray      \* history: a write went to another device than the one whose row was edited

tuiVars == <<listed, app, mapSession, behind, unheard, astray>>

NothingOpen == [dev |-> 1, focus |-> "devices", cur |-> NoTui, info |-> NoTui, serial |-> NoTui,
          tab |-> "summary", loaded |-> {}, rows |-> NoTui, row |-> 0, values |-> {},
          sub |-> NoTui, pending |-> NoTui, editor |-> NoTui, modal |-> FALSE, login |-> NoTui,
          path |-> NoTui, prompt |-> NoTui, quit |-> FALSE]

TuiInit ==
  /\ listed = Heard
  /\ app = NothingOpen
  /\ mapSession = [map |-> Loaded, dirty |-> FALSE] /\ behind = FALSE
  /\ unheard = FALSE /\ astray = FALSE

Set(name, value) == app' = [app EXCEPT ![name] = value]

-----------------------------------------------------------------------------
(* The open device, its tabs and their rows.                               *)

RowsOf(d, t) == [device |-> d, tab |-> t]
HasRows == app.rows # NoTui /\ Tabs[app.rows.tab] # <<>>
Field(i) == <<app.rows.device, app.rows.tab, i>>
Selected == Field(app.row)
Kind == Tabs[app.rows.tab][app.row]

(* enter_summary: identity and access level are asked for; the serial      *)
(* stays what it was if the device does not answer.                        *)
Summary(a, answers) ==
  [a EXCEPT !.tab = "summary", !.sub = NoTui, !.rows = NoTui, !.row = 0,
            !.info = IF answers THEN a.cur ELSE NoTui,
            !.serial = IF answers THEN a.cur ELSE @]

SummaryAsked(a) ==
  \E answers \in BOOLEAN :
    /\ app' = Summary(a, answers)
    /\ unheard' = (unheard \/ ~answers)

(* show_groups: the rows, a subscription to all of them, and a read of the *)
(* first if the device answers.                                            *)
Shows(a, d, t, answers) ==
  LET some == Tabs[t] # <<>>
  IN [a EXCEPT !.rows = RowsOf(d, t), !.row = IF some THEN 1 ELSE 0,
               !.sub = IF some THEN RowsOf(d, t) ELSE NoTui,
               !.values = IF some /\ answers THEN {<<a.cur, t, 1>>} ELSE {}]

Asks(a, t) ==
  [a EXCEPT !.rows = NoTui, !.row = 0,
            !.pending = [device |-> a.cur, tab |-> t, is |-> "running"]]

(* switch_tab: a tab discovered before is shown at once.                   *)
SwitchTab(a, t) ==
  CASE t = "summary" -> SummaryAsked([a EXCEPT !.tab = t])
    [] t # "summary" /\ t \in a.loaded ->
         /\ \E answers \in BOOLEAN : app' = Shows([a EXCEPT !.tab = t], a.cur, t, answers)
         /\ UNCHANGED unheard
    [] OTHER ->
         /\ app' = Asks([a EXCEPT !.tab = t], t)
         /\ UNCHANGED unheard

-----------------------------------------------------------------------------
(* What happens between the keys.                                          *)

NoteAlive(d) ==
  /\ d \notin Range(listed)
  /\ listed' = Append(listed, d)
  /\ UNCHANGED <<app, mapSession, behind, unheard, astray>>

(* The worker of start_menu_discovery ends; a dropped one tells nobody.    *)
WorkerEnds(is) ==
  /\ app.pending # NoTui /\ app.pending.is = "running"
  /\ app' = [app EXCEPT !.pending.is = is]
  /\ UNCHANGED <<listed, mapSession, behind, unheard, astray>>

PollPending ==
  /\ app.pending # NoTui
  /\ \/ /\ app.pending.is = "groups"
        /\ \E answers \in BOOLEAN :
             app' = Shows([app EXCEPT !.pending = NoTui, !.loaded = @ \cup {app.pending.tab}],
                          app.pending.device, app.pending.tab, answers)
     \/ /\ app.pending.is = "failed"
        /\ app' = [app EXCEPT !.pending = NoTui, !.focus = "devices"]
  /\ UNCHANGED <<listed, mapSession, behind, unheard, astray>>

PumpSubscription ==
  /\ app.sub # NoTui
  /\ Set("values", app.values \cup
            {<<app.sub.device, app.sub.tab, i>> : i \in DOMAIN Tabs[app.sub.tab]})
  /\ UNCHANGED <<listed, mapSession, behind, unheard, astray>>

Between ==
  \/ \E d \in Browsed : NoteAlive(d)
  \/ WorkerEnds("groups") \/ WorkerEnds("failed")
  \/ PollPending \/ PumpSubscription

-----------------------------------------------------------------------------
(* Keys.  handle_key asks in this order whose they are.                    *)

Owner ==
  IF app.quit THEN "nobody"
  ELSE IF app.prompt # NoTui THEN "prompt"
  ELSE IF app.path # NoTui THEN "path"
  ELSE IF app.modal THEN "modal"
  ELSE IF app.editor # NoTui THEN "editor"
  ELSE IF app.login # NoTui THEN "login"
  ELSE IF app.pending # NoTui THEN "pending"
  ELSE app.focus

Browsing == Owner \in {"devices", "fields"}

MoveDevice ==
  /\ Owner = "devices" /\ listed # <<>>
  /\ \E i \in {app.dev - 1, app.dev + 1} \cap DOMAIN listed : Set("dev", i)
  /\ UNCHANGED <<listed, mapSession, behind, unheard, astray>>

OpenHighlighted ==
  /\ Owner = "devices" /\ app.dev \in DOMAIN listed
  /\ SummaryAsked([app EXCEPT !.cur = listed[app.dev], !.loaded = {}, !.values = {},
                              !.focus = "fields"])
  /\ UNCHANGED <<listed, mapSession, behind, astray>>

CycleTab ==
  /\ Owner = "fields" /\ app.cur # NoTui
  /\ \E i \in DOMAIN TabOrder, delta \in {1, Len(TabOrder) - 1} :
       /\ TabOrder[i] = app.tab
       /\ SwitchTab(app, TabOrder[((i + delta - 1) % Len(TabOrder)) + 1])
  /\ UNCHANGED <<listed, mapSession, behind, astray>>

(* ensure_value: a field whose value is not known is read.                 *)
WithValue(f, answers) == IF answers /\ app.cur # NoTui THEN {<<app.cur>> \o Tail(f)} ELSE {}

MoveRow ==
  /\ Owner = "fields" /\ HasRows
  /\ \E i \in {app.row - 1, app.row + 1} \cap DOMAIN Tabs[app.rows.tab], answers \in BOOLEAN :
       app' = [app EXCEPT !.row = i, !.values = @ \cup WithValue(Field(i), answers)]
  /\ UNCHANGED <<listed, mapSession, behind, unheard, astray>>

Reread ==
  /\ Owner = "fields" /\ HasRows
  /\ \E answers \in BOOLEAN :
       Set("values", (app.values \ {Selected}) \cup WithValue(Selected, answers))
  /\ UNCHANGED <<listed, mapSession, behind, unheard, astray>>

BackToDevices ==
  /\ Owner = "fields"
  /\ app' = [app EXCEPT !.focus = "devices", !.sub = NoTui, !.pending = NoTui, !.rows = NoTui,
                        !.loaded = {}, !.tab = "summary", !.info = NoTui, !.cur = NoTui]
  /\ UNCHANGED <<listed, mapSession, behind, unheard, astray>>

(* For comparison: the discovery goes on, and its answer is taken. *)
CancelAndKeepPending ==
  /\ Owner = "pending"
  /\ app' = [app EXCEPT !.cur = NoTui, !.focus = "devices"]
  /\ UNCHANGED <<listed, mapSession, behind, unheard, astray>>

CancelPending ==
  /\ Owner = "pending"
  /\ app' = [app EXCEPT !.pending = NoTui, !.cur = NoTui, !.focus = "devices"]
  /\ UNCHANGED <<listed, mapSession, behind, unheard, astray>>

(* open_values: the options of a list.                                     *)
OpenValues ==
  /\ Owner = "fields" /\ HasRows /\ Kind = "choice"
  /\ Set("modal", TRUE)
  /\ UNCHANGED <<listed, mapSession, behind, unheard, astray>>

CloseValues ==
  /\ Owner = "modal"
  /\ Set("modal", FALSE)
  /\ UNCHANGED <<listed, mapSession, behind, unheard, astray>>

-----------------------------------------------------------------------------
(* Editing a field on the device.                                          *)

WriteRow(a, f) ==
  IF a.cur = NoTui THEN app' = a /\ UNCHANGED astray
  ELSE /\ astray' = (astray \/ a.cur # f[1])
       /\ \E ok \in BOOLEAN :
            app' = [a EXCEPT !.values = @ \cup IF ok THEN {<<a.cur>> \o Tail(f)} ELSE {}]

(* begin_edit: a switch is written at once; a text only if its slot is     *)
(* known from the value.                                                   *)
BeginEdit ==
  /\ Owner = "fields" /\ HasRows
  /\ CASE Kind = "switch" -> WriteRow(app, Selected)
       [] Kind \in {"number", "choice"} \/ (Kind = "text" /\ Selected \in app.values) ->
            Set("editor", [field |-> Selected, kind |-> Kind]) /\ UNCHANGED astray
       [] OTHER -> UNCHANGED <<app, astray>>
  /\ UNCHANGED <<listed, mapSession, behind, unheard>>

CommitEdit ==
  /\ Owner = "editor"
  /\ LET closed == [app EXCEPT !.editor = NoTui]
     IN \E parses \in {TRUE, app.editor.kind # "number"} :
          IF parses THEN WriteRow(closed, app.editor.field) ELSE app' = closed /\ UNCHANGED astray
  /\ UNCHANGED <<listed, mapSession, behind, unheard>>

CancelEdit ==
  /\ Owner = "editor"
  /\ Set("editor", NoTui)
  /\ UNCHANGED <<listed, mapSession, behind, unheard, astray>>

-----------------------------------------------------------------------------
(* Logging in and out, at the open device or else the one highlighted.     *)

OpenLogin ==
  /\ Browsing /\ (app.cur # NoTui \/ app.dev \in DOMAIN listed)
  /\ Set("login", [device |-> IF app.cur # NoTui THEN app.cur ELSE listed[app.dev],
                   stage |-> "pick"])
  /\ UNCHANGED <<listed, mapSession, behind, unheard, astray>>

PickLevel ==
  /\ Owner = "login" /\ app.login.stage = "pick"
  /\ app' = [app EXCEPT !.login.stage = "password"]
  /\ UNCHANGED <<listed, mapSession, behind, unheard, astray>>

(* A logout, or a password: what the open device has shown is dropped,     *)
(* since another level may show other fields.                              *)
CommitLogin ==
  /\ Owner = "login"
  /\ LET closed == [app EXCEPT !.login = NoTui]
         fresh == [closed EXCEPT !.loaded = {}, !.values = {}, !.sub = NoTui]
     IN \/ app' = closed /\ UNCHANGED unheard
        \/ /\ app.login.device = app.cur
           /\ IF app.tab = "summary"
              THEN /\ \E answers \in BOOLEAN :
                        app' = [fresh EXCEPT !.info = IF answers THEN app.cur ELSE NoTui]
                   /\ UNCHANGED unheard
              ELSE SwitchTab([fresh EXCEPT !.rows = NoTui, !.row = 0], app.tab)
  /\ UNCHANGED <<listed, mapSession, behind, astray>>

CancelLogin ==
  /\ Owner = "login"
  /\ Set("login", NoTui)
  /\ UNCHANGED <<listed, mapSession, behind, unheard, astray>>

-----------------------------------------------------------------------------
(* The mapping editor.  An entry says under whose serial it is filed, of   *)
(* which device its field is, and which field.                              *)

Entries(serial, f) == {e \in mapSession.map : e.serial = serial /\ e.field = Tail(f)}

Behind == behind' = (behind \/ mapSession'.map # mapSession.map)

(* Whether the path is refused, for good or for want of a truth table.     *)
NeedsTruth(ed) == ed.labels /\ ed.path = "boolean" /\ ~ed.truth
PathRefused(ed) == ed.path = "refused"

BeginMap ==
  /\ Owner = "fields" /\ HasRows /\ app.serial # NoTui /\ Tail(Selected) \in Mapped
  /\ LET known == Entries(app.serial, Selected) # {}
     IN \E path \in Paths :
          Set("path", [field |-> Selected, labels |-> Kind = "choice", path |-> path,
                       truth |-> FALSE, existing |-> known, stage |-> "path", offered |-> FALSE])
  /\ UNCHANGED <<listed, mapSession, behind, unheard, astray>>

EditPath(ed) == Set("path", ed) /\ UNCHANGED <<listed, mapSession, behind, unheard, astray>>
AtStage(stage) == Owner = "path" /\ app.path.stage = stage

(* map_editor_char and the other keys that change the path.                *)
TypePath ==
  /\ AtStage("path")
  /\ \E path \in Paths : EditPath([app.path EXCEPT !.path = path])

OpenNotify ==
  /\ AtStage("path") /\ app.path.labels
  /\ EditPath([app.path EXCEPT !.stage = "notify", !.offered = TRUE])

(* A label at a time, until each is said to mean true or false.            *)
SetTruth ==
  /\ AtStage("truth")
  /\ \E complete \in {app.path.truth, TRUE} : EditPath([app.path EXCEPT !.truth = complete])

BackToPath ==
  /\ AtStage("truth") \/ AtStage("notify")
  /\ EditPath([app.path EXCEPT !.stage = "path"])

CancelMap ==
  /\ AtStage("path")
  /\ Set("path", NoTui)
  /\ UNCHANGED <<listed, mapSession, behind, unheard, astray>>

(* commit_map: the truth table is asked for if the path needs one, the     *)
(* notifications are offered once, and then the entry is filed.            *)
CommitMap ==
  /\ Owner = "path" /\ (app.path.stage = "truth" => app.path.truth)
  /\ LET ed == [app.path EXCEPT !.offered = @ \/ app.path.stage = "notify"]
         f == ed.field
         old == Entries(app.serial, f)
         entry == [serial |-> app.serial, of |-> f[1], field |-> Tail(f)]
     IN CASE ed.path = "" -> Set("path", NoTui) /\ UNCHANGED mapSession
          [] ed.path # "" /\ PathRefused(ed) -> Set("path", ed) /\ UNCHANGED mapSession
          [] ed.path # "" /\ NeedsTruth(ed) ->
               /\ Set("path", [ed EXCEPT !.stage = "truth"])
               /\ UNCHANGED mapSession
          [] OTHER ->
               IF ed.labels /\ ~ed.existing /\ ~ed.offered
               THEN /\ Set("path", [ed EXCEPT !.stage = "notify", !.offered = TRUE])
                    /\ UNCHANGED mapSession
               ELSE /\ Set("path", NoTui)
                    /\ mapSession' = [mapSession EXCEPT !.map = (@ \ old) \cup {entry}, !.dirty = TRUE]
  /\ Behind
  /\ UNCHANGED <<listed, unheard, astray>>
  /\ Cardinality(mapSession'.map) <= MaxEntries

UnmapSelected ==
  /\ Owner = "fields" /\ HasRows /\ app.serial # NoTui /\ Tail(Selected) \in Mapped
  /\ LET old == Entries(app.serial, Selected)
     IN mapSession' = [mapSession EXCEPT !.map = @ \ old, !.dirty = @ \/ old # {}]
  /\ Behind
  /\ UNCHANGED <<listed, app, unheard, astray>>

(* apply_to_article: the entries of the open device's serial, for the      *)
(* fields each other device has on its Monitoring tab.  Which devices are  *)
(* known by then, the backfill thread decides.                             *)
ApplyToArticle ==
  /\ Owner = "fields" /\ app.serial # NoTui
  /\ LET source == {e \in mapSession.map : e.serial = app.serial}
         targets == Range(listed) \ {app.serial}
         Copied(t) == {[serial |-> t, of |-> t, field |-> e.field] :
                         e \in {e \in source : e.field[1] = "monitoring"}}
     IN /\ source # {} /\ targets # {}
        /\ \E known \in SUBSET targets \ {{}} :
             LET copies == UNION {Copied(t) : t \in known}
                 Replaced(e) == \E c \in copies : c.serial = e.serial /\ c.field = e.field
             IN mapSession' = [mapSession EXCEPT
                              !.map = {e \in @ : ~Replaced(e)} \cup copies, !.dirty = TRUE]
  /\ Cardinality(mapSession'.map) <= MaxEntries
  /\ Behind
  /\ UNCHANGED <<listed, app, unheard, astray>>

-----------------------------------------------------------------------------
(* The file, and the end.                                                  *)

Save(ok) ==
  IF ok THEN mapSession' = [mapSession EXCEPT !.dirty = FALSE] /\ behind' = FALSE
  ELSE UNCHANGED <<mapSession, behind>>

SaveMapping ==
  /\ Browsing
  /\ \E ok \in BOOLEAN : Save(ok)
  /\ UNCHANGED <<listed, app, unheard, astray>>

QuitChecked ==
  /\ Browsing \/ Owner = "pending"
  /\ app' = IF mapSession.dirty THEN [app EXCEPT !.prompt = "write"] ELSE [app EXCEPT !.quit = TRUE]
  /\ UNCHANGED <<listed, mapSession, behind, unheard, astray>>

(* Every button can be reached from every other; a failed write stays.     *)
ChooseQuit ==
  /\ Owner = "prompt"
  /\ \/ Save(TRUE) /\ app' = [app EXCEPT !.prompt = NoTui, !.quit = TRUE]
     \/ app' = [app EXCEPT !.prompt = NoTui] /\ Save(FALSE)
     \/ app' = [app EXCEPT !.prompt = "discard", !.quit = TRUE] /\ Save(FALSE)
  /\ UNCHANGED <<listed, unheard, astray>>

Keys ==
  \/ MoveDevice \/ OpenHighlighted \/ CycleTab \/ MoveRow \/ Reread \/ BackToDevices \/ CancelPending
  \/ OpenValues \/ CloseValues \/ BeginEdit \/ CommitEdit \/ CancelEdit
  \/ OpenLogin \/ PickLevel \/ CommitLogin \/ CancelLogin
  \/ BeginMap \/ TypePath \/ OpenNotify \/ SetTruth \/ BackToPath \/ CancelMap
  \/ CommitMap \/ UnmapSelected \/ ApplyToArticle
  \/ SaveMapping \/ QuitChecked \/ ChooseQuit

TuiNext == Keys \/ Between

TuiSpec == TuiInit /\ [][TuiNext]_tuiVars

-----------------------------------------------------------------------------

OneDeviceShown ==
  /\ app.rows # NoTui => app.rows.device = app.cur /\ app.rows.tab = app.tab
  /\ app.cur # NoTui =>
       /\ \A v \in app.values : v[1] = app.cur
       /\ app.sub # NoTui => app.sub.device = app.cur
       /\ app.info \in {NoTui, app.cur}

(* However tabs are switched, discoveries given up or failed, and logins   *)
(* made: the rows, values and subscription on the screen are those of the  *)
(* open device and tab, a write goes to the device whose row was edited,   *)
(* an entry of the mapping is filed under the serial of the device that    *)
(* has the field, as long as every device opened has told its identity,    *)
(* and no edit of the mapping is lost unless it is discarded.              *)
WhatIsShownIsEdited ==
  /\ OneDeviceShown
  /\ ~astray
  /\ ~unheard => \A e \in mapSession.map : e.serial = e.of
  /\ behind /\ app.quit => app.prompt = "discard"
=============================================================================
