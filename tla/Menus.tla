-------------------------------- MODULE Menus --------------------------------
(***************************************************************************)
(* What the menus of qemu_mgr show, and what comes of what is chosen in    *)
(* them: the start menu and the settings form of the terminal, the form    *)
(* and the menu of a running VM at the dialogs, used by several users of   *)
(* one VM.  A menu works on a list of settings in memory.  The list keeps  *)
(* what was loaded apart from what was set since, and may hold a name more *)
(* than once; looked up, it gives the last item if that has the name, and  *)
(* else the first that has.                                                *)
(*                                                                         *)
(* A file is read and written in one step: ConfigStore has the steps.      *)
(***************************************************************************)
EXTENDS Integers, Sequences, SequencesExt

CONSTANTS
  User,       \* qemu_mgr processes with a menu
  Ui,         \* Ui[u]: "term" or "xdialog"
  FormOrder,  \* the settings that the form has, in its order
  OtherKey,   \* settings that it does not have, as "size"
  Always,     \* settings that are written even when they are empty
  Value,
  Default,    \* Default[k]: the first option of the dialog for k
  Asked,      \* values given for those before the form is shown
  Templates,  \* settings of the templates
  Blank,      \* the empty value, and that of what is not set
  Unsure, Absent, None,
  MaxOps      \* bound: settings chosen, files written, VMs started, operations

Form == Range(FormOrder)
Key == Form \cup OtherKey
Updated == "updated"   \* the last line of every file
Settings == Seq([key : Key, val : Value \cup {Blank}])

ASSUME MenusAssumption ==
  /\ Ui \in [User -> {"term", "xdialog"}]
  /\ MaxOps \in Nat
  /\ Blank \notin Value /\ Unsure \notin Value \cup {Blank}
  /\ Updated \notin Key
  /\ Default \in [Form -> Value]
  /\ FormOrder \in Seq(Form) \ {<<>>}
  /\ \A i, j \in DOMAIN FormOrder : FormOrder[i] = FormOrder[j] => i = j
  /\ OtherKey \cap Form = {}
  /\ Asked \subseteq Value
  /\ Templates \subseteq Settings
  /\ Absent \notin Settings
  /\ None \notin Key \cup Value \cup {Blank}

VARIABLES
  file,     \* the configuration of the VM: Absent, or its settings in order
  vm,       \* "off", "running" or "paused"
  config,   \* the values that it was started with
  at,       \* the menu that each user sees
  menu,     \* the settings it was made from
  other,    \* those of "Start VM with other settings"
  offer,    \* in the menu of a running VM: "Pause" or "Resume"
  ops,
  (* history, read by the properties only *)
  touched,  \* users whose VM was paused or resumed by others since
  worked    \* users who have paused or resumed the VM in this menu

running == <<offer, touched, worked>>
vars == <<file, vm, config, at, menu, other, running, ops>>

-----------------------------------------------------------------------------
(* Lists of settings.                                                      *)

Pair(k, v) == [key |-> k, val |-> v]
Item(k, v, loaded) == [key |-> k, val |-> v, loaded |-> loaded]

Positions(list, k) == {i \in DOMAIN list : list[i].key = k}
First(S) == CHOOSE i \in S : \A j \in S : i <= j

\* ListFindNamedItem: the last item if it has the name, else the first.
FindFirst(list, k) ==  \* mutant
  IF Positions(list, k) = {} THEN 0 ELSE First(Positions(list, k))
FindItem(list, k) ==
  CASE Positions(list, k) = {} -> 0
    [] Len(list) \in Positions(list, k) -> Len(list)
    [] OTHER -> First(Positions(list, k))

\* ParserGetValue.
Get(list, k) == IF FindItem(list, k) = 0 THEN Blank ELSE list[FindItem(list, k)].val
Values(list) == [k \in Key |-> Get(list, k)]

\* SetVar finds no item that was loaded, and looks no further than the items of
\* one name that follow one another.
SetTargets(list, k) ==
  {j \in Positions(list, k) :
     /\ ~list[j].loaded
     /\ FindItem(list, k) <= j
     /\ FindItem(list, k)..j \subseteq Positions(list, k)}
SetOnce(list, k, v) ==  \* mutant: what is there already stays as it is
  IF FindItem(list, k) = 0 THEN Append(list, Item(k, v, FALSE)) ELSE list
SetVar(list, k, v) ==
  IF SetTargets(list, k) = {} THEN Append(list, Item(k, v, FALSE))
  ELSE [list EXCEPT ![First(SetTargets(list, k))].val = v]

\* ImageConfigUpdate.
AlwaysSets(list, pair) == SetVar(list, pair.key, pair.val)  \* mutant
UpdateOne(list, pair) ==
  IF FindItem(list, pair.key) = 0 THEN SetVar(list, pair.key, pair.val)
  ELSE [list EXCEPT ![FindItem(list, pair.key)].val = pair.val]
Update(list, pairs) ==
  LET upTo[i \in 0..Len(pairs)] ==
        IF i = 0 THEN list ELSE UpdateOne(upTo[i - 1], pairs[i])
  IN upTo[Len(pairs)]

\* ImageConfigExpand, ImageConfigSave and ImageConfigLoad.
Expand(list) == [i \in DOMAIN list |-> Pair(list[i].key, list[i].val)]
Written(pair) == pair.key # Updated /\ (pair.val # Blank \/ pair.key \in Always)
Save(pairs) ==
  LET upTo[i \in 0..Len(pairs)] ==
        IF i = 0 THEN <<>>
        ELSE IF Written(pairs[i]) THEN Append(upTo[i - 1], pairs[i]) ELSE upTo[i - 1]
  IN upTo[Len(pairs)]
Load(settings) ==
  Append([i \in DOMAIN settings |-> Item(settings[i].key, settings[i].val, TRUE)],
         Item(Updated, Blank, TRUE))

\* ImageChange: in the NULL tree of a VM that is not there nothing can be set.
Change(settings, pairs) ==
  IF settings = Absent THEN <<>> ELSE Save(Expand(Update(Load(settings), pairs)))

(* Settings on the screen: the list, and as history the values it began with, *)
(* what was chosen since, and last, and what others have changed in the file. *)
Sheet(list) ==
  [list |-> list, opened |-> Values(list), chosen |-> [k \in Key |-> None],
   newest |-> None, changed |-> {}]
NoSheet == Sheet(<<>>)

Edited(sheet, k, v) ==
  [sheet EXCEPT !.list = SetVar(@, k, v), !.chosen[k] = v, !.newest = k]

Nothing == [k \in Key |-> Unsure]

-----------------------------------------------------------------------------
Init ==
  /\ file \in {Save(<<Pair(FormOrder[1], v)>>) : v \in Asked \cup {Blank}}
  /\ vm = "off"
  /\ config = Nothing
  /\ at = [u \in User |-> "list"]
  /\ menu = [u \in User |-> NoSheet]
  /\ other = [u \in User |-> NoSheet]
  /\ offer = [u \in User |-> None]
  /\ ops = 0
  /\ touched = {}
  /\ worked = {}

GoTo(u, place) == at' = [at EXCEPT ![u] = place]
Opens(u, place, list) ==
  GoTo(u, place) /\ menu' = [menu EXCEPT ![u] = Sheet(list)] /\ UNCHANGED other
ToList(u) == Opens(u, "list", <<>>)

\* The file is replaced: the sheets of the others do not notice.
Replaces(settings) ==
  LET before == Values(Load(IF file = Absent THEN <<>> ELSE file))
      after == Values(Load(IF settings = Absent THEN <<>> ELSE settings))
  IN {k \in Key : before[k] # after[k]}

Overtaken(u, sheets, settings) ==
  [w \in User |-> IF w = u THEN sheets[w]
                  ELSE [sheets[w] EXCEPT !.changed = @ \cup Replaces(settings)]]

\* QEMU gives up if the VM runs already.
Starts(settings, pairs) ==
  IF vm = "off"
  THEN vm' = "running" /\ config' = Values(Update(Load(settings), pairs))
  ELSE UNCHANGED <<vm, config>>

NoWrite == UNCHANGED file
NoStart == UNCHANGED <<vm, config>>
Counted == ops < MaxOps /\ ops' = ops + 1

-----------------------------------------------------------------------------
(* A VM that is off: the start menu of the terminal, and its form.         *)

Select(u) ==
  /\ at[u] = "list"
  /\ file # Absent
  /\ vm = "off"
  /\ Opens(u, IF Ui[u] = "term" THEN "start" ELSE "form", Load(file))
  /\ NoWrite /\ NoStart
  /\ UNCHANGED <<running, ops>>

\* "Start VM with these settings": with those of the file, not with those on the
\* screen, which also has what was chosen in the form and not saved.
StartThese(u) ==
  /\ at[u] = "start"
  /\ Counted
  /\ file # Absent
  /\ Starts(file, <<>>)
  /\ NoWrite
  /\ UNCHANGED <<at, menu, other, running>>

\* "Configure VM" works on the list of the menu, "Start VM with other settings"
\* on one that is loaded for it.
Configure(u) ==
  /\ at[u] = "start"
  /\ GoTo(u, "configure")
  /\ NoWrite /\ NoStart
  /\ UNCHANGED <<menu, other, running, ops>>

OpenOther(u) ==
  /\ at[u] = "start"
  /\ file # Absent
  /\ GoTo(u, "other")
  /\ other' = [other EXCEPT ![u] = Sheet(Load(file))]
  /\ NoWrite /\ NoStart
  /\ UNCHANGED <<menu, running, ops>>

\* One setting is chosen in the form.
Edit(u, k, v) ==
  /\ Counted
  /\ \/ /\ at[u] \in {"configure", "new"} /\ Ui[u] = "term"
        /\ menu' = [menu EXCEPT ![u] = Edited(@, k, v)]
        /\ UNCHANGED other
     \/ /\ at[u] = "other"
        /\ other' = [other EXCEPT ![u] = Edited(@, k, v)]
        /\ UNCHANGED menu
  /\ NoWrite /\ NoStart
  /\ UNCHANGED <<at, running>>

\* The form is left without DONE.
Leave(u) ==
  /\ at[u] \in {"configure", "other"}
  /\ GoTo(u, "start")
  /\ other' = [other EXCEPT ![u] = NoSheet]
  /\ NoWrite /\ NoStart
  /\ UNCHANGED <<menu, running, ops>>

\* "DONE use these values": all of them are handed to ImageChange ...
DoneConfigure(u) ==
  LET settings == Change(file, Expand(menu[u].list)) IN
  /\ at[u] = "configure"
  /\ Counted
  /\ file' = settings
  /\ GoTo(u, "start")
  /\ menu' = Overtaken(u, menu, settings)
  /\ other' = Overtaken(u, other, settings)
  /\ NoStart
  /\ UNCHANGED <<running>>

\* ... or to ImageStart.
DoneOther(u) ==
  /\ at[u] = "other"
  /\ Counted
  /\ \/ file = Absent /\ NoStart
     \/ file # Absent /\ Starts(file, Expand(other[u].list))
  /\ GoTo(u, "start")
  /\ other' = [other EXCEPT ![u] = NoSheet]
  /\ NoWrite
  /\ UNCHANGED <<menu, running>>

Back(u) ==
  /\ at[u] \in {"start", "form", "new"}
  /\ ToList(u)
  /\ NoWrite /\ NoStart
  /\ UNCHANGED <<running, ops>>

DeleteVm(u) ==
  /\ at[u] \in {"start", "form"}
  /\ Counted
  /\ file' = Absent
  /\ GoTo(u, "list")
  /\ menu' = [Overtaken(u, menu, Absent) EXCEPT ![u] = NoSheet]
  /\ other' = Overtaken(u, other, Absent)
  /\ NoStart
  /\ UNCHANGED <<running>>

-----------------------------------------------------------------------------
(* The form of the dialogs.                                                *)

\* Each setting shows what it has, or else the first of the options.
Shown(list) == [k \in Form |-> IF Get(list, k) = Blank THEN Default[k] ELSE Get(list, k)]

\* What the form sends: "other" asks for a value, which may be refused.
Sent(picks) == [i \in DOMAIN FormOrder |-> Pair(FormOrder[i], picks[FormOrder[i]])]
Picks(list) ==
  {Shown(list)} \cup {[Shown(list) EXCEPT ![k] = v] : k \in Form, v \in Value \cup {Blank}}

Submit(u, picks, save, start) ==
  /\ at[u] = "form"
  /\ Counted
  /\ save \/ start
  /\ IF save THEN file' = Change(file, Sent(picks)) ELSE NoWrite
  /\ IF start /\ file' # Absent THEN Starts(file', Sent(picks)) ELSE NoStart
  /\ GoTo(u, "list")
  /\ menu' = [Overtaken(u, menu, file') EXCEPT ![u] = NoSheet]
  /\ other' = Overtaken(u, other, file')
  /\ UNCHANGED <<running>>

-----------------------------------------------------------------------------
(* A new VM, of this name again: a setting that is asked for, a template,   *)
(* and the form.                                                            *)

\* The terminal asks for the template last: its settings replace the answers.
Banner(k, v, template) == Update(SetVar(<<>>, k, v), template)

SetupNew(u, k, v, template) ==
  LET list == Banner(k, v, template) IN
  /\ at[u] = "list"
  /\ Ui[u] = "term"
  /\ GoTo(u, "new")
  /\ menu' = [menu EXCEPT ![u] = [Sheet(list) EXCEPT !.chosen =
       [n \in Key |-> LET of == Positions(template, n) IN
          IF of # {} THEN template[CHOOSE i \in of : \A j \in of : j <= i].val
          ELSE IF n = k THEN v ELSE Blank]]]
  /\ UNCHANGED other
  /\ NoWrite /\ NoStart
  /\ UNCHANGED <<running, ops>>

\* ImageAdd, or ImageCreate: the file is written over.  A VM whose disk was
\* there before is started at once.
DoneNew(u, start) ==
  LET pairs == Expand(menu[u].list)  settings == Save(pairs) IN
  /\ at[u] = "new"
  /\ Counted
  /\ file' = settings
  /\ IF start THEN Starts(settings, pairs) ELSE NoStart
  /\ GoTo(u, "list")
  /\ menu' = [Overtaken(u, menu, settings) EXCEPT ![u] = NoSheet]
  /\ other' = Overtaken(u, other, settings)
  /\ UNCHANGED <<running>>

\* In the dialogs the settings of the template are what the form shows first;
\* those that it does not have are lost.
DialogNew(u, k, v, picks, start) ==
  LET pairs == <<Pair(k, v)>> \o Sent(picks)
      settings == Save(pairs)
  IN
  /\ at[u] = "list"
  /\ Counted
  /\ Ui[u] = "xdialog"
  /\ file' = settings
  /\ IF start THEN Starts(settings, pairs) ELSE NoStart
  /\ menu' = Overtaken(u, menu, settings)
  /\ other' = Overtaken(u, other, settings)
  /\ UNCHANGED <<at, running>>

-----------------------------------------------------------------------------
(* A VM that runs.                                                         *)

IsPaused == vm = "paused"

Manage(u) ==
  /\ at[u] = "list"
  /\ vm # "off"
  /\ GoTo(u, "manage")
  /\ offer' = [offer EXCEPT ![u] = IF IsPaused THEN "Resume" ELSE "Pause"]
  /\ touched' = touched \ {u}
  /\ worked' = worked \ {u}
  /\ UNCHANGED <<file, vm, config, menu, other, ops>>

\* After an operation the terminal goes back to the list.  The dialog makes the
\* menu again, but with the TImageInfo of before.
StaysInMenu(u) == UNCHANGED <<at, offer>>  \* mutant
AfterOperation(u) ==
  IF Ui[u] = "term"
  THEN GoTo(u, "list") /\ offer' = [offer EXCEPT ![u] = None]
  ELSE UNCHANGED <<at, offer>>

\* ImagePause or ImageResume, as the menu has it.
PauseOrResume(u) ==
  /\ at[u] = "manage"
  /\ Counted
  /\ vm' = IF vm = "off" THEN "off" ELSE IF offer[u] = "Pause" THEN "paused" ELSE "running"
  /\ AfterOperation(u)
  /\ touched' = IF vm' = vm THEN touched ELSE touched \cup (User \ {u})
  /\ worked' = worked \cup {u}
  /\ UNCHANGED <<file, config, menu, other>>

LeaveManage(u) ==
  /\ at[u] = "manage"
  /\ GoTo(u, "list")
  /\ offer' = [offer EXCEPT ![u] = None]
  /\ UNCHANGED <<file, vm, config, menu, other, ops, touched, worked>>

\* The guest ends.
Ends ==
  /\ vm = "running"
  /\ vm' = "off"
  /\ config' = Nothing
  /\ UNCHANGED <<file, at, menu, other, running, ops>>

-----------------------------------------------------------------------------
StartMenus(u) ==
  \/ Select(u) \/ StartThese(u) \/ Configure(u) \/ OpenOther(u) \/ Leave(u)
  \/ DoneConfigure(u) \/ DoneOther(u) \/ Back(u) \/ DeleteVm(u)
  \/ \E k \in Form : \E v \in Value : Edit(u, k, v)
  \/ /\ at[u] = "form"
     /\ \E picks \in Picks(menu[u].list), save, start \in BOOLEAN :
          Submit(u, picks, save, start)

NewMenus(u) ==
  \/ \E k \in OtherKey, v \in Asked, t \in Templates : SetupNew(u, k, v, t)
  \/ \E start \in BOOLEAN : DoneNew(u, start)
  \/ /\ at[u] = "list"
     /\ \E t \in Templates : \E picks \in Picks(Update(<<>>, t)) :
          \E k \in OtherKey, v \in Asked, start \in BOOLEAN :
            DialogNew(u, k, v, picks, start)

ManageMenus(u) ==
  Manage(u) \/ PauseOrResume(u) \/ LeaveManage(u)

Next == (\E u \in User : StartMenus(u) \/ NewMenus(u) \/ ManageMenus(u)) \/ Ends

Spec == Init /\ [][Next]_vars

-----------------------------------------------------------------------------
(* Properties.                                                             *)

List == Seq([key : Key \cup {Updated}, val : Value \cup {Blank}, loaded : BOOLEAN])
Sheets == [list : List, opened : [Key -> Value \cup {Blank}],
           chosen : [Key -> Value \cup {Blank, None}],
           newest : Key \cup {None}, changed : SUBSET Key]

\* Types; and no setting is in the file twice, whatever the lists hold.
TypeOK ==
  /\ file \in Settings \cup {Absent}
  /\ file # Absent => \A i, j \in DOMAIN file : file[i].key = file[j].key => i = j
  /\ vm \in {"off", "running", "paused"}
  /\ config \in [Key -> Value \cup {Blank, Unsure}]
  /\ at \in [User -> {"list", "start", "configure", "other", "form", "new", "manage"}]
  /\ menu \in [User -> Sheets]
  /\ other \in [User -> Sheets]
  /\ offer \in [User -> {"Pause", "Resume", None}]
  /\ ops \in 0..MaxOps
  /\ touched \subseteq User /\ worked \subseteq User

\* What is to come of a sheet that is handed over as a whole: what was chosen,
\* else what it began with, which undoes what others have changed meanwhile.
AsOnSheet(sheet, k) ==
  IF sheet.chosen[k] # None THEN sheet.chosen[k]
  ELSE IF k \in sheet.changed /\ sheet.opened[k] = Blank THEN Unsure
  ELSE sheet.opened[k]

\* What is to come of the dialog's form, which hands over its own settings only.
AsPicked(u, picks, k) ==
  IF k \in Form THEN picks[k]
  ELSE IF k \in menu[u].changed THEN Unsure
  ELSE menu[u].opened[k]

Holds(values, Want(_)) == \A k \in Key : Want(k) \in {Unsure, values[k]}

\* "DONE use these values" (interactive_vt100.c:155) and the dialog's "save
\* config" leave in the file what was chosen last for each setting, and what was
\* there for the others, although the list may hold several values for one and
\* the file is loaded once more before it is written.
SavedAsChosen ==
  [][\A u \in User :
       /\ DoneConfigure(u) /\ file # Absent =>
            Holds(Values(Load(file')), LAMBDA k : AsOnSheet(menu[u], k))
       /\ \A start \in BOOLEAN : DoneNew(u, start) =>
            Holds(Values(Load(file')), LAMBDA k : menu[u].chosen[k])
       /\ at[u] = "form" =>
            \A picks \in Picks(menu[u].list), start \in BOOLEAN :
              Submit(u, picks, TRUE, start) /\ file # Absent =>
                Holds(Values(Load(file')), LAMBDA k : AsPicked(u, picks, k))]_vars

\* A VM is started with what was chosen for this start; or "with these settings",
\* those that the menu shows, unless some were chosen and abandoned there or
\* somebody else has changed them.
AsShown(sheet, k) ==
  IF sheet.chosen[k] # None \/ k \in sheet.changed THEN Unsure ELSE Get(sheet.list, k)

StartedAsChosen ==
  [][vm = "off" /\ vm' # "off" =>
       \A u \in User :
         /\ StartThese(u) => Holds(config', LAMBDA k : AsShown(menu[u], k))
         /\ DoneOther(u) => Holds(config', LAMBDA k : AsOnSheet(other[u], k))
         /\ at[u] = "form" =>
              \A picks \in Picks(menu[u].list), save \in BOOLEAN :
                Submit(u, picks, save, TRUE) =>
                  Holds(config', LAMBDA k : AsPicked(u, picks, k))]_vars

\* The form of the terminal shows what DONE would use, except for settings that
\* were chosen before another one was: these show the value of before.
ShowsWhatCounts ==
  \A u \in User : \A sheet \in {menu[u], other[u]} : \A k \in Key :
    /\ sheet.newest = k => Get(sheet.list, k) = sheet.chosen[k]
    /\ sheet.chosen[k] = None => Get(sheet.list, k) = sheet.opened[k]

\* Whoever is in the menu of a running VM is offered to resume it exactly if it
\* is paused, unless somebody else has paused or resumed it since; and a dialog
\* that has done so itself goes on with the old offer (interactive_xdialog.c:788).
OffersWhatApplies ==
  \A u \in User :
    (at[u] = "manage" /\ vm # "off" /\ u \notin touched
     /\ (Ui[u] = "xdialog" => u \notin worked))
      => (offer[u] = "Resume" <=> vm = "paused")
=============================================================================
