------------------------------ MODULE Settings ------------------------------
(***************************************************************************)
(* The player's settings (CSettings): a structure in memory, the file      *)
(* SAMP/settings.ini, and the copies that some components keep of theirs   *)
(* (CWeaponsOutFit, CRadarRect, CDebugInfo, CSnow ...).  The windows of    *)
(* the activity change them one by one and save them all, or put a         *)
(* category of them back to its defaults.                                  *)
(*                                                                         *)
(* A save removes the file, opens a new one and writes it; the system may  *)
(* kill the program between any two of these.  Settings that are kept and  *)
(* changed alike are one key.                                              *)
(***************************************************************************)
EXTENDS Integers, Sequences, Functions

CONSTANTS
    Values,         \* what the player may choose
    Default,        \* the value of a setting the file says nothing of
    TooSmall,       \* a position of at most 5, which is none
    Tagged,         \* a nickname with a tag in brackets
    Missing         \* no file

ASSUME SettingsAssumption ==
    /\ {Default, TooSmall, Tagged, Missing} \cap Values = {}
    /\ Missing \notin {Default, TooSmall, Tagged}

VARIABLES
    running,        \* the program runs and has its settings
    m_Settings,     \* their values (with CAdjustableHudPosition, -Scale and -Colors)
    own,            \* the components' own copies
    file,           \* the entries of settings.ini, in any order, or Missing
    saving,         \* a save under way: what it is for and how far it is
    chosen,         \* what the player has chosen
    kept,           \* what he had chosen when it was last saved
    cutOff,         \* a save has been cut off, or could not open the file
    restored        \* copies not told that their settings went back to defaults

settingsVars == <<running, m_Settings, own, file, saving, chosen, kept, cutOff, restored>>

(* name and font are always saved, outfit is category 1, the colours and   *)
(* positions of the hud are category 2, snow is read and never saved.      *)
(* They stand for all that are treated like them.                          *)
Category == [name |-> "always", font |-> "always", outfit |-> "first",
             hudColor |-> "second", hudPosition |-> "second", snow |-> "never"]
Keys == DOMAIN Category

(* A file that is there has entries, be it none. *)
ASSUME FileAssumption ==
    \A keys \in SUBSET Keys : Missing \notin [keys -> Values \cup {Default, Tagged}]

(* The entries in the order of the file. *)
Order == <<"name", "font", "outfit", "hudColor", "hudPosition">>

Mirrored == {"outfit", "snow"}
Changeable == Keys \ {"name", "font"}
AllDefault == [k \in Keys |-> Default]
NotSaving == [step |-> "none", category |-> "none", defaults |-> FALSE]

-----------------------------------------------------------------------------

(* The reader takes a bracket anywhere for that of a section: an entry     *)
(* with one in its value is lost, and those after it in its section are in *)
(* a section nobody asks for.                                              *)
Readable(entries) ==
    {k \in DOMAIN entries : entries[k] # Tagged}

(* Mutant: hudColor is always read as in use. *)
LoadSettings_Colors(entries) ==
    [k \in Keys |-> CASE k \in Readable(entries) -> entries[k]
                      [] k = "hudColor" -> TooSmall
                      [] OTHER -> Default]

(* LoadSettings, from a file that could be opened. *)
LoadSettings(entries) ==
    [k \in Keys |-> IF k \in Readable(entries) THEN entries[k] ELSE Default]

(* What Save puts into its table. *)
Table(settings, category) ==
    Restrict(settings,
             {k \in Keys : /\ Category[k] \notin {category, "never"}
                           /\ k = "hudColor" => settings[k] # Default})

(* What a setting becomes when it is set: SetElementPosition. *)
Clamped(k, v) == IF k = "hudPosition" /\ v = TooSmall THEN Default ELSE v

(* What the settings' window shows. *)
ShownValue(k) == IF k = "snow" THEN own[k] ELSE m_Settings[k]

-----------------------------------------------------------------------------

SettingsInit ==
    /\ running = FALSE
    /\ m_Settings = AllDefault /\ own = [k \in Mirrored |-> Default]
    /\ file \in {[k \in {"name"} |-> n] : n \in Values \cup {Tagged}}
    /\ saving = NotSaving
    /\ chosen = AllDefault
    /\ kept = [AllDefault EXCEPT !["name"] = IF file["name"] = Tagged THEN Default ELSE file["name"]]
    /\ cutOff = FALSE /\ restored = {}

(* InitSAMP and InitInMenu.  Without a file the program ends itself.       *)
Start ==
    /\ ~running
    /\ IF file = Missing THEN UNCHANGED settingsVars
       ELSE /\ running' = TRUE
            /\ m_Settings' = LoadSettings(file)
            /\ own' = [k \in Mirrored |-> m_Settings'[k]]
            /\ chosen' = kept /\ restored' = {}
            /\ UNCHANGED <<file, saving, kept, cutOff>>

(* The setters of the activity: setNative*. *)
Set(k, v) ==
    /\ running /\ saving = NotSaving
    /\ m_Settings' = [m_Settings EXCEPT ![k] = Clamped(k, v)]
    /\ own' = [c \in Mirrored |-> IF c = k THEN v ELSE own[c]]
    /\ chosen' = [chosen EXCEPT ![k] = Clamped(k, v)]
    /\ restored' = restored \ {k}
    /\ UNCHANGED <<running, file, saving, kept, cutOff>>

(* onSettingsWindowSave: Save removes the file first. *)
Save ==
    /\ running /\ saving = NotSaving
    /\ saving' = [step |-> "removed", category |-> "none", defaults |-> FALSE]
    /\ file' = Missing
    /\ UNCHANGED <<running, m_Settings, own, chosen, kept, cutOff, restored>>

(* onSettingsWindowDefaults: ToDefaults opens the file, which empties it,  *)
(* and saves all but the category.                                         *)
ToDefaults(category) ==
    /\ running /\ saving = NotSaving
    /\ saving' = [step |-> "emptied", category |-> category, defaults |-> TRUE]
    /\ file' = <<>>
    /\ UNCHANGED <<running, m_Settings, own, chosen, kept, cutOff, restored>>

Removed ==
    /\ running /\ saving.step = "emptied"
    /\ file' = Missing
    /\ saving' = [saving EXCEPT !.step = "removed"]
    /\ UNCHANGED <<running, m_Settings, own, chosen, kept, cutOff, restored>>

(* What the choices are once the category has gone back to its defaults,   *)
(* and those that are not in the file with it.                             *)
Without(choices, category) ==
    [k \in Keys |-> IF Category[k] \in {category, "never"} THEN Default ELSE choices[k]]

(* Written and closed.  After defaults the settings are read again; the    *)
(* components are not told.                                                *)
Written ==
    /\ running /\ saving.step = "removed"
    /\ file' = Table(m_Settings, saving.category)
    /\ saving' = NotSaving
    /\ kept' = Without(chosen, saving.category)
    /\ IF saving.defaults
       THEN /\ m_Settings' = LoadSettings(file')
            /\ chosen' = kept' /\ restored' = Mirrored
       ELSE UNCHANGED <<m_Settings, chosen, restored>>
    /\ UNCHANGED <<running, own, cutOff>>

(* The file cannot be opened, which Save does not look at; LoadSettings    *)
(* does, and ends the program.                                             *)
CannotOpen ==
    /\ running /\ saving.step = "removed"
    /\ running' = ~saving.defaults
    /\ saving' = NotSaving /\ cutOff' = TRUE
    /\ UNCHANGED <<m_Settings, own, file, chosen, kept, restored>>

(* The program ends or is killed: in a save, with the file gone, empty, or *)
(* written as far as some line.                                            *)
Kill ==
    /\ running
    /\ running' = FALSE /\ saving' = NotSaving
    /\ \/ UNCHANGED file
       \/ /\ saving.step = "removed"
          /\ \E n \in 0 .. Len(Order) :
                LET table == Table(m_Settings, saving.category)
                IN file' = Restrict(table, DOMAIN table \cap {Order[i] : i \in 1 .. n})
    /\ cutOff' = (cutOff \/ saving # NotSaving)
    /\ kept' = IF saving = NotSaving THEN kept ELSE Without(chosen, saving.category)
    /\ m_Settings' = AllDefault /\ own' = [k \in Mirrored |-> Default]
    /\ chosen' = AllDefault /\ restored' = {}

SettingsNext ==
    \/ Start
    \/ \E k \in Changeable, v \in Values : Set(k, v)
    \/ Set("hudPosition", TooSmall)
    \/ Save
    \/ \E category \in {"first", "second"} : ToDefaults(category)
    \/ Removed \/ Written \/ CannotOpen \/ Kill

-----------------------------------------------------------------------------

(* The player finds the settings as he has left them: what he chose in     *)
(* this run, what was saved of the run before, and the defaults for a      *)
(* category he gave up; only a save that was cut off can cost him some.    *)
ChoicesHold ==
    running /\ ~saving.defaults =>
        \A k \in Keys : m_Settings[k] = chosen[k] \/ (cutOff /\ m_Settings[k] = Default)

(* What the window shows is in force: the components use what their        *)
(* settings say, until the defaults are restored without them being told.  *)
InForce == running => \A k \in Mirrored \ restored : own[k] = ShownValue(k) /\ own[k] = m_Settings[k]

(* The program can be started again, unless a save was cut off.            *)
CanStart == file = Missing => cutOff \/ saving # NotSaving

(* Settings survive what happens to them. *)
SettingsKept == ChoicesHold /\ InForce /\ CanStart
=============================================================================
